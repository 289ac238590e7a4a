---------------------------- MODULE Services_proof ----------------------------
(***************************************************************************)
(* Proofs about the three services around the core, for any coins, wallets,   *)
(* limits and numbers of requests: the rests of the trading universe survive  *)
(* restarts and its allowlist follows the choice; the peak of the equity      *)
(* breaker was real; a key of the auto-probe buys once.  Then about the       *)
(* nightly cycle: the ledger of downloads has no gap, and the model store     *)
(* serves what was meant to be served.                                      *)
(***************************************************************************)
EXTENDS Universe, EquityBreaker, AutoProbe, NightlyCycle, FiniteSetTheorems, SequenceTheorems, TLAPS

-----------------------------------------------------------------------------
(* The trading universe.                                                    *)

ScanRecord  == [at : {"idle", "fetch", "store", "save"}, fit : SUBSET Coins,
                top : Choices, age : 0..Rest]
SavedRecord == [whole : BOOLEAN, chosen : SUBSET Coins, rest : Rests]
LinkRecord  == [up : {"down", "opening", "open"}, coins : SUBSET Coins]
SomeCoins   == {S \in SUBSET Coins : S # {}}

UniverseTyped ==
    /\ chosen \in SomeCoins /\ rest \in Rests /\ saved \in SavedRecord /\ scan \in ScanRecord
    /\ news \in Seq(Choices \ {{}}) /\ Len(news) <= MaxNews
    /\ allow \in SomeCoins /\ want \in SomeCoins /\ link \in LinkRecord
    /\ closing \in BOOLEAN /\ missed \in BOOLEAN /\ due \in Rests
    /\ starts \in 1..MaxStarts

\* The rests the file has been told of are those it holds, and the scanner never
\* believes a coin to be rested that the file does not.
FileKnown ==
    /\ due = saved.rest
    /\ ~saved.whole => saved.rest = Rested
    /\ saved.whole => saved.chosen # {}
    /\ \A c \in Coins : due[c] <= rest[c]

\* While a scan is under way its candidates are rested, and its choice is among
\* them.
ScanRested ==
    /\ scan.at # "idle" => \A c \in scan.fit : due[c] = 0
    /\ scan.top \subseteq scan.fit

\* What the allowlist will be once the bus is empty, and what the choice will be
\* once the scan has stored it.
Heading  == IF news = <<>> THEN allow ELSE news[Len(news)]
Decided  == IF scan.at = "store" /\ scan.top # {} THEN scan.top ELSE chosen
Followed == ~missed => Heading = Decided

UniverseSafe == UniverseTyped /\ FileKnown /\ ScanRested /\ Followed

LEMMA UniverseConstants ==
    /\ Configured \subseteq Coins /\ Configured # {} /\ Rest \in Nat
    /\ MaxNews \in Nat /\ MaxNews > 0 /\ MaxStarts \in Nat /\ MaxStarts > 0
    /\ Configured \in SomeCoins /\ Choices \ {{}} \subseteq SomeCoins /\ Rested \in Rests
    /\ NoScan \in ScanRecord /\ NoState \in SavedRecord /\ Down \in LinkRecord
<1>1. {} \in Choices BY UniverseAssumption, FS_EmptySet DEF UniverseAssumption, Choices
<1>2. Choices \ {{}} \subseteq SomeCoins
  <2>1. \A T \in Choices : T \in SUBSET Coins BY DEF Choices
  <2> QED BY <2>1 DEF SomeCoins
<1>3. Rested \in Rests BY UniverseAssumption DEF UniverseAssumption, Rested, Rests
<1>4. NoScan \in ScanRecord
  BY <1>1, UniverseAssumption DEF UniverseAssumption, NoScan, ScanRecord
<1>5. NoState \in SavedRecord BY <1>3 DEF NoState, SavedRecord
<1>6. Down \in LinkRecord BY DEF Down, LinkRecord
<1>7. Configured \in SomeCoins BY UniverseAssumption DEF UniverseAssumption, SomeCoins
<1>8. /\ Configured \subseteq Coins /\ Configured # {} /\ Rest \in Nat
      /\ MaxNews \in Nat /\ MaxNews > 0 /\ MaxStarts \in Nat /\ MaxStarts > 0
  BY UniverseAssumption DEF UniverseAssumption
<1> QED BY <1>2, <1>3, <1>4, <1>5, <1>6, <1>7, <1>8

\* Time lowers every rest by the same step, so it keeps the order of two rests.
LEMMA LowerRests ==
    ASSUME NEW r \in Rests, NEW d \in Rests, \A c \in Coins : d[c] <= r[c]
    PROVE  /\ Lower(r) \in Rests /\ Lower(d) \in Rests
           /\ \A c \in Coins : Lower(d)[c] <= Lower(r)[c] /\ (d[c] = 0 => Lower(d)[c] = 0)
BY UniverseConstants DEF Rests, Lower

LEMMA UniverseStarts == ASSUME UniverseInit PROVE UniverseSafe
<1>1. Rested \in Rests BY UniverseConstants DEF Rested, Rests
<1>2. UniverseTyped
  <2>1. news \in Seq(Choices \ {{}}) /\ Len(news) <= MaxNews
    BY UniverseConstants DEF UniverseInit
  <2>2. chosen \in SomeCoins /\ allow \in SomeCoins /\ want \in SomeCoins
    BY UniverseConstants DEF UniverseInit
  <2>3. starts \in 1..MaxStarts BY UniverseConstants DEF UniverseInit
  <2>4. /\ rest \in Rests /\ due \in Rests /\ saved \in SavedRecord /\ scan \in ScanRecord
        /\ link \in LinkRecord /\ closing \in BOOLEAN /\ missed \in BOOLEAN
    BY UniverseConstants DEF UniverseInit
  <2> QED BY <2>1, <2>2, <2>3, <2>4 DEF UniverseTyped
<1>3. FileKnown BY UniverseConstants DEF UniverseInit, FileKnown, NoState, Rested
<1>4. ScanRested /\ Followed BY DEF UniverseInit, ScanRested, Followed, NoScan
<1> QED BY <1>2, <1>3, <1>4 DEF UniverseSafe

LEMMA ScanningKeeps == ASSUME UniverseSafe, Scanning PROVE UniverseSafe'
<1> USE DEF UniverseSafe
<1>1. CASE ScanStart
  <2>1. UniverseTyped'
    <3>1. scan' \in ScanRecord BY <1>1, UniverseConstants DEF ScanStart, ScanRecord
    <3> QED BY <1>1, <3>1 DEF UniverseTyped, ScanStart
  <2>2. FileKnown' BY <1>1 DEF ScanStart, FileKnown
  <2>3. ScanRested'
    BY <1>1 DEF ScanStart, ScanRested, FileKnown, UniverseTyped, Rests, NoScan
  <2>4. Followed' BY <1>1 DEF ScanStart, Followed, Heading, Decided, NoScan
  <2> QED BY <2>1, <2>2, <2>3, <2>4
<1>2. CASE ScanFails
  BY <1>2, UniverseConstants DEF ScanFails, UniverseTyped, FileKnown, ScanRested, Followed,
                                 Heading, Decided, NoScan
<1>3. CASE ScanFires
  <2> PICK T \in Choices :
         /\ T \subseteq scan.fit
         /\ scan' = [scan EXCEPT !.at = "store", !.top = T]
         /\ \/ T = {} /\ UNCHANGED <<news, missed>>
            \/ T # {} /\ Len(news) < MaxNews /\ news' = Append(news, T) /\ missed' = FALSE
            \/ T # {} /\ missed' = TRUE /\ UNCHANGED news
    BY <1>3 DEF ScanFires
  <2>0. /\ scan.at = "fetch"
        /\ UNCHANGED <<chosen, rest, saved, allow, want, link, closing, starts, due>>
    BY <1>3 DEF ScanFires
  <2>1. news' \in Seq(Choices \ {{}}) /\ Len(news') <= MaxNews /\ missed' \in BOOLEAN
    <3>1. CASE T = {} BY <3>1 DEF UniverseTyped
    <3>2. CASE T # {}
      <4>1. T \in Choices \ {{}} BY <3>2
      <4>2. news \in Seq(Choices \ {{}}) /\ Len(news) <= MaxNews /\ missed \in BOOLEAN
        BY DEF UniverseTyped
      <4>3. CASE Len(news) < MaxNews /\ news' = Append(news, T) /\ missed' = FALSE
        <5>1. Append(news, T) \in Seq(Choices \ {{}}) /\ Len(Append(news, T)) = Len(news) + 1
          BY <4>1, <4>2, AppendProperties
        <5>2. Len(news) \in Nat BY <4>2
        <5>3. \A n, m \in Nat : n < m => n + 1 <= m OBVIOUS
        <5>4. Len(Append(news, T)) <= MaxNews BY <4>3, <5>1, <5>2, <5>3, UniverseConstants, Zenon
        <5>5. missed' \in BOOLEAN BY <4>3
        <5> QED BY <4>3, <5>1, <5>4, <5>5, Zenon
      <4> QED BY <3>2, <4>2, <4>3
    <3> QED BY <3>1, <3>2
  <2>2. scan' \in ScanRecord
    BY DEF UniverseTyped, ScanRecord
  <2>3. UniverseTyped' BY <2>0, <2>1, <2>2 DEF UniverseTyped
  <2>4. FileKnown' /\ ScanRested' BY <2>0 DEF FileKnown, ScanRested, UniverseTyped
  <2>5. scan'.at = "store" /\ scan'.top = T BY DEF UniverseTyped, ScanRecord
  <2>6. Followed'
    <3>1. CASE T = {} BY <2>0, <2>5, <3>1 DEF Followed, Heading, Decided
    <3>2. CASE T # {} /\ news' = Append(news, T)
      <4>1. news' # <<>> /\ news'[Len(news')] = T BY <3>2 DEF UniverseTyped
      <4>2. Heading' = T BY <4>1 DEF Heading
      <4>3. Decided' = T BY <2>5, <3>2 DEF Decided
      <4> QED BY <4>2, <4>3 DEF Followed
    <3>3. CASE missed' = TRUE BY <3>3 DEF Followed
    <3> QED BY <3>1, <3>2, <3>3
  <2> QED BY <2>3, <2>4, <2>6
<1>4. CASE ScanStore
  <2>0. /\ scan.at = "store"
        /\ chosen' = (IF scan.top = {} THEN chosen ELSE scan.top)
        /\ rest' = [c \in Coins |-> IF c \in scan.top THEN Rest - scan.age ELSE rest[c]]
        /\ scan' = [scan EXCEPT !.at = "save"]
        /\ UNCHANGED <<saved, news, allow, want, link, closing, missed, starts, due>>
    BY <1>4 DEF ScanStore
  <2>1. Rest - scan.age \in 0..Rest BY UniverseConstants DEF UniverseTyped, ScanRecord
  <2>2. rest' \in Rests BY <2>0, <2>1 DEF UniverseTyped, Rests
  <2>3. chosen' \in SomeCoins BY <2>0, UniverseConstants DEF UniverseTyped, ScanRecord
  <2>4. scan' \in ScanRecord
    BY <2>0 DEF UniverseTyped, ScanRecord
  <2>5. UniverseTyped' BY <2>0, <2>2, <2>3, <2>4 DEF UniverseTyped
  <2>6. \A c \in Coins : due'[c] <= rest'[c]
    <3>1. \A c \in scan.top : due[c] = 0 BY <2>0 DEF ScanRested
    <3> QED BY <2>0, <2>1, <3>1 DEF FileKnown
  <2>7. FileKnown' BY <2>0, <2>6 DEF FileKnown
  <2>8. ScanRested' BY <2>0 DEF ScanRested, UniverseTyped
  <2>9. Followed' BY <2>0 DEF Followed, Heading, Decided, UniverseTyped
  <2> QED BY <2>5, <2>7, <2>8, <2>9
<1>5. CASE ScanSave
  <2>0. /\ scan.at = "save" /\ scan' = NoScan
        /\ \/ saved' = [whole |-> TRUE, chosen |-> chosen, rest |-> rest] /\ due' = rest
           \/ UNCHANGED <<saved, due>>
        /\ UNCHANGED <<chosen, rest, news, allow, want, link, closing, missed, starts>>
    BY <1>5 DEF ScanSave
  <2>1. saved' \in SavedRecord /\ due' \in Rests
    <3>1. chosen \in SUBSET Coins BY DEF UniverseTyped, SomeCoins
    <3>2. [whole |-> TRUE, chosen |-> chosen, rest |-> rest] \in SavedRecord
      BY <3>1 DEF UniverseTyped, SavedRecord
    <3> QED BY <2>0, <3>2 DEF UniverseTyped
  <2>2. UniverseTyped' BY <2>0, <2>1, UniverseConstants DEF UniverseTyped
  <2>3. FileKnown'
    <3>1. CASE UNCHANGED <<saved, due>> BY <2>0, <3>1 DEF FileKnown
    <3>2. CASE saved' = [whole |-> TRUE, chosen |-> chosen, rest |-> rest] /\ due' = rest
      <4>1. \A c \in Coins : rest[c] <= rest[c] BY DEF UniverseTyped, Rests
      <4>2. chosen # {} BY DEF UniverseTyped, SomeCoins
      <4> QED BY <2>0, <3>2, <4>1, <4>2 DEF FileKnown
    <3> QED BY <2>0, <3>1, <3>2
  <2>4. ScanRested' /\ Followed' BY <2>0 DEF ScanRested, Followed, Heading, Decided, NoScan
  <2> QED BY <2>2, <2>3, <2>4
<1> QED BY <1>1, <1>2, <1>3, <1>4, <1>5 DEF Scanning

LEMMA UniverseTickKeeps == ASSUME UniverseSafe, UniverseTick PROVE UniverseSafe'
<1> USE DEF UniverseSafe
<1>0. /\ rest' = Lower(rest) /\ due' = Lower(due)
      /\ saved' = [saved EXCEPT !.rest = Lower(saved.rest)]
      /\ scan' = [scan EXCEPT !.age = IF scan.at \in {"fetch", "store"} /\ scan.age < Rest
                                      THEN scan.age + 1 ELSE scan.age]
      /\ UNCHANGED <<chosen, news, allow, want, link, closing, missed, starts>>
  BY DEF UniverseTick
<1>1. rest \in Rests /\ due \in Rests /\ due = saved.rest /\ \A c \in Coins : due[c] <= rest[c]
  BY DEF UniverseTyped, FileKnown
<1>2. /\ rest' \in Rests /\ due' \in Rests
      /\ \A c \in Coins : due'[c] <= rest'[c] /\ (due[c] = 0 => due'[c] = 0)
  BY <1>0, <1>1, LowerRests
<1>a. scan \in ScanRecord /\ saved \in SavedRecord BY DEF UniverseTyped
<1>3. scan' \in ScanRecord
  <2>1. (IF scan.at \in {"fetch", "store"} /\ scan.age < Rest THEN scan.age + 1 ELSE scan.age)
            \in 0..Rest
    BY <1>a, UniverseConstants DEF ScanRecord
  <2> QED BY <1>0, <1>a, <2>1 DEF ScanRecord
<1>4. scan'.at = scan.at /\ scan'.fit = scan.fit /\ scan'.top = scan.top
  BY <1>0, <1>a DEF ScanRecord
<1>5. saved' \in SavedRecord
      /\ saved'.rest = due' /\ saved'.whole = saved.whole /\ saved'.chosen = saved.chosen
  BY <1>0, <1>1, <1>2, <1>a DEF SavedRecord
<1>6. UniverseTyped' BY <1>0, <1>2, <1>3, <1>5 DEF UniverseTyped
<1>7. Lower(Rested) = Rested BY DEF Lower, Rested
<1>8. FileKnown' BY <1>0, <1>1, <1>2, <1>5, <1>7 DEF FileKnown
<1>9. ScanRested' BY <1>2, <1>4, <1>a DEF ScanRested, ScanRecord
<1>10. Followed' BY <1>0, <1>4 DEF Followed, Heading, Decided
<1> QED BY <1>6, <1>8, <1>9, <1>10

LEMMA StreamingKeeps ==
    ASSUME UniverseSafe, Streaming \/ StreamBreaks \/ ScannerWatchdog PROVE UniverseSafe'
<1>1. UNCHANGED <<chosen, rest, saved, scan, news, allow, missed, starts, due>>
  BY DEF Streaming, StreamOpens, StreamConnects, StreamCloses, StreamBreaks, ScannerWatchdog
<1>2. /\ link' \in LinkRecord
      /\ want' \in SomeCoins /\ closing' \in BOOLEAN
  <2> USE DEF UniverseSafe, UniverseTyped
  <2>1. CASE StreamOpens BY <2>1 DEF StreamOpens, LinkRecord, SomeCoins
  <2>2. CASE StreamConnects BY <2>2, UniverseConstants DEF StreamConnects, LinkRecord
  <2>3. CASE StreamCloses \/ StreamBreaks
    BY <2>3, UniverseConstants DEF StreamCloses, StreamBreaks
  <2>4. CASE ScannerWatchdog BY <2>4 DEF ScannerWatchdog, Subscribe, Watched
  <2> QED BY <2>1, <2>2, <2>3, <2>4 DEF Streaming
<1>3. UniverseTyped' BY <1>1, <1>2 DEF UniverseSafe, UniverseTyped
<1>4. FileKnown' /\ ScanRested' /\ Followed'
  BY <1>1 DEF UniverseSafe, FileKnown, ScanRested, Followed, Heading, Decided
<1> QED BY <1>3, <1>4 DEF UniverseSafe

\* The handler empties the bus from its head: what it is heading for stays.
LEMMA UniverseUpdateKeeps == ASSUME UniverseSafe, UniverseUpdate PROVE UniverseSafe'
<1>0. /\ news # <<>> /\ news' = Tail(news) /\ allow' = Head(news)
      /\ UNCHANGED <<chosen, rest, saved, scan, link, missed, starts, due>>
  BY DEF UniverseUpdate, Allowed
<1>1. Head(news) \in SomeCoins
  <2>1. Head(news) \in Choices \ {{}} BY <1>0 DEF UniverseSafe, UniverseTyped
  <2> QED BY <2>1, UniverseConstants
<1>2. want' \in SomeCoins /\ closing' \in BOOLEAN
  BY <1>1 DEF UniverseUpdate, Subscribe, UniverseSafe, UniverseTyped
<1>3. news' \in Seq(Choices \ {{}}) /\ Len(news') <= MaxNews
  BY <1>0, UniverseConstants DEF UniverseSafe, UniverseTyped
<1>4. UniverseTyped' BY <1>0, <1>1, <1>2, <1>3 DEF UniverseSafe, UniverseTyped
<1>5. Heading' = Heading
  <2>1. CASE Len(news) = 1
    BY <1>0, <2>1 DEF Heading, UniverseSafe, UniverseTyped
  <2>2. CASE Len(news) # 1
    <3>a. news \in Seq(Choices \ {{}}) BY DEF UniverseSafe, UniverseTyped
    <3>b. Len(news) > 1
      <4>1. Len(news) \in Nat /\ Len(news) # 0 BY <1>0, <3>a, EmptySeq
      <4>2. \A n \in Nat : n # 0 /\ n # 1 => n > 1 OBVIOUS
      <4> QED BY <2>2, <4>1, <4>2, Zenon
    <3>c. Len(news') = Len(news) - 1 /\ \A i \in 1..Len(news') : news'[i] = news[i + 1]
      BY <1>0, <3>a, HeadTailProperties
    <3>1. news' # <<>> /\ news'[Len(news')] = news[Len(news)] BY <3>a, <3>b, <3>c
    <3> QED BY <1>0, <3>1 DEF Heading
  <2> QED BY <2>1, <2>2
<1>6. FileKnown' /\ ScanRested' /\ Followed'
  BY <1>0, <1>5 DEF UniverseSafe, FileKnown, ScanRested, Followed, Decided
<1> QED BY <1>4, <1>6 DEF UniverseSafe

LEMMA EngineRestartKeeps == ASSUME UniverseSafe, EngineRestart PROVE UniverseSafe'
<1>0. /\ scan' = NoScan /\ news' = <<>> /\ allow' = Configured /\ want' = Configured
      /\ link' = Down /\ closing' = FALSE /\ missed' = TRUE
      /\ starts < MaxStarts /\ starts' = starts + 1
      /\ \/ UNCHANGED <<saved, due>> /\ chosen' = Restored.chosen /\ rest' = Restored.rest
         \/ saved' = NoState /\ due' = Rested /\ chosen' = Configured /\ rest' = Rested
  BY DEF EngineRestart
<1>1. Rested \in Rests BY UniverseConstants DEF Rested, Rests
<1>2. Restored.chosen \in SomeCoins /\ Restored.rest = due
  <2>1. CASE saved.whole
    BY <2>1 DEF Restored, UniverseSafe, UniverseTyped, FileKnown, SavedRecord, SomeCoins
  <2>2. CASE ~saved.whole BY <2>2, UniverseConstants DEF Restored, UniverseSafe, FileKnown
  <2> QED BY <2>1, <2>2
<1>3. UniverseTyped'
  <2>1. news' \in Seq(Choices \ {{}}) /\ Len(news') <= MaxNews BY <1>0, UniverseConstants
  <2>2. starts' \in 1..MaxStarts BY <1>0, UniverseConstants DEF UniverseSafe, UniverseTyped
  <2>3. chosen' \in SomeCoins /\ rest' \in Rests /\ saved' \in SavedRecord /\ due' \in Rests
    BY <1>0, <1>1, <1>2, UniverseConstants DEF UniverseSafe, UniverseTyped
  <2>4. /\ allow' \in SomeCoins /\ want' \in SomeCoins /\ scan' \in ScanRecord
        /\ link' \in LinkRecord /\ closing' \in BOOLEAN /\ missed' \in BOOLEAN
    BY <1>0, UniverseConstants
  <2> QED BY <2>1, <2>2, <2>3, <2>4 DEF UniverseTyped
<1>4. rest' = due' BY <1>0, <1>2
<1>5. \A c \in Coins : due'[c] \in Nat BY <1>3 DEF UniverseTyped, Rests
<1>6. FileKnown' BY <1>0, <1>4, <1>5 DEF UniverseSafe, FileKnown, NoState
<1>7. ScanRested' /\ Followed' BY <1>0 DEF ScanRested, Followed, NoScan
<1> QED BY <1>3, <1>6, <1>7 DEF UniverseSafe

\* Through scans, lost events, restarts and torn files: a coin whose choice has
\* reached the file does not rank again before its rest is over, and the
\* allowlist is the choice whenever no update is under way or lost.
THEOREM UniverseSound == UniverseSpec => []UniverseInv
<1>1. ASSUME UniverseSafe, [UniverseNext]_universeVars PROVE UniverseSafe'
  <2>1. CASE UNCHANGED universeVars
    BY <1>1, <2>1 DEF UniverseSafe, UniverseTyped, FileKnown, ScanRested, Followed, Heading,
                      Decided, universeVars
  <2> QED BY <1>1, <2>1, ScanningKeeps, UniverseTickKeeps, StreamingKeeps, UniverseUpdateKeeps,
             EngineRestartKeeps DEF UniverseNext
<1>2. ASSUME UniverseSafe PROVE UniverseInv
  <2>1. UniverseTypeOK
    <3>1. \A S \in SomeCoins : S \in SUBSET Coins /\ S # {} BY DEF SomeCoins
    <3>2. ASSUME NEW S \in SomeCoins PROVE S \in (SUBSET Coins) \ {{}}
      <4>1. S \in SUBSET Coins /\ S # {} BY <3>1
      <4>2. S \notin {{}} BY <4>1
      <4> QED BY <4>1, <4>2
    <3>3. chosen \in SomeCoins /\ allow \in SomeCoins /\ want \in SomeCoins
      BY <1>2 DEF UniverseSafe, UniverseTyped
    <3>4. /\ chosen \in (SUBSET Coins) \ {{}} /\ allow \in (SUBSET Coins) \ {{}}
          /\ want \in (SUBSET Coins) \ {{}}
      BY <3>2, <3>3, Zenon
    <3> QED BY <1>2, <3>4 DEF UniverseSafe, UniverseTyped, UniverseTypeOK, ScanRecord,
                              SavedRecord, LinkRecord
  <2>2. RestIsKept BY <1>2 DEF UniverseSafe, RestIsKept, ScanRested
  <2>3. OrdersFollowChoice
    BY <1>2 DEF UniverseSafe, OrdersFollowChoice, Followed, Heading, Decided
  <2> QED BY <2>1, <2>2, <2>3 DEF UniverseInv
<1> QED BY <1>1, <1>2, UniverseStarts, PTL DEF UniverseSpec

-----------------------------------------------------------------------------
(* The equity breaker.                                                      *)

PurseTyped == /\ purse \in [Wallets -> Nat]
              /\ high \in Nat /\ Total(purse) <= high /\ high <= Cash

\* A result the books have not taken, and what the books know of the futures
\* wallet: with the pending result not more than it holds, unless a result was
\* counted twice.
BooksBehind ==
    /\ fill \in [coins : -1..1, seen : BOOLEAN] /\ usdt \in 0..Cash + 1
    /\ twice \in BOOLEAN
    /\ ~twice => usdt <= high
    /\ ~twice /\ ~fill.seen => usdt + fill.coins <= purse["futures"]

\* A pass reads the wallets in the direction money is moved: what it has and what
\* it has still to read were never more than the wallets have held.
PassBehind ==
    /\ pass \in [at : {"idle", "spot", "funding", "write"}, sum : Nat]
    /\ pass.at = "idle" => pass.sum = 0
    /\ pass.at = "spot" => pass.sum + purse["spot"] + purse["funding"] <= high
    /\ pass.at = "funding" => pass.sum + purse["funding"] <= high
    /\ pass.at = "write" => pass.sum <= high

MoveTyped == top \in [at : {"idle", "ask", "direct", "main", "last"}, coins : 0..Chunk]

RailsRecord == [peak : 0..3 * Cash, active : BOOLEAN, left : 0..Cooldown]
EquityReal ==
    /\ equity \in 0..3 * Cash /\ rails \in [Rails -> RailsRecord]
    /\ ~twice => equity <= high /\ \A r \in Rails : rails[r].peak <= high

EquitySafe == PurseTyped /\ BooksBehind /\ PassBehind /\ MoveTyped /\ EquityReal

LEMMA EquityConstants ==
    Cash \in Nat /\ Cash > 0 /\ Chunk \in Nat /\ Chunk > 0 /\ Cooldown \in Nat /\ Cooldown > 0
BY EquityAssumption DEF EquityAssumption

\* Each wallet holds at most what all have held.
LEMMA WalletFacts ==
    ASSUME EquitySafe
    PROVE  /\ purse["futures"] \in Nat /\ purse["spot"] \in Nat /\ purse["funding"] \in Nat
           /\ high \in Nat /\ high <= Cash
           /\ purse["futures"] + purse["spot"] + purse["funding"] <= high
           /\ DOMAIN purse = Wallets
BY DEF EquitySafe, PurseTyped, Wallets, Total

LEMMA EquityStarts == ASSUME EquityInit PROVE EquitySafe
<1>1. /\ purse \in [Wallets -> 0..Cash] /\ Total(purse) <= Cash /\ high = Total(purse)
      /\ fill = NoFill /\ pass = NoPass /\ top = NoMove /\ twice = FALSE
      /\ rails = [r \in Rails |-> [peak |-> 0, active |-> FALSE, left |-> 0]]
      /\ \/ usdt = purse["futures"] /\ equity = usdt
         \/ usdt = 0 /\ equity \in 0..Total(purse)
  <2>1. purse \in {p \in [Wallets -> 0..Cash] : Total(p) <= Cash /\ p["spot"] = 0}
    BY DEF EquityInit
  <2>2. purse \in [Wallets -> 0..Cash] /\ Total(purse) <= Cash BY <2>1, Zenon
  <2> QED BY <2>2 DEF EquityInit
<1>2. purse["futures"] \in 0..Cash /\ purse["spot"] \in 0..Cash /\ purse["funding"] \in 0..Cash
  BY <1>1 DEF Wallets
<1>3. PurseTyped BY <1>1, <1>2, EquityConstants DEF PurseTyped, Total
<1>4. usdt \in 0..Cash + 1 /\ usdt <= purse["futures"] /\ equity \in Nat /\ equity <= high
  BY <1>1, <1>2, EquityConstants DEF Total
<1>5. BooksBehind
  <2>1. fill \in [coins : -1..1, seen : BOOLEAN] /\ fill.coins = 0 BY <1>1 DEF NoFill
  <2>2. usdt <= high BY <1>1, <1>2, <1>3, <1>4 DEF PurseTyped, Total
  <2>3. twice \in BOOLEAN BY <1>1
  <2>4. usdt \in Nat /\ usdt + fill.coins <= purse["futures"] BY <1>2, <1>4, <2>1, EquityConstants
  <2> QED BY <1>4, <2>1, <2>2, <2>3, <2>4 DEF BooksBehind
<1>6. PassBehind /\ MoveTyped BY <1>1, EquityConstants DEF PassBehind, MoveTyped, NoPass, NoMove
<1>7. EquityReal BY <1>1, <1>3, <1>4, EquityConstants DEF EquityReal, RailsRecord, PurseTyped
<1> QED BY <1>3, <1>5, <1>6, <1>7 DEF EquitySafe

LEMMA VenueSettlesKeeps == ASSUME EquitySafe, VenueSettles PROVE EquitySafe'
<1> PICK d \in {-1, 1} :
      /\ purse["futures"] + d >= 0 /\ Total(purse) + d <= Cash
      /\ purse' = [purse EXCEPT !["futures"] = @ + d]
      /\ fill' = [coins |-> d, seen |-> FALSE]
  BY DEF VenueSettles
<1>1. fill = NoFill /\ UNCHANGED <<usdt, equity, pass, top, rails, twice>>
      /\ high' = Larger(high, Total(purse'))
  BY DEF VenueSettles
<1>2. /\ purse' \in [Wallets -> Nat] /\ purse'["futures"] = purse["futures"] + d
      /\ purse'["spot"] = purse["spot"] /\ purse'["funding"] = purse["funding"]
  BY WalletFacts DEF EquitySafe, PurseTyped, Wallets
<1>3. high' \in Nat /\ high' >= high /\ Total(purse') <= high' /\ high' <= Cash
  BY <1>1, <1>2, WalletFacts, EquityConstants DEF Total, Larger
<1>4. PurseTyped' BY <1>2, <1>3 DEF PurseTyped
<1>5. BooksBehind' BY <1>1, <1>2, <1>3, WalletFacts DEF EquitySafe, BooksBehind, NoFill
<1>6. PassBehind' BY <1>1, <1>2, <1>3, WalletFacts DEF EquitySafe, PassBehind
<1>7. MoveTyped' BY <1>1 DEF EquitySafe, MoveTyped
<1>8. EquityReal'
  <2>1. equity \in Nat /\ \A r \in Rails : rails[r].peak \in Nat
    BY EquityConstants DEF EquitySafe, EquityReal, RailsRecord
  <2>2. ~twice => equity <= high' /\ \A r \in Rails : rails[r].peak <= high'
    BY <1>3, <2>1, WalletFacts DEF EquitySafe, EquityReal
  <2> QED BY <1>1, <2>2 DEF EquitySafe, EquityReal
<1> QED BY <1>4, <1>5, <1>6, <1>7, <1>8 DEF EquitySafe

LEMMA WritersKeep == ASSUME EquitySafe, EquityWriters PROVE EquitySafe'
<1>1. UNCHANGED <<purse, pass, top, rails, high>>
  BY DEF EquityWriters, FillBooked, AccountUpdate, Remarked, SnapshotForced
<1>2. PurseTyped' /\ PassBehind' /\ MoveTyped'
  BY <1>1 DEF EquitySafe, PurseTyped, PassBehind, MoveTyped
<1>3. BooksBehind' /\ (equity' \in 0..3 * Cash) /\ (~twice' => ~twice /\ equity' <= high)
  <2>1. CASE FillBooked
    <3>1. /\ usdt + fill.coins \in 0..Cash + 1 /\ usdt' = usdt + fill.coins /\ equity' = usdt'
          /\ twice' = (twice \/ fill.seen) /\ fill' = NoFill
      BY <2>1 DEF FillBooked, Recalculate
    <3>2. twice' \in BOOLEAN /\ (~twice' => ~twice /\ ~fill.seen)
      BY <3>1 DEF EquitySafe, BooksBehind
    <3>3. ~twice' => usdt' <= purse["futures"] /\ usdt' <= high
      BY <3>1, <3>2, WalletFacts DEF EquitySafe, BooksBehind
    <3> QED BY <1>1, <3>1, <3>2, <3>3, WalletFacts, EquityConstants DEF BooksBehind, NoFill
  <2>2. CASE AccountUpdate
    <3>1. /\ usdt' = purse["futures"] /\ equity' = usdt' /\ UNCHANGED twice
          /\ fill' = [fill EXCEPT !.seen = fill # NoFill]
      BY <2>2 DEF AccountUpdate, Recalculate
    <3>2. fill' \in [coins : -1..1, seen : BOOLEAN] /\ (~fill'.seen => fill'.coins = 0)
      <4>1. fill \in [coins : -1..1, seen : BOOLEAN] BY DEF EquitySafe, BooksBehind
      <4>2. CASE fill = NoFill BY <3>1, <4>1, <4>2 DEF NoFill
      <4>3. CASE fill # NoFill BY <3>1, <4>1, <4>3
      <4> QED BY <4>2, <4>3
    <3> QED BY <1>1, <3>1, <3>2, WalletFacts, EquityConstants DEF EquitySafe, BooksBehind
  <2>3. CASE Remarked \/ SnapshotForced
    <3>1. UNCHANGED <<fill, usdt, twice>> BY <2>3 DEF Remarked, SnapshotForced
    <3>2. equity' \in {usdt, purse["futures"]}
      BY <2>3, <3>1 DEF Remarked, SnapshotForced, Recalculate, Fetched, Answers
    <3> QED BY <1>1, <3>1, <3>2, WalletFacts, EquityConstants DEF EquitySafe, BooksBehind
  <2> QED BY <2>1, <2>2, <2>3 DEF EquityWriters
<1>4. EquityReal' BY <1>1, <1>3 DEF EquitySafe, EquityReal
<1> QED BY <1>2, <1>3, <1>4 DEF EquitySafe

LEMMA MonitorKeeps == ASSUME EquitySafe, WalletMonitor PROVE EquitySafe'
<1>1. CASE WalletRead
  <2> PICK n \in Answers(ReadAt(pass.at)) :
        pass' = [at |-> After(pass.at), sum |-> pass.sum + n]
    BY <1>1 DEF WalletRead
  <2>1. pass.at # "write" /\ UNCHANGED <<purse, fill, usdt, equity, top, rails, high, twice>>
    BY <1>1 DEF WalletRead
  <2>2. PassBehind'
    <3>1. CASE pass.at = "idle"
      BY <2>1, <3>1, WalletFacts DEF EquitySafe, PassBehind, Answers, ReadAt, After
    <3>2. CASE pass.at = "spot"
      BY <2>1, <3>2, WalletFacts DEF EquitySafe, PassBehind, Answers, ReadAt, After
    <3>3. CASE pass.at = "funding"
      BY <2>1, <3>3, WalletFacts DEF EquitySafe, PassBehind, Answers, ReadAt, After
    <3> QED BY <2>1, <3>1, <3>2, <3>3 DEF EquitySafe, PassBehind
  <2> QED BY <2>1, <2>2 DEF EquitySafe, PurseTyped, BooksBehind, MoveTyped, EquityReal
<1>2. CASE WalletWritten
  <2>1. /\ pass.at = "write" /\ equity' = pass.sum /\ pass' = NoPass
        /\ UNCHANGED <<purse, fill, usdt, top, rails, high, twice>>
    BY <1>2 DEF WalletWritten
  <2>2. equity' \in Nat /\ equity' <= high BY <2>1 DEF EquitySafe, PassBehind
  <2>3. EquityReal' BY <2>1, <2>2, WalletFacts, EquityConstants DEF EquitySafe, EquityReal
  <2>4. PassBehind' BY <2>1 DEF PassBehind, NoPass
  <2> QED BY <2>1, <2>3, <2>4 DEF EquitySafe, PurseTyped, BooksBehind, MoveTyped
<1> QED BY <1>1, <1>2 DEF WalletMonitor

\* Money moves towards the futures wallet: the wallets a pass has still to read
\* only lose by it, and the books fall further behind.
LEMMA TransferKeeps ==
    ASSUME EquitySafe, NEW good, NEW bad,
           good \in [at : {"idle", "ask", "direct", "main", "last"}, coins : 0..Chunk],
           bad \in [at : {"idle", "ask", "direct", "main", "last"}, coins : 0..Chunk],
           NEW from \in {"funding", "spot"}, NEW to \in {"futures", "spot"}, from # to,
           Transfer(from, to, good, bad)
    PROVE  EquitySafe'
<1>1. /\ UNCHANGED <<fill, usdt, equity, pass, rails, high, twice>> /\ top' \in {good, bad}
      /\ \/ purse[from] >= top.coins /\ purse' = Moved(from, to, top.coins)
         \/ UNCHANGED purse
  BY DEF Transfer
<1>2. top.coins \in Nat BY EquityConstants DEF EquitySafe, MoveTyped
<1>3. /\ purse' \in [Wallets -> Nat]
      /\ purse'["futures"] \in Nat /\ purse'["spot"] \in Nat /\ purse'["funding"] \in Nat
      /\ purse'["futures"] + purse'["spot"] + purse'["funding"] =
             purse["futures"] + purse["spot"] + purse["funding"]
      /\ purse'["funding"] <= purse["funding"] /\ purse["futures"] <= purse'["futures"]
  <2>1. CASE UNCHANGED purse BY <2>1, WalletFacts DEF EquitySafe, PurseTyped
  <2>2. CASE purse[from] >= top.coins /\ purse' = Moved(from, to, top.coins)
    <3>1. purse' = [purse EXCEPT ![from] = purse[from] - top.coins,
                                 ![to] = purse[to] + top.coins]
      BY <2>2 DEF Moved
    <3>2. purse[from] - top.coins \in Nat /\ purse[to] + top.coins \in Nat
      BY <1>2, <2>2, WalletFacts
    <3>3. from \in Wallets /\ to \in Wallets BY DEF Wallets
    <3>4. purse' \in [Wallets -> Nat] BY <3>1, <3>2, <3>3 DEF EquitySafe, PurseTyped
    <3>5. /\ purse'[from] = purse[from] - top.coins /\ purse'[to] = purse[to] + top.coins
          /\ \A w \in Wallets : w # from /\ w # to => purse'[w] = purse[w]
      BY <3>1, <3>3, WalletFacts
    <3>6. CASE from = "funding" /\ to = "futures"
      BY <1>2, <3>4, <3>5, <3>6, <3>2, WalletFacts DEF Wallets
    <3>7. CASE from = "funding" /\ to = "spot"
      BY <1>2, <3>4, <3>5, <3>7, <3>2, WalletFacts DEF Wallets
    <3>8. CASE from = "spot" /\ to = "futures"
      BY <1>2, <3>4, <3>5, <3>8, <3>2, WalletFacts DEF Wallets
    <3> QED BY <3>6, <3>7, <3>8
  <2> QED BY <1>1, <2>1, <2>2
<1>4. PurseTyped' BY <1>1, <1>3, WalletFacts DEF EquitySafe, PurseTyped, Total
<1>5. BooksBehind' BY <1>1, <1>3, WalletFacts DEF EquitySafe, BooksBehind
<1>6. PassBehind' BY <1>1, <1>3, WalletFacts DEF EquitySafe, PassBehind
<1>7. MoveTyped' /\ EquityReal' BY <1>1 DEF EquitySafe, MoveTyped, EquityReal
<1> QED BY <1>4, <1>5, <1>6, <1>7 DEF EquitySafe

LEMMA TopUpKeeps == ASSUME EquitySafe, TopUp PROVE EquitySafe'
<1> DEFINE Move == [at : {"idle", "ask", "direct", "main", "last"}, coins : 0..Chunk]
<1>1. NoMove \in Move BY EquityConstants DEF NoMove
<1>2. [top EXCEPT !.at = "main"] \in Move /\ [top EXCEPT !.at = "last"] \in Move
  BY DEF EquitySafe, MoveTyped
<1>3. CASE TopUpStarts \/ TopUpAsks
  <2>1. UNCHANGED <<purse, fill, usdt, equity, pass, rails, high, twice>>
    BY <1>3 DEF TopUpStarts, TopUpAsks
  <2>2. top' \in Move
    <3>1. CASE TopUpStarts BY <3>1, EquityConstants DEF TopUpStarts, NoMove
    <3>2. CASE TopUpAsks
      <4> PICK n \in Answers("funding") :
            top' = IF n > 0 THEN [at |-> "direct", coins |-> IF Chunk < n THEN Chunk ELSE n] ELSE NoMove
        BY <3>2 DEF TopUpAsks
      <4>1. n \in Nat BY WalletFacts DEF Answers
      <4> QED BY <1>1, <4>1, EquityConstants
    <3> QED BY <1>3, <3>1, <3>2
  <2> QED BY <2>1, <2>2 DEF EquitySafe, PurseTyped, BooksBehind, PassBehind, MoveTyped, EquityReal
<1>4. CASE TopUpDirect BY <1>1, <1>2, <1>4, TransferKeeps DEF TopUpDirect
<1>5. CASE TopUpByMain BY <1>1, <1>2, <1>5, TransferKeeps DEF TopUpByMain
<1>6. CASE TopUpLast BY <1>1, <1>2, <1>6, TransferKeeps DEF TopUpLast
<1> QED BY <1>3, <1>4, <1>5, <1>6 DEF TopUp

\* Orders and time: a peak is raised to the equity at most.
LEMMA OrderingKeeps ==
    ASSUME EquitySafe, EquityTick \/ \E r \in Rails : Ordering(r) PROVE EquitySafe'
<1>1. UNCHANGED <<purse, fill, usdt, equity, pass, top, high, twice>>
  BY DEF EquityTick, Ordering, OrderRefused, OrderStopped, OrderJudged
<1>2. rails' \in [Rails -> RailsRecord] /\ (~twice => \A r \in Rails : rails'[r].peak <= high)
  <2>1. CASE EquityTick
    <3>1. rails' = [r \in Rails |->
              [rails[r] EXCEPT !.left = IF rails[r].left > 0 THEN rails[r].left - 1 ELSE 0]]
      BY <2>1 DEF EquityTick
    <3>2. ASSUME NEW r \in Rails
          PROVE  rails'[r] \in RailsRecord /\ rails'[r].peak = rails[r].peak
      <4>1. rails[r] \in RailsRecord BY DEF EquitySafe, EquityReal
      <4>2. (IF rails[r].left > 0 THEN rails[r].left - 1 ELSE 0) \in 0..Cooldown
        BY <4>1, EquityConstants DEF RailsRecord
      <4> QED BY <3>1, <4>1, <4>2 DEF RailsRecord
    <3>3. rails' \in [Rails -> RailsRecord] BY <3>1, <3>2
    <3> QED BY <3>2, <3>3 DEF EquitySafe, EquityReal
  <2>2. ASSUME NEW r \in Rails, Ordering(r)
        PROVE  rails' \in [Rails -> RailsRecord] /\ (~twice => \A x \in Rails : rails'[x].peak <= high)
    <3> DEFINE peak == Larger(rails[r].peak, equity)
    <3>0. rails[r] \in RailsRecord BY DEF EquitySafe, EquityReal
    <3>1. peak \in 0..3 * Cash /\ (~twice => peak <= high)
      BY <3>0 DEF EquitySafe, EquityReal, RailsRecord, Larger
    <3>2. \E q \in RailsRecord : /\ rails' = [rails EXCEPT ![r] = q]
                                 /\ q.peak \in {peak, rails[r].peak}
      <4>1. CASE OrderRefused(r) \/ OrderStopped(r)
        BY <3>0, <4>1 DEF OrderRefused, OrderStopped, Cooling, RailsRecord
      <4>2. CASE OrderJudged(r)
        <5> HIDE DEF peak
        <5>1. [peak |-> peak, active |-> TRUE, left |-> Cooldown] \in RailsRecord
          BY <3>1, EquityConstants DEF RailsRecord
        <5>2. [peak |-> peak, active |-> FALSE, left |-> rails[r].left] \in RailsRecord
          BY <3>0, <3>1 DEF RailsRecord
        <5>3. rails' = [rails EXCEPT ![r] =
                  IF Breached(peak, equity) THEN [peak |-> peak, active |-> TRUE, left |-> Cooldown]
                  ELSE [peak |-> peak, active |-> FALSE, left |-> rails[r].left]]
          BY <4>2 DEF OrderJudged, peak
        <5> QED BY <5>1, <5>2, <5>3
      <4> QED BY <2>2, <4>1, <4>2 DEF Ordering
    <3>3. PICK q \in RailsRecord : /\ rails' = [rails EXCEPT ![r] = q]
                                   /\ q.peak \in {peak, rails[r].peak}
      BY <3>2
    <3> HIDE DEF peak
    <3>4. rails' \in [Rails -> RailsRecord] BY <3>3 DEF EquitySafe, EquityReal
    <3>5. \A x \in Rails : rails'[x] = IF x = r THEN q ELSE rails[x]
      BY <3>3 DEF EquitySafe, EquityReal
    <3> QED BY <3>1, <3>3, <3>4, <3>5 DEF EquitySafe, EquityReal
  <2> QED BY <2>1, <2>2
<1>3. EquityReal' BY <1>1, <1>2 DEF EquitySafe, EquityReal
<1> QED BY <1>1, <1>3 DEF EquitySafe, PurseTyped, BooksBehind, PassBehind, MoveTyped

\* However the pass over the wallets, the top-up, the user stream and the fills
\* overlap: no order is judged by a peak the wallets have never held, unless a
\* realized result was booked twice.
THEOREM EquitySound == EquitySpec => []EquityInv
<1>1. ASSUME EquitySafe, [EquityNext]_equityVars PROVE EquitySafe'
  <2>1. CASE UNCHANGED equityVars
    BY <1>1, <2>1 DEF EquitySafe, PurseTyped, BooksBehind, PassBehind, MoveTyped, EquityReal,
                      equityVars
  <2> QED BY <1>1, <2>1, VenueSettlesKeeps, WritersKeep, MonitorKeeps, TopUpKeeps, OrderingKeeps
          DEF EquityNext
<1>2. ASSUME EquitySafe PROVE EquityInv
  <2>1. purse \in [Wallets -> 0..Cash]
    BY <1>2, WalletFacts, EquityConstants DEF EquitySafe, PurseTyped, Wallets
  <2>2. pass.sum \in 0..3 * Cash
    BY <1>2, WalletFacts, EquityConstants DEF EquitySafe, PassBehind
  <2>3. EquityTypeOK
    BY <1>2, <2>1, <2>2, WalletFacts, EquityConstants
       DEF EquitySafe, BooksBehind, PassBehind, MoveTyped, EquityReal, RailsRecord, EquityTypeOK
  <2>4. PeakIsReal BY <1>2 DEF EquitySafe, EquityReal, BooksBehind, PeakIsReal
  <2> QED BY <2>3, <2>4 DEF EquityInv
<1> QED BY <1>1, <1>2, EquityStarts, PTL DEF EquitySpec

-----------------------------------------------------------------------------
(* The auto-probe.                                                          *)

ProbeRecord == [at : {"idle", "info", "gate", "post", "pause"}, key : 0..MaxKeys]

\* Probes run in a round only and have a key; those inside fit in the semaphore.
Probing ==
    /\ probe \in [Probed -> ProbeRecord] /\ round \in BOOLEAN
    /\ errs \in 0..ErrLimit /\ cool \in 0..ErrRest
    /\ \A s \in Probed : probe[s].at # "idle" => probe[s].key > 0 /\ round
    /\ Cardinality(Inside) <= Parallel

\* The client waits for one request of a coin at a time.
Waiting ==
    /\ calls \in SUBSET Calls /\ IsFiniteSet(calls)
    /\ \A c \in calls : c.awaited => probe[c.key[1]].at = "post"
    /\ \A c, d \in calls : c.awaited /\ d.awaited /\ c.key[1] = d.key[1] => c = d

\* The pending table lets one request of a coin pass to the venue, and what went
\* there had no answer in the cache.
Passing ==
    /\ held \in SUBSET Probed /\ cached \in SUBSET Keys
    /\ \A c \in calls : c.at # "sent" => c.key[1] \in held
    /\ \A c, d \in calls : c.at # "sent" /\ d.at # "sent" /\ c.key[1] = d.key[1] => c = d
    /\ \A c \in calls : c.at = "venue" => c.key \notin cached

\* An order beyond the unsure ones is in the cache or on its way there.
Buying ==
    /\ unsure \in 0..MaxUnsure /\ bought \in [Keys -> 0..MaxUnsure + 1]
    /\ \A k \in Keys :
         /\ bought[k] <= 1 + unsure
         /\ \/ bought[k] <= unsure
            \/ k \in cached
            \/ \E c \in calls : c.key = k /\ c.at = "taken"

ProbeSafe == Probing /\ Waiting /\ Passing /\ Buying

LEMMA ProbeConstants ==
    /\ IsFiniteSet(Probed) /\ Parallel \in Nat /\ Parallel > 0 /\ ErrLimit \in Nat /\ ErrLimit > 0
    /\ ErrRest \in Nat /\ MaxKeys \in Nat /\ MaxUnsure \in Nat
BY ProbeAssumption DEF ProbeAssumption

LEMMA CallFacts ==
    ASSUME ProbeSafe, NEW c \in calls
    PROVE  /\ c \in Calls /\ c.key \in Keys /\ c.key[1] \in Probed
           /\ c = [key |-> c.key, awaited |-> c.awaited, at |-> c.at]
           /\ c.awaited \in BOOLEAN /\ c.at \in {"sent", "venue", "taken"}
           /\ probe[c.key[1]] \in ProbeRecord
BY DEF ProbeSafe, Probing, Waiting, Calls, Keys

\* The probes inside are as many as before, or fewer, when nobody has entered.
LEMMA NobodyEnters ==
    ASSUME ProbeSafe, Inside' \subseteq Inside PROVE Cardinality(Inside') <= Parallel
<1>1. IsFiniteSet(Inside)
  <2>1. Inside \in SUBSET Probed BY DEF Inside
  <2> QED BY <2>1, ProbeConstants, FS_Subset
<1>2. Cardinality(Inside') <= Cardinality(Inside) BY <1>1, FS_Subset
<1>3. Cardinality(Inside') \in Nat /\ Cardinality(Inside) \in Nat
  BY <1>1, FS_Subset, FS_CardinalityType
<1> QED BY <1>2, <1>3, ProbeConstants DEF ProbeSafe, Probing

LEMMA ProbeStarts == ASSUME ProbeInit PROVE ProbeSafe
<1>1. Inside = {} BY DEF ProbeInit, Inside
<1>2. Cardinality(Inside) = 0 BY <1>1, FS_EmptySet
<1>3. Probing
  <2>1. [at |-> "idle", key |-> 0] \in ProbeRecord BY ProbeConstants DEF ProbeRecord
  <2>2. \A s \in Probed : probe[s].at = "idle" BY DEF ProbeInit
  <2>3. Cardinality(Inside) <= Parallel BY <1>2, ProbeConstants
  <2>4. errs \in 0..ErrLimit /\ cool \in 0..ErrRest BY ProbeConstants DEF ProbeInit
  <2> QED BY <2>1, <2>2, <2>3, <2>4 DEF ProbeInit, Probing
<1>4. Waiting BY FS_EmptySet DEF ProbeInit, Waiting
<1>5. Passing BY DEF ProbeInit, Passing
<1>6. Buying BY ProbeConstants DEF ProbeInit, Buying
<1> QED BY <1>3, <1>4, <1>5, <1>6 DEF ProbeSafe

\* A step of one probe.
LEMMA OneProbe ==
    ASSUME ProbeSafe, NEW s \in Probed, NEW p \in {"idle", "gate", "post", "pause"},
           probe' = [probe EXCEPT ![s].at = p], UNCHANGED round, probe[s].at # "idle",
           p \in {"post", "pause"} => probe[s].at \in {"post", "pause"} \/ HasRoom,
           errs' \in 0..ErrLimit, cool' \in 0..ErrRest
    PROVE  Probing' /\ \A x \in Probed : probe'[x].at = IF x = s THEN p ELSE probe[x].at
<1>1. /\ probe' \in [Probed -> ProbeRecord]
      /\ \A x \in Probed : /\ probe'[x].at = IF x = s THEN p ELSE probe[x].at
                           /\ probe'[x].key = probe[x].key
  BY DEF ProbeSafe, Probing, ProbeRecord
<1>2. Cardinality(Inside') <= Parallel
  <2>1. CASE Inside' \subseteq Inside BY <2>1, NobodyEnters
  <2>2. CASE ~(Inside' \subseteq Inside)
    <3>1. Inside' = Inside \cup {s} /\ s \notin Inside BY <1>1, <2>2 DEF Inside
    <3>2. HasRoom BY <1>1, <2>2 DEF Inside
    <3>3. IsFiniteSet(Inside)
      <4>1. Inside \in SUBSET Probed BY DEF Inside
      <4> QED BY <4>1, ProbeConstants, FS_Subset
    <3>4. Cardinality(Inside') = Cardinality(Inside) + 1 BY <3>1, <3>3, FS_AddElement
    <3>5. Cardinality(Inside) \in Nat BY <3>3, FS_CardinalityType
    <3> QED BY <3>2, <3>4, <3>5, ProbeConstants DEF HasRoom
  <2> QED BY <2>1, <2>2
<1> QED BY <1>1, <1>2 DEF ProbeSafe, Probing

\* A new request changes nothing at the venue.
LEMMA PostKeeps ==
    ASSUME ProbeSafe, NEW s \in Probed, probe[s].at \in {"gate", "pause"}, Post(s),
           probe[s].at = "gate" => HasRoom
    PROVE  ProbeSafe'
<1> DEFINE c == [key |-> Key(s), awaited |-> TRUE, at |-> "sent"]
<1>1. /\ calls' = calls \cup {c} /\ probe' = [probe EXCEPT ![s].at = "post"]
      /\ UNCHANGED <<round, errs, cool, held, cached, bought, unsure>>
  BY DEF Post
<1>2. probe[s] \in ProbeRecord /\ probe[s].key > 0 BY DEF ProbeSafe, Probing
<1>3. c \in Calls BY <1>2, ProbeConstants DEF Calls, Keys, Key, ProbeRecord
<1>4. c.key[1] = s /\ c.at = "sent" BY DEF Key
<1> HIDE DEF c
<1>5. Probing' /\ \A x \in Probed : probe'[x].at = IF x = s THEN "post" ELSE probe[x].at
  BY <1>1, OneProbe DEF ProbeSafe, Probing
<1>6. \A d \in calls : d.key[1] = s => ~d.awaited BY DEF ProbeSafe, Waiting
<1>7. Waiting'
  <2>1. IsFiniteSet(calls') BY <1>1, FS_AddElement DEF ProbeSafe, Waiting
  <2>2. calls' \in SUBSET Calls BY <1>1, <1>3 DEF ProbeSafe, Waiting
  <2>3. \A d \in calls' : d.awaited => probe'[d.key[1]].at = "post"
    BY <1>1, <1>4, <1>5, CallFacts DEF ProbeSafe, Waiting
  <2>4. \A d, e \in calls' : d.awaited /\ e.awaited /\ d.key[1] = e.key[1] => d = e
    BY <1>1, <1>4, <1>6 DEF ProbeSafe, Waiting
  <2> QED BY <2>1, <2>2, <2>3, <2>4 DEF Waiting
<1>8. Passing' BY <1>1, <1>4 DEF ProbeSafe, Passing
<1>9. Buying' BY <1>1 DEF ProbeSafe, Buying
<1> QED BY <1>5, <1>7, <1>8, <1>9 DEF ProbeSafe

LEMMA ExecutorKeeps == ASSUME ProbeSafe, Executor PROVE ProbeSafe'
<1>1. CASE RoundStarts
  <2> PICK S \in Picks :
        probe' = [s \in Probed |-> IF s \in S THEN [at |-> "info", key |-> probe[s].key + 1]
                                   ELSE probe[s]]
    BY <1>1 DEF RoundStarts
  <2>1. ~round /\ round' = TRUE /\ UNCHANGED <<errs, cool, calls, held, cached, bought, unsure>>
    BY <1>1 DEF RoundStarts
  <2>2. \A s \in S \cap Probed : probe[s].key < MaxKeys BY DEF Picks
  <2>3. \A s \in Probed : probe[s] \in ProbeRecord /\ probe[s].at = "idle"
    BY <2>1 DEF ProbeSafe, Probing
  <2>4. ASSUME NEW s \in Probed
        PROVE  /\ probe'[s] \in ProbeRecord /\ probe'[s].at \in {"idle", "info"}
               /\ probe'[s].at # "idle" => probe'[s].key > 0
    <3>1. CASE s \in S BY <2>2, <2>3, <3>1, ProbeConstants DEF ProbeRecord
    <3>2. CASE s \notin S BY <2>3, <3>2
    <3> QED BY <3>1, <3>2
  <2>5. Inside' \subseteq Inside BY <2>4 DEF Inside
  <2>6. probe' \in [Probed -> ProbeRecord] BY <2>4
  <2>7. Probing' BY <2>1, <2>4, <2>5, <2>6, NobodyEnters DEF ProbeSafe, Probing
  <2>8. \A c \in calls : ~c.awaited BY <2>3, CallFacts DEF ProbeSafe, Waiting
  <2>9. Waiting' BY <2>1, <2>8 DEF ProbeSafe, Waiting
  <2> QED BY <2>1, <2>7, <2>9 DEF ProbeSafe, Passing, Buying
<1>2. CASE RoundOver
  <2>1. /\ round' = FALSE /\ Busy = {} /\ errs' \in 0..errs /\ cool' = IF cool > 0 THEN cool - 1 ELSE 0
        /\ UNCHANGED <<probe, calls, held, cached, bought, unsure>>
    BY <1>2 DEF RoundOver
  <2>2. errs' \in 0..ErrLimit /\ cool' \in 0..ErrRest
    BY <2>1, ProbeConstants DEF ProbeSafe, Probing
  <2>3. \A s \in Probed : probe[s].at = "idle" BY <2>1 DEF Busy
  <2>4. Probing' BY <2>1, <2>2, <2>3 DEF ProbeSafe, Probing, Inside
  <2> QED BY <2>1, <2>4 DEF ProbeSafe, Waiting, Passing, Buying
<1>3. ASSUME NEW s \in Probed, InfoKnown(s) PROVE ProbeSafe'
  <2>1. /\ probe[s].at = "info" /\ UNCHANGED <<round, errs, cool, calls, held, cached, bought, unsure>>
    BY <1>3 DEF InfoKnown
  <2>2. PICK p \in {"idle", "gate"} : probe' = [probe EXCEPT ![s].at = p] BY <1>3 DEF InfoKnown
  <2>3. Probing' /\ \A x \in Probed : probe'[x].at = IF x = s THEN p ELSE probe[x].at
    BY <2>1, <2>2, OneProbe DEF ProbeSafe, Probing
  <2>4. Waiting' BY <2>1, <2>3, CallFacts DEF ProbeSafe, Waiting
  <2> QED BY <2>1, <2>3, <2>4 DEF ProbeSafe, Passing, Buying
<1>4. ASSUME NEW s \in Probed, GatePassed(s) \/ Retry(s) PROVE ProbeSafe'
  BY <1>4, PostKeeps DEF GatePassed, Retry
<1> QED BY <1>1, <1>2, <1>3, <1>4 DEF Executor

LEMMA GivenUpKeeps == ASSUME ProbeSafe, NEW c \in calls, GivenUp(c) PROVE ProbeSafe'
<1> DEFINE d == [c EXCEPT !.awaited = FALSE]
<1>1. /\ c.awaited /\ calls' = (calls \ {c}) \cup {d}
      /\ probe' = [probe EXCEPT ![c.key[1]].at = "pause"]
      /\ UNCHANGED <<round, errs, cool, held, cached, bought, unsure>>
  BY DEF GivenUp
<1>2. d \in Calls /\ d.key = c.key /\ d.at = c.at /\ ~d.awaited BY CallFacts DEF Calls
<1> HIDE DEF d
<1>3. c.key[1] \in Probed /\ probe[c.key[1]].at = "post"
  BY <1>1, CallFacts DEF ProbeSafe, Waiting
<1>4. Probing' /\ \A x \in Probed : probe'[x].at = IF x = c.key[1] THEN "pause" ELSE probe[x].at
  BY <1>1, <1>3, OneProbe DEF ProbeSafe, Probing
<1>5. \A e \in calls' : e = d \/ (e \in calls /\ e # c) BY <1>1
<1>6. Waiting'
  <2>1. IsFiniteSet(calls') BY <1>1, FS_AddElement, FS_RemoveElement DEF ProbeSafe, Waiting
  <2>2. calls' \in SUBSET Calls BY <1>1, <1>2 DEF ProbeSafe, Waiting
  <2>3. \A e \in calls' : e.awaited => e \in calls /\ e.key[1] # c.key[1]
    BY <1>1, <1>2, <1>5 DEF ProbeSafe, Waiting
  <2>4. \A e \in calls' : e.awaited => probe'[e.key[1]].at = "post"
    BY <1>4, <2>3, CallFacts DEF ProbeSafe, Waiting
  <2>5. \A e, f \in calls' : e.awaited /\ f.awaited /\ e.key[1] = f.key[1] => e = f
    BY <2>3 DEF ProbeSafe, Waiting
  <2> QED BY <2>1, <2>2, <2>4, <2>5 DEF Waiting
<1>7. Passing' BY <1>1, <1>2, <1>5 DEF ProbeSafe, Passing
<1>8. Buying'
  <2>1. \A k \in Keys : (\E e \in calls : e.key = k /\ e.at = "taken")
                            => \E e \in calls' : e.key = k /\ e.at = "taken"
    BY <1>1, <1>2
  <2> QED BY <1>1, <2>1 DEF ProbeSafe, Buying
<1> QED BY <1>4, <1>6, <1>7, <1>8 DEF ProbeSafe

\* An answer ends the call, and the probe if it is awaited.
LEMMA AnsweredKeeps ==
    ASSUME ProbeSafe, NEW c \in calls, NEW a \in {"ok", "refused", "later"}, Answered(c, a),
           UNCHANGED round
    PROVE  Probing' /\ Waiting'
<1>1. calls' = calls \ {c} BY DEF Answered
<1>2. IsFiniteSet(calls') /\ calls' \in SUBSET Calls
  BY <1>1, FS_RemoveElement DEF ProbeSafe, Waiting
<1>3. CASE ~c.awaited
  <2>1. UNCHANGED <<probe, errs, cool>> BY <1>3 DEF Answered
  <2> QED BY <1>1, <1>2, <2>1 DEF ProbeSafe, Probing, Waiting, Inside
<1>4. CASE c.awaited
  <2> DEFINE p == IF a \in Ending THEN "idle" ELSE "pause"
  <2>1. c.key[1] \in Probed /\ probe[c.key[1]].at = "post"
    BY <1>4, CallFacts DEF ProbeSafe, Waiting
  <2>2. probe' = [probe EXCEPT ![c.key[1]].at = p] BY <1>4 DEF Answered
  <2>3. errs' \in 0..ErrLimit /\ cool' \in 0..ErrRest
    BY <1>4, ProbeConstants DEF Answered, ProbeSafe, Probing
  <2>4. p \in {"idle", "pause"} OBVIOUS
  <2> HIDE DEF p
  <2>5. Probing' /\ \A x \in Probed : probe'[x].at = IF x = c.key[1] THEN p ELSE probe[x].at
    <3>1. p \in {"idle", "gate", "post", "pause"} BY <2>4
    <3>2. probe[c.key[1]].at \in {"post", "pause"} /\ probe[c.key[1]].at # "idle" BY <2>1
    <3> QED BY <2>1, <2>2, <2>3, <3>1, <3>2, OneProbe
  <2>6. \A d \in calls' : d.awaited => d \in calls /\ d.key[1] # c.key[1]
    BY <1>1, <1>4 DEF ProbeSafe, Waiting
  <2>7. \A d \in calls' : d.awaited => probe'[d.key[1]].at = "post"
    BY <2>5, <2>6, CallFacts DEF ProbeSafe, Waiting
  <2>8. \A d, e \in calls' : d.awaited /\ e.awaited /\ d.key[1] = e.key[1] => d = e
    BY <2>6 DEF ProbeSafe, Waiting
  <2> QED BY <1>2, <2>5, <2>7, <2>8 DEF Waiting
<1> QED BY <1>3, <1>4

\* A call that moves on in the engine, its probe left alone.
LEMMA CallMoves ==
    ASSUME ProbeSafe, NEW c \in calls, NEW p \in {"venue", "taken"},
           calls' = (calls \ {c}) \cup {[c EXCEPT !.at = p]},
           UNCHANGED <<probe, round, errs, cool>>
    PROVE  /\ Probing' /\ Waiting'
           /\ \E d \in calls' : /\ d.at = p /\ d.key = c.key
                                /\ \A e \in calls' : e = d \/ (e \in calls /\ e # c)
                                /\ \A e \in calls : e = c \/ e \in calls'
<1> DEFINE d == [c EXCEPT !.at = p]
<1>1. d \in Calls /\ d.key = c.key /\ d.at = p /\ d.awaited = c.awaited BY CallFacts DEF Calls
<1>2. calls' = (calls \ {c}) \cup {d} OBVIOUS
<1> HIDE DEF d
<1>3. \A e \in calls' : e = d \/ (e \in calls /\ e # c) BY <1>2
<1>4. Probing' BY DEF ProbeSafe, Probing, Inside
<1>5. IsFiniteSet(calls')
  <2>1. IsFiniteSet(calls \ {c}) BY FS_RemoveElement DEF ProbeSafe, Waiting
  <2> QED BY <1>2, <2>1, FS_AddElement
<1>6. calls' \in SUBSET Calls BY <1>1, <1>2 DEF ProbeSafe, Waiting
<1>7. \A e \in calls' : e.awaited => probe'[e.key[1]].at = "post"
  BY <1>1, <1>3 DEF ProbeSafe, Waiting
<1>8. \A e, f \in calls' : e.awaited /\ f.awaited /\ e.key[1] = f.key[1] => e = f
  BY <1>1, <1>3 DEF ProbeSafe, Waiting
<1>9. Waiting' BY <1>5, <1>6, <1>7, <1>8 DEF Waiting
<1> QED BY <1>1, <1>2, <1>3, <1>4, <1>9

LEMMA EngineReceivesKeeps == ASSUME ProbeSafe, NEW c \in calls, EngineReceives(c) PROVE ProbeSafe'
<1>1. c.at = "sent" /\ UNCHANGED <<round, cached, bought, unsure>> BY DEF EngineReceives
<1>2. ASSUME NEW a \in {"ok", "refused"}, Answered(c, a), UNCHANGED held PROVE ProbeSafe'
  <2>1. calls' = calls \ {c} BY <1>2 DEF Answered
  <2>2. Passing' BY <1>1, <1>2, <2>1 DEF ProbeSafe, Passing
  <2>3. \A k \in Keys : (\E e \in calls : e.key = k /\ e.at = "taken")
                            => \E e \in calls' : e.key = k /\ e.at = "taken"
    BY <1>1, <2>1
  <2>4. Buying' BY <1>1, <2>3 DEF ProbeSafe, Buying
  <2> QED BY <1>1, <1>2, <2>2, <2>4, AnsweredKeeps DEF ProbeSafe
<1>3. CASE /\ c.key \notin cached /\ c.key[1] \notin held /\ held' = held \cup {c.key[1]}
           /\ calls' = (calls \ {c}) \cup {[c EXCEPT !.at = "venue"]}
           /\ UNCHANGED <<probe, errs, cool>>
  <2>1. Probing' /\ Waiting' BY <1>1, <1>3, CallMoves
  <2>2. PICK d \in calls' : /\ d.at = "venue" /\ d.key = c.key
                            /\ \A e \in calls' : e = d \/ (e \in calls /\ e # c)
                            /\ \A e \in calls : e = c \/ e \in calls'
    BY <1>1, <1>3, CallMoves
  <2>3. c.key[1] \in Probed BY CallFacts
  <2>4. Passing' BY <1>1, <1>3, <2>2, <2>3 DEF ProbeSafe, Passing
  <2>5. Buying' BY <1>1, <2>2 DEF ProbeSafe, Buying
  <2> QED BY <2>1, <2>4, <2>5 DEF ProbeSafe
<1> QED BY <1>2, <1>3 DEF EngineReceives, Guarded

LEMMA VenueAcceptsKeeps == ASSUME ProbeSafe, NEW c \in calls, VenueAccepts(c) PROVE ProbeSafe'
<1>1. /\ c.at = "venue" /\ bought[c.key] <= MaxUnsure
      /\ calls' = (calls \ {c}) \cup {[c EXCEPT !.at = "taken"]}
      /\ bought' = [bought EXCEPT ![c.key] = bought[c.key] + 1]
      /\ UNCHANGED <<probe, round, errs, cool, held, cached, unsure>>
  BY DEF VenueAccepts
<1>2. Probing' /\ Waiting' BY <1>1, CallMoves
<1>3. PICK d \in calls' : /\ d.at = "taken" /\ d.key = c.key
                          /\ \A e \in calls' : e = d \/ (e \in calls /\ e # c)
                          /\ \A e \in calls : e = c \/ e \in calls'
  BY <1>1, CallMoves
<1>4. c.key \in Keys /\ c.key \notin cached BY <1>1, CallFacts DEF ProbeSafe, Passing
<1>5. bought[c.key] <= unsure
  <2>1. \A e \in calls : e.key = c.key => e.at # "taken" BY <1>1 DEF ProbeSafe, Passing
  <2> QED BY <1>4, <2>1 DEF ProbeSafe, Buying
<1>6. Passing' BY <1>1, <1>3 DEF ProbeSafe, Passing
<1>7. Buying'
  <2>1. bought' \in [Keys -> 0..MaxUnsure + 1]
    BY <1>1, <1>4, ProbeConstants DEF ProbeSafe, Buying
  <2>2. \A k \in Keys : bought'[k] = IF k = c.key THEN bought[k] + 1 ELSE bought[k]
    BY <1>1, <1>4 DEF ProbeSafe, Buying
  <2>3. \A k \in Keys : k # c.key =>
            ((\E e \in calls : e.key = k /\ e.at = "taken")
                => \E e \in calls' : e.key = k /\ e.at = "taken")
    BY <1>3
  <2>4. bought[c.key] \in Nat /\ unsure \in Nat
    BY <1>4, ProbeConstants DEF ProbeSafe, Buying
  <2>5. bought'[c.key] <= 1 + unsure' BY <1>1, <1>4, <1>5, <2>2, <2>4
  <2> QED BY <1>1, <1>3, <2>1, <2>2, <2>3, <2>5 DEF ProbeSafe, Buying
<1> QED BY <1>2, <1>6, <1>7 DEF ProbeSafe

LEMMA EngineAnswersKeeps == ASSUME ProbeSafe, NEW c \in calls, EngineAnswers(c) PROVE ProbeSafe'
<1>1. /\ c.at = "taken" /\ cached' = cached \cup {c.key} /\ Answered(c, "ok")
      /\ UNCHANGED <<round, held, bought, unsure>>
  BY DEF EngineAnswers
<1>2. calls' = calls \ {c} BY <1>1 DEF Answered
<1>3. c.key \in Keys BY CallFacts
<1>4. \A d \in calls' : d.at # "sent" => d.key # c.key BY <1>1, <1>2 DEF ProbeSafe, Passing
<1>5. Passing' BY <1>1, <1>2, <1>3, <1>4 DEF ProbeSafe, Passing
<1>6. \A k \in Keys : (\E e \in calls : e.key = k /\ e.at = "taken")
                          => k \in cached' \/ \E e \in calls' : e.key = k /\ e.at = "taken"
  BY <1>1, <1>2
<1>7. Buying' BY <1>1, <1>6 DEF ProbeSafe, Buying
<1> QED BY <1>1, <1>5, <1>7, AnsweredKeeps DEF ProbeSafe

LEMMA EngineFailsKeeps == ASSUME ProbeSafe, NEW c \in calls, EngineFails(c) PROVE ProbeSafe'
<1> PICK a \in {"refused", "later"} : Answered(c, a) BY DEF EngineFails
<1>1. /\ c.at \in {"venue", "taken"} /\ UNCHANGED <<round, held, cached, bought>>
      /\ unsure' = unsure + (IF c.at = "taken" THEN 1 ELSE 0) /\ unsure' <= MaxUnsure
  BY DEF EngineFails
<1>2. calls' = calls \ {c} BY DEF Answered
<1>3. Passing' BY <1>1, <1>2 DEF ProbeSafe, Passing
<1>4. unsure \in Nat /\ unsure' \in 0..MaxUnsure BY <1>1, ProbeConstants DEF ProbeSafe, Buying
<1>5. ASSUME NEW k \in Keys
      PROVE  /\ bought[k] <= 1 + unsure'
             /\ \/ bought[k] <= unsure' \/ k \in cached
                \/ \E e \in calls' : e.key = k /\ e.at = "taken"
  <2>1. bought[k] \in Nat /\ bought[k] <= 1 + unsure
    BY ProbeConstants DEF ProbeSafe, Buying
  <2>2. bought[k] <= unsure \/ k \in cached \/ \E e \in calls : e.key = k /\ e.at = "taken"
    BY DEF ProbeSafe, Buying
  <2>3. CASE c.at = "taken" BY <1>1, <1>4, <2>1, <2>3
  <2>4. CASE c.at = "venue" BY <1>1, <1>2, <1>4, <2>1, <2>2, <2>4
  <2> QED BY <1>1, <2>3, <2>4
<1>6. Buying' BY <1>1, <1>4, <1>5 DEF ProbeSafe, Buying
<1> QED BY <1>1, <1>3, <1>6, AnsweredKeeps DEF ProbeSafe

\* What was taken and not answered when the engine dies is unsure from then on.
LEMMA EngineDiesKeeps == ASSUME ProbeSafe, EngineDies PROVE ProbeSafe'
<1> DEFINE T == {c \in calls : c.at = "taken"}
<1>1. /\ unsure' = unsure + Cardinality(T) /\ unsure' <= MaxUnsure /\ calls' = {} /\ held' = {}
      /\ probe' = [s \in Probed |-> IF probe[s].at = "post" THEN [probe[s] EXCEPT !.at = "pause"]
                                    ELSE probe[s]]
      /\ UNCHANGED <<round, errs, cool, cached, bought>>
  BY DEF EngineDies
<1>2. IsFiniteSet(T) BY FS_Subset DEF ProbeSafe, Waiting
<1>3. Cardinality(T) \in Nat /\ (T # {} => Cardinality(T) # 0)
  BY <1>2, FS_CardinalityType, FS_EmptySet
<1>4. unsure \in Nat /\ unsure' \in 0..MaxUnsure
  BY <1>1, <1>3, ProbeConstants DEF ProbeSafe, Buying
<1>5. ASSUME NEW k \in Keys PROVE bought[k] <= unsure' \/ (k \in cached /\ bought[k] <= 1 + unsure')
  <2>1. bought[k] \in Nat /\ bought[k] <= 1 + unsure
    BY ProbeConstants DEF ProbeSafe, Buying
  <2>2. bought[k] <= unsure \/ k \in cached \/ T # {}
    BY DEF ProbeSafe, Buying
  <2> HIDE DEF T
  <2>3. CASE T = {} BY <1>1, <1>3, <1>4, <2>1, <2>2, <2>3
  <2>4. CASE T # {} BY <1>1, <1>3, <1>4, <2>1, <2>4
  <2> QED BY <2>3, <2>4
<1> HIDE DEF T
<1>6. Buying'
  <2>1. \A k \in Keys : bought[k] <= 1 + unsure'
    <3> SUFFICES ASSUME NEW k \in Keys PROVE bought[k] <= 1 + unsure' OBVIOUS
    <3>1. bought[k] \in Nat BY ProbeConstants DEF ProbeSafe, Buying
    <3> QED BY <1>4, <1>5, <3>1
  <2> QED BY <1>1, <1>4, <1>5, <2>1 DEF ProbeSafe, Buying
<1>7. ASSUME NEW s \in Probed
      PROVE  /\ probe'[s] \in ProbeRecord /\ probe'[s].key = probe[s].key
             /\ probe'[s].at = IF probe[s].at = "post" THEN "pause" ELSE probe[s].at
  <2>1. probe[s] \in ProbeRecord BY DEF ProbeSafe, Probing
  <2> QED BY <1>1, <2>1 DEF ProbeRecord
<1>8. probe' \in [Probed -> ProbeRecord] BY <1>1, <1>7
<1>9. Inside' \subseteq Inside BY <1>7 DEF Inside
<1>10. Probing' BY <1>1, <1>7, <1>8, <1>9, NobodyEnters DEF ProbeSafe, Probing
<1>11. Waiting' /\ Passing' BY <1>1, FS_EmptySet DEF ProbeSafe, Waiting, Passing
<1> QED BY <1>6, <1>10, <1>11 DEF ProbeSafe

LEMMA CacheExpiresKeeps == ASSUME ProbeSafe, CacheExpires PROVE ProbeSafe'
<1> PICK k \in cached : cached' = cached \ {k} BY DEF CacheExpires
<1>1. /\ unsure < MaxUnsure /\ unsure' = unsure + 1
      /\ UNCHANGED <<probe, round, errs, cool, calls, held, bought>>
  BY DEF CacheExpires
<1>2. unsure \in Nat /\ unsure' \in 0..MaxUnsure BY <1>1, ProbeConstants DEF ProbeSafe, Buying
<1>3. \A x \in Keys : bought[x] \in Nat /\ bought[x] <= 1 + unsure
  BY ProbeConstants DEF ProbeSafe, Buying
<1>4. Buying' BY <1>1, <1>2, <1>3 DEF ProbeSafe, Buying
<1>5. Passing' BY <1>1 DEF ProbeSafe, Passing
<1> QED BY <1>1, <1>4, <1>5 DEF ProbeSafe, Probing, Waiting, Inside

\* Through retries, lost answers, given-up requests and crashes of the engine: a
\* key buys once, and once more only for an order whose answer the cache has not.
THEOREM ProbeSound == ProbeSpec => []ProbeInv
<1>1. ASSUME ProbeSafe, [ProbeNext]_probeVars PROVE ProbeSafe'
  <2>1. CASE UNCHANGED probeVars
    BY <1>1, <2>1 DEF ProbeSafe, Probing, Waiting, Passing, Buying, Inside, probeVars
  <2> QED BY <1>1, <2>1, ExecutorKeeps, EngineReceivesKeeps, VenueAcceptsKeeps, EngineAnswersKeeps,
             EngineFailsKeeps, EngineDiesKeeps, CacheExpiresKeeps, GivenUpKeeps
          DEF ProbeNext, Engine
<1>2. ASSUME ProbeSafe PROVE ProbeInv
  BY <1>2 DEF ProbeSafe, Probing, Waiting, Passing, Buying, ProbeRecord, ProbeTypeOK, KeyBuysOnce,
              ProbeInv
<1> QED BY <1>1, <1>2, ProbeStarts, PTL DEF ProbeSpec

-----------------------------------------------------------------------------
(* DataLedger.                                                              *)

\* What a ledger covers, and what a call knows of its batch.
Reaches(l, n) == \A k \in 1..n - 1 : \E f \in l : f.from <= k /\ k <= f.to
Call == [at : Phases, since : 0..LastCandle + 1, rows : Batches \cup {NoBatch}]
Knows(g, l) ==
    /\ g.at # "idle" => g.since \in 1..LastCandle + 1 /\ Reaches(l, g.since)
    /\ g.at \in {"write", "register", "mark", "drop"} => g.rows \in Batches /\ g.rows.from = g.since
    /\ g.at = "mark" => Reaches(l, g.rows.to + 1)

LedgerSafe == LedgerTypeOK /\ Reaches(ledger, mark) /\ \A j \in Jobs : Knows(ing[j], ledger)

\* What is registered stays registered.
LEMMA LedgerGrows ==
    ASSUME NEW l, NEW m, l \subseteq m
    PROVE  /\ \A n : Reaches(l, n) => Reaches(m, n)
           /\ \A g : Knows(g, l) => Knows(g, m)
BY DEF Reaches, Knows

\* Nothing is registered and nothing is covered at first.
LEMMA LedgerBegins == LedgerInit => LedgerSafe
<1> SUFFICES ASSUME LedgerInit PROVE LedgerSafe
  OBVIOUS
<1> USE LedgerAssumption DEF LedgerInit
<1>1. LedgerTypeOK
  BY DEF LedgerTypeOK, Candles, Phases
<1>2. Reaches(ledger, mark)
  BY DEF Reaches
<1>3. ASSUME NEW j \in Jobs PROVE Knows(ing[j], ledger)
  BY DEF Knows
<1> QED BY <1>1, <1>2, <1>3 DEF LedgerSafe

\* A step that changes one call at most.
LEMMA LedgerStep ==
    ASSUME LedgerSafe, NEW j \in Jobs, NEW g \in Call, ing' = [ing EXCEPT ![j] = g],
           now' = now, rev' = rev, mark' \in 1..LastCandle + 1,
           ledger \subseteq ledger', ledger' \subseteq Batches, disk' \subseteq Batches,
           \A a, b \in disk' : SamePath(a, b) => a = b,
           Reaches(ledger', mark'), Knows(g, ledger')
    PROVE  LedgerSafe'
<1> USE DEF LedgerSafe
<1>1. ing \in [Jobs -> Call]
  BY DEF LedgerTypeOK, Call
<1>2. ing' \in [Jobs -> Call]
  BY <1>1
<1>3. LedgerTypeOK'
  BY <1>2 DEF LedgerTypeOK, Call
<1>4. ASSUME NEW i \in Jobs PROVE Knows(ing'[i], ledger')
  <2>1. CASE i = j
    BY <1>1, <2>1
  <2>2. CASE i # j
    <3>1. ing'[i] = ing[i]
      BY <1>1, <2>2
    <3>2. Knows(ing[i], ledger)
      OBVIOUS
    <3> QED BY <3>1, <3>2, LedgerGrows
  <2> QED BY <2>1, <2>2
<1> QED BY <1>3, <1>4

\* Every step keeps what the watermark says.
LEMMA LedgerStays == LedgerSafe /\ [LedgerNext]_ledgerVars => LedgerSafe'
<1> SUFFICES ASSUME LedgerSafe, [LedgerNext]_ledgerVars PROVE LedgerSafe'
  OBVIOUS
<1> USE LedgerAssumption
<1>0. /\ ing \in [Jobs -> Call] /\ now \in 1..LastCandle /\ rev \in [1..LastCandle -> 0..LastRev]
      /\ mark \in 1..LastCandle + 1 /\ ledger \subseteq Batches /\ disk \subseteq Batches
      /\ (\A a, b \in disk : SamePath(a, b) => a = b) /\ Reaches(ledger, mark)
      /\ \A j \in Jobs : Knows(ing[j], ledger)
  BY DEF LedgerSafe, LedgerTypeOK, Call, Candles
<1>1. CASE CandleTrades \/ CandleCloses \/ UNCHANGED ledgerVars
  <2>1. LedgerTypeOK'
    <3>1. CASE CandleTrades
      BY <1>0, <3>1 DEF CandleTrades, LedgerSafe, LedgerTypeOK, Candles
    <3>2. CASE CandleCloses
      BY <1>0, <3>2 DEF CandleCloses, LedgerSafe, LedgerTypeOK, Candles
    <3>3. CASE UNCHANGED ledgerVars
      BY <3>3 DEF ledgerVars, LedgerSafe, LedgerTypeOK
    <3> QED BY <1>1, <3>1, <3>2, <3>3
  <2>2. mark' = mark /\ ledger' = ledger /\ ing' = ing
    BY <1>1 DEF CandleTrades, CandleCloses, ledgerVars
  <2> QED BY <1>0, <2>1, <2>2 DEF LedgerSafe
<1>2. CASE IngesterCrash
  <2>1. now' = now /\ rev' = rev /\ mark' = mark /\ ledger' = ledger /\ disk' = disk
    BY <1>2 DEF IngesterCrash
  <2>2. ASSUME NEW j \in Jobs PROVE ing'[j] \in Call /\ Knows(ing'[j], ledger)
    <3>1. ing'[j] = ing[j] \/ (ing[j].at # "idle" /\ ing'[j] = [ing[j] EXCEPT !.at = "dead"])
      BY <1>2 DEF IngesterCrash
    <3>2. ing[j] \in Call /\ Knows(ing[j], ledger)
      BY <1>0
    <3> QED BY <3>1, <3>2 DEF Call, Knows, Phases
  <2>3. ing' \in [Jobs -> Call]
    <3>1. ing' = [j \in Jobs |-> ing'[j]]
      BY <1>2 DEF IngesterCrash
    <3> QED BY <2>2, <3>1
  <2>4. LedgerTypeOK'
    BY <1>0, <2>1, <2>3 DEF LedgerTypeOK, Call, Candles
  <2> QED BY <1>0, <2>1, <2>2, <2>4 DEF LedgerSafe
<1>3. ASSUME NEW j \in Jobs,
             \/ IngestStart(j) \/ IngestFetch(j) \/ IngestWrite(j) \/ IngestRegister(j)
             \/ IngestMark(j) \/ IngestDrop(j) \/ IngestFails(j)
      PROVE LedgerSafe'
  <2> DEFINE c == ing[j]
  <2>0. c \in Call /\ Knows(c, ledger) /\ c.at \in Phases /\ c.since \in 0..LastCandle + 1
        /\ c.rows \in Batches \cup {NoBatch}
    BY <1>0 DEF Call
  <2>1. CASE IngestStart(j)
    <3> DEFINE g == [c EXCEPT !.at = "fetch", !.since = mark]
    <3>1. ing' = [ing EXCEPT ![j] = g]
      BY <1>0, <2>1 DEF IngestStart
    <3>2. g.at = "fetch" /\ g.since = mark /\ g.rows = c.rows
      BY <2>0 DEF Call
    <3>3. g \in Call
      <4>1. mark \in 0..LastCandle + 1 /\ "fetch" \in Phases
        BY <1>0 DEF Phases
      <4> HIDE DEF c
      <4> QED BY <2>0, <4>1 DEF Call
    <3> HIDE DEF g
    <3>4. Knows(g, ledger)
      BY <1>0, <3>2 DEF Knows
    <3> QED BY <1>0, <2>1, <3>1, <3>3, <3>4, LedgerStep DEF IngestStart
  <2>2. CASE IngestFetch(j)
    <3> DEFINE to == IF c.since + Batch - 1 < now THEN c.since + Batch - 1 ELSE now
               rows == [from |-> c.since, to |-> to, last |-> rev[to]]
               g == IF c.since > now THEN [c EXCEPT !.at = "done"] ELSE [c EXCEPT !.at = "write", !.rows = rows]
    <3>1. ing' = [ing EXCEPT ![j] = g]
      BY <1>0, <2>2 DEF IngestFetch
    <3>2. c.at = "fetch" /\ c.since \in 1..LastCandle + 1
      BY <2>0, <2>2 DEF IngestFetch, At, Knows
    <3>3. c.since <= now => to \in 1..LastCandle /\ rev[to] \in 0..LastRev /\ c.since \in 1..LastCandle
      <4>1. c.since <= now => to \in 1..LastCandle /\ c.since \in 1..LastCandle
        BY <1>0, <3>2
      <4> HIDE DEF to
      <4> QED BY <1>0, <4>1
    <3>4. c.since <= now => rows \in Batches /\ rows.from = c.since
      <4> HIDE DEF to
      <4> QED BY <3>3 DEF Batches, Candles
    <3> HIDE DEF rows, to
    <3>5. g \in Call /\ Knows(g, ledger)
      <4>1. CASE c.since > now
        BY <2>0, <3>2, <4>1 DEF Call, Knows, Phases
      <4>2. CASE c.since <= now
        BY <1>0, <2>0, <3>2, <3>4, <4>2 DEF Call, Knows, Phases
      <4> QED BY <1>0, <3>2, <4>1, <4>2
    <3> HIDE DEF g
    <3> QED BY <1>0, <2>2, <3>1, <3>5, LedgerStep DEF IngestFetch
  <2>3. CASE IngestWrite(j)
    <3> DEFINE g == [c EXCEPT !.at = "register"]
    <3>1. ing' = [ing EXCEPT ![j] = g] /\ disk' = {f \in disk : ~SamePath(f, c.rows)} \cup {c.rows}
      BY <1>0, <2>3 DEF IngestWrite, Ing
    <3>2. c.at = "write" /\ c.rows \in Batches
      BY <2>0, <2>3 DEF IngestWrite, At, Knows
    <3>3. g \in Call /\ Knows(g, ledger)
      BY <2>0, <3>2 DEF Call, Knows, Phases
    <3>4. disk' \subseteq Batches /\ \A a, b \in disk' : SamePath(a, b) => a = b
      BY <1>0, <3>1, <3>2 DEF SamePath
    <3> HIDE DEF g
    <3> QED BY <1>0, <2>3, <3>1, <3>3, <3>4, LedgerStep DEF IngestWrite
  <2>4. CASE IngestRegister(j)
    <3> DEFINE found == OnDisk(c.rows)
               next == IF found = {} THEN "done" ELSE IF found \subseteq ledger THEN "drop" ELSE "mark"
               g == [c EXCEPT !.at = next]
    <3>1. ing' = [ing EXCEPT ![j] = g] /\ ledger' = ledger \cup found /\ c.at = "register"
      BY <1>0, <2>4 DEF IngestRegister, Ing, At
    <3>2. c.rows \in Batches /\ c.rows.from = c.since /\ Reaches(ledger, c.since)
          /\ c.rows.to \in Int /\ c.since \in Int
      BY <2>0, <3>1 DEF Knows, Batches, Candles
    <3>3. found \subseteq Batches /\ \A f \in found : f.from = c.since /\ f.to = c.rows.to
      BY <1>0, <3>2 DEF OnDisk, SamePath
    <3> HIDE DEF found
    <3>4. Knows(c, ledger') /\ Reaches(ledger', c.since) /\ Reaches(ledger', mark)
      BY <1>0, <2>0, <3>1, <3>2, LedgerGrows
    <3>5. found # {} => Reaches(ledger', c.rows.to + 1)
      <4> SUFFICES ASSUME NEW f \in found, NEW k \in 1..(c.rows.to + 1) - 1
                   PROVE  \E e \in ledger' : e.from <= k /\ k <= e.to
        BY DEF Reaches
      <4>1. CASE k < c.since
        BY <3>2, <3>4, <4>1 DEF Reaches
      <4>2. CASE k >= c.since
        BY <3>1, <3>2, <3>3, <4>2
      <4> QED BY <3>2, <4>1, <4>2
    <3>6. g \in Call /\ Knows(g, ledger')
      <4>1. next \in {"done", "drop", "mark"} /\ (next = "mark" => found # {})
        OBVIOUS
      <4> HIDE DEF next
      <4> QED BY <2>0, <3>1, <3>4, <3>5, <4>1 DEF Call, Knows, Phases
    <3> HIDE DEF g
    <3>7. mark' = mark /\ now' = now /\ rev' = rev /\ disk' = disk
      BY <2>4 DEF IngestRegister
    <3>8. ledger \subseteq ledger' /\ ledger' \subseteq Batches
      BY <1>0, <3>1, <3>3
    <3> QED BY <1>0, <3>1, <3>4, <3>6, <3>7, <3>8, LedgerStep
  <2>5. CASE IngestMark(j)
    <3> DEFINE g == [c EXCEPT !.at = "done"]
    <3>1. ing' = [ing EXCEPT ![j] = g] /\ mark' = c.rows.to + 1 /\ c.at = "mark"
      BY <1>0, <2>5 DEF IngestMark, Ing, At, MarkPastRows
    <3>2. c.rows \in Batches /\ Reaches(ledger, c.rows.to + 1)
      BY <2>0, <3>1 DEF Knows
    <3>3. mark' \in 1..LastCandle + 1 /\ Reaches(ledger, mark')
      BY <3>1, <3>2 DEF Batches, Candles
    <3>4. g \in Call /\ Knows(g, ledger)
      BY <2>0, <3>1 DEF Call, Knows, Phases
    <3> HIDE DEF g
    <3> QED BY <1>0, <2>5, <3>1, <3>3, <3>4, LedgerStep DEF IngestMark
  <2>6. CASE IngestDrop(j) \/ IngestFails(j)
    <3> DEFINE g == [c EXCEPT !.at = "done"]
    <3>1. ing' = [ing EXCEPT ![j] = g] /\ c.at # "idle" /\ disk' \subseteq disk
          /\ now' = now /\ rev' = rev /\ mark' = mark /\ ledger' = ledger
      BY <1>0, <2>6 DEF IngestDrop, IngestFails, Ing, At
    <3>2. g \in Call /\ Knows(g, ledger)
      BY <2>0, <3>1 DEF Call, Knows, Phases
    <3> HIDE DEF g
    <3> QED BY <1>0, <3>1, <3>2, LedgerStep
  <2> QED BY <1>3, <2>1, <2>2, <2>3, <2>4, <2>5, <2>6
<1> QED BY <1>1, <1>2, <1>3 DEF LedgerNext

-----------------------------------------------------------------------------
(* ModelStore.                                                              *)

Run == [at : Stages, promote : BOOLEAN, vid : Secs, read : Registry]

\* A training that has a version of its own, and may serve it.
Opened(j)   == trn[j].at \notin {"idle", "open"}
Rightful(j) ==
    /\ Opened(j)
    /\ trn[j].promote \/ \E k \in Trainings \ {j} : trn[k].vid = trn[j].vid /\ Opened(k)

\* A version's file is by a training of that version; whatever is served is
\* rightful; a training promotes when it was asked to.
Origins ==
    /\ \A v \in Secs : pkl[v] \in Trainings => trn[pkl[v]].vid = v /\ Opened(pkl[v])
    /\ \A j \in Trainings \cap ({active} \cup Served) : Rightful(j)
    /\ \A j \in Trainings : trn[j].at \in {"copy", "paste", "name", "write2"} => trn[j].promote

\* The registry against the files, whole or but for version v.
Saved    == {v \in Secs : pkl[v] # None}
Truth(r) == active = (IF r.active = NoVersion THEN None ELSE pkl[r.active])
Whole(r) == r.versions = Saved /\ r.active \in Saved \cup {NoVersion} /\ Truth(r)
Short(r, v) ==
    /\ v \in Saved /\ r.versions = Saved \ {v} /\ r.active \in r.versions \cup {NoVersion}
    /\ Truth(r)

\* What a training that is alone knows at each of its stages.
Ordered(j) ==
    /\ trn[j].at = "open" => Whole(reg)
    /\ trn[j].at \in {"write", "list"} => Short(reg, trn[j].vid)
    /\ trn[j].at = "write1" => Short(trn[j].read, trn[j].vid)
    /\ trn[j].at = "copy" => Whole(reg) /\ trn[j].vid \in Saved
    /\ trn[j].at = "paste" => reg.versions = Saved /\ trn[j].vid \in Saved
    /\ trn[j].at = "name" => reg.versions = Saved /\ trn[j].vid \in Saved /\ active = pkl[trn[j].vid]
    /\ trn[j].at = "write2" =>
        trn[j].read.versions = Saved /\ trn[j].vid \in Saved /\ active = pkl[trn[j].vid]

Alone ==
    ~mixed =>
        /\ \A i, j \in Trainings : Underway(i) /\ Underway(j) => i = j
        /\ \A j \in Trainings : Ordered(j)
        /\ (~\E j \in Trainings : Underway(j)) => Whole(reg)

StoreSafe == StoreTypeOK /\ Origins /\ Alone

\* What the constants are.
LEMMA StoreConstants ==
    /\ Secs \subseteq Nat /\ NoVersion \notin Secs /\ 0 \in Secs
    /\ \A j \in Trainings : j \notin {"none", "torn", "empty", "away", "idle", "check", "load"}
BY StoreAssumption DEF Secs, NoVersion

\* The store begins empty.
LEMMA StoreBegins == StoreInit => StoreSafe
<1> SUFFICES ASSUME StoreInit PROVE StoreSafe
  OBVIOUS
<1> USE StoreConstants DEF StoreInit
<1>1. Empty \in Registry /\ "idle" \in Stages
  BY DEF Empty, Registry, Stages
<1>2. StoreTypeOK
  BY <1>1, StoreAssumption DEF StoreTypeOK, Files, Secs, Loaders, Registry
<1>3. Served \subseteq {"empty", "idle", "away"}
  BY DEF Served
<1>4. Origins
  BY <1>3 DEF Origins, None
<1>5. Whole(reg)
  BY DEF Whole, Truth, Saved, Empty
<1>6. Alone
  BY <1>5 DEF Alone, Ordered, Underway
<1> QED BY <1>2, <1>4, <1>6 DEF StoreSafe

\* A step that changes one training, beside the files: what it owes.
LEMMA StoreStep ==
    ASSUME StoreSafe, NEW j \in Trainings, NEW g \in Run, trn' = [trn EXCEPT ![j] = g],
           Underway(j), g.at \notin {"idle", "open", "dead"}, g.promote = trn[j].promote,
           trn[j].at = "open" \/ g.vid = trn[j].vid,
           trn[j].at \in {"copy", "paste", "name", "write2"} \/ g.at \notin {"copy", "paste", "name", "write2"}
             \/ g.promote,
           sec' = sec, pkl' \in [Secs -> Files], active' \in Files, reg' \in Registry,
           cache' = cache, loader' = loader, mixed' \in BOOLEAN, mixed => mixed',
           \A v \in Secs : pkl'[v] \in {pkl[v], Torn} \/ (pkl'[v] = j /\ v = g.vid),
           active' \in {active, Torn} \/ (Opened(j) /\ g.promote /\ active' = pkl[g.vid]),
           ~mixed' => Ordered(j)' /\ (g.at = "done" => Whole(reg)')
    PROVE  StoreSafe'
<1> USE StoreConstants DEF StoreSafe
<1>1. /\ trn \in [Trainings -> Run] /\ trn' \in [Trainings -> Run] /\ trn'[j] = g
      /\ \A i \in Trainings : i # j => trn'[i] = trn[i]
  BY DEF StoreTypeOK, Run
<1>2. StoreTypeOK'
  BY <1>1 DEF StoreTypeOK, Run
<1>3. \A i \in Trainings : Opened(i) => Opened(i)' /\ trn'[i].vid = trn[i].vid
  BY <1>1 DEF Opened
<1>4. Opened(j)'
  BY <1>1 DEF Opened
<1>5. ASSUME NEW i \in Trainings, Rightful(i) PROVE Rightful(i)'
  <2>1. trn'[i].promote = trn[i].promote
    BY <1>1
  <2>2. Opened(i) /\ Opened(i)' /\ trn'[i].vid = trn[i].vid
    BY <1>3, <1>5 DEF Rightful
  <2>3. CASE trn[i].promote
    BY <2>1, <2>2, <2>3 DEF Rightful
  <2>4. CASE \E k \in Trainings \ {i} : trn[k].vid = trn[i].vid /\ Opened(k)
    <3>1. PICK k \in Trainings \ {i} : trn[k].vid = trn[i].vid /\ Opened(k)
      BY <2>4
    <3>2. trn'[k].vid = trn'[i].vid /\ Opened(k)'
      BY <1>3, <2>2, <3>1
    <3> QED BY <2>2, <3>2 DEF Rightful
  <2> QED BY <1>5, <2>3, <2>4 DEF Rightful
<1>6. ASSUME NEW v \in Secs, NEW i \in Trainings, pkl'[v] = i
      PROVE  trn'[i].vid = v /\ Opened(i)'
  <2>1. CASE pkl'[v] = pkl[v]
    <3>1. trn[i].vid = v /\ Opened(i)
      BY <1>6, <2>1 DEF Origins
    <3> QED BY <1>3, <3>1
  <2>2. CASE pkl'[v] = j /\ v = g.vid
    BY <1>1, <1>4, <1>6, <2>2
  <2> QED BY <1>6, <2>1, <2>2 DEF Torn
<1>7. ASSUME NEW i \in Trainings \cap ({active'} \cup Served') PROVE Rightful(i)'
  <2>1. Served' = Served
    <3>1. cache' = cache /\ loader' = loader
      OBVIOUS
    <3> QED BY <3>1 DEF Served
  <2>2. CASE i \in {active} \cup Served
    <3>1. Rightful(i)
      BY <2>2 DEF Origins
    <3> QED BY <1>5, <3>1
  <2>3. CASE Opened(j) /\ g.promote /\ i = pkl[g.vid]
    <3>1. g.vid \in Secs
      BY DEF Run
    <3>2. trn[i].vid = g.vid /\ Opened(i)
      BY <2>3, <3>1 DEF Origins
    <3>3. trn'[i].vid = g.vid /\ Opened(i)'
      BY <1>3, <3>2
    <3>4. CASE i = j
      BY <1>1, <2>3, <3>3, <3>4 DEF Rightful
    <3>5. CASE i # j
      <4>1. j \in Trainings \ {i} /\ trn'[j].vid = trn'[i].vid
        BY <1>1, <3>3, <3>5
      <4> QED BY <1>4, <3>3, <4>1 DEF Rightful
    <3> QED BY <3>4, <3>5
  <2> QED BY <2>1, <2>2, <2>3 DEF Torn
<1>8. \A i \in Trainings : trn'[i].at \in {"copy", "paste", "name", "write2"} => trn'[i].promote
  BY <1>1 DEF Origins
<1>9. Alone'
  <2> SUFFICES ASSUME ~mixed' PROVE /\ \A i, k \in Trainings : Underway(i)' /\ Underway(k)' => i = k
                                    /\ \A i \in Trainings : Ordered(i)'
                                    /\ (~\E i \in Trainings : Underway(i)') => Whole(reg)'
    BY DEF Alone
  <2>1. ASSUME NEW i \in Trainings, i # j
        PROVE ~Underway(i)' /\ Ordered(i)'
    <3>1. ~Underway(i) /\ trn'[i] = trn[i]
      BY <1>1, <2>1 DEF Alone
    <3>2. trn'[i].at \in {"idle", "done", "dead"}
      BY <3>1 DEF Underway
    <3> QED BY <3>2 DEF Underway, Ordered
  <2>2. Ordered(j)' /\ (g.at = "done" => Whole(reg)')
    OBVIOUS
  <2>3. (~\E i \in Trainings : Underway(i)') => g.at = "done"
    BY <1>1 DEF Underway
  <2> QED BY <2>1, <2>2, <2>3
<1>10. Origins'
  BY <1>6, <1>7, <1>8 DEF Origins, Opened
<1> QED BY <1>2, <1>9, <1>10

\* Steps that leave trainings, files and registry alone.
LEMMA StoreIdles ==
    ASSUME StoreSafe, StoreTypeOK', trn' = trn, pkl' = pkl, reg' = reg, active' = active, mixed' = mixed,
           Served' \cap Trainings \subseteq Served \cup {active}
    PROVE  StoreSafe'
<1> USE DEF StoreSafe
<1>1. \A i \in Trainings : Rightful(i) => Rightful(i)'
  BY DEF Rightful, Opened
<1>2. Origins'
  <2>1. \A i \in Trainings \cap ({active'} \cup Served') : Rightful(i)'
    BY <1>1 DEF Origins
  <2>2. \A v \in Secs : pkl'[v] \in Trainings => trn'[pkl'[v]].vid = v /\ trn'[pkl'[v]].at \notin {"idle", "open"}
    BY DEF Origins, Opened
  <2>3. \A j \in Trainings : trn'[j].at \in {"copy", "paste", "name", "write2"} => trn'[j].promote
    BY DEF Origins
  <2> QED BY <2>1, <2>2, <2>3 DEF Origins, Opened
<1>3. Alone'
  BY DEF Alone, Ordered, Whole, Short, Saved, Truth, Underway
<1> QED BY <1>2, <1>3

\* The service's threads, and time.
LEMMA CacheSafe ==
    ASSUME StoreSafe, CacheNext \/ SecondPasses \/ UNCHANGED storeVars
    PROVE  StoreSafe'
<1> USE StoreConstants, StoreAssumption
<1>0. loader \in [Loaders -> {"away", "idle", "check", "load", None} \cup Trainings]
      /\ cache \in Trainings \cup {None, "empty"} /\ StoreTypeOK /\ active \in Files
  BY DEF StoreSafe, StoreTypeOK
<1>1. CASE SecondPasses \/ UNCHANGED storeVars
  <2>1. trn' = trn /\ pkl' = pkl /\ reg' = reg /\ active' = active /\ mixed' = mixed /\ Served' = Served
    BY <1>1 DEF SecondPasses, storeVars, Served
  <2>2. StoreTypeOK'
    BY <1>0, <1>1 DEF SecondPasses, storeVars, StoreTypeOK, Secs
  <2> QED BY <2>1, <2>2, StoreIdles
<1>2. CASE CacheNext
  <2>0. Idle
    BY <1>2 DEF CacheNext, WatchdogReloads, Request, CacheCheck, CacheLoad, CacheStore
  <2>1. PICK x \in Loaders, to \in {"idle", "check", "load", None} \cup Trainings :
            /\ loader' = [loader EXCEPT ![x] = to]
            /\ to \in Trainings => to = active
            /\ cache' \in {cache, "empty", loader[x]} /\ cache' \in Trainings \cup {None, "empty"}
    <3>1. CASE WatchdogReloads
      <4>1. "dog" \in Loaders /\ loader' = [loader EXCEPT !["dog"] = "check"] /\ cache' = "empty"
        BY <3>1 DEF WatchdogReloads, Load, ClearedCache, Loaders
      <4> QED BY <4>1
    <3>2. CASE \E x \in Requests : Request(x)
      <4>1. PICK x \in Requests : loader' = [loader EXCEPT ![x] = "check"] /\ cache' = cache
        BY <3>2 DEF Request, Load
      <4>2. x \in Loaders
        BY DEF Loaders
      <4> QED BY <1>0, <4>1, <4>2
    <3>3. CASE \E x \in Loaders : CacheCheck(x) \/ CacheLoad(x) \/ CacheStore(x)
      <4>1. PICK x \in Loaders : CacheCheck(x) \/ CacheLoad(x) \/ CacheStore(x)
        BY <3>3
      <4>2. CASE CacheCheck(x)
        <5>1. cache' = cache /\ (\/ loader' = [loader EXCEPT ![x] = "load"]
                                 \/ loader' = [loader EXCEPT ![x] = "idle"])
          BY <4>2 DEF CacheCheck, Load
        <5> QED BY <1>0, <5>1
      <4>3. CASE CacheLoad(x)
        <5>1. cache' = cache /\ loader' = [loader EXCEPT ![x] = Loaded(active)]
          BY <4>3 DEF CacheLoad, Load
        <5>2. Loaded(active) \in {None} \cup Trainings /\ (Loaded(active) \in Trainings => Loaded(active) = active)
          BY <1>0 DEF Loaded, Files, None, Torn
        <5> QED BY <1>0, <5>1, <5>2
      <4>4. CASE CacheStore(x)
        <5>1. cache' = loader[x] /\ loader' = [loader EXCEPT ![x] = "idle"] /\ loader[x] \in Trainings \cup {None}
          BY <4>4 DEF CacheStore, Load
        <5> QED BY <5>1
      <4> QED BY <4>1, <4>2, <4>3, <4>4
    <3> QED BY <1>2, <3>1, <3>2, <3>3 DEF CacheNext
  <2>2. StoreTypeOK'
    BY <1>0, <2>0, <2>1 DEF StoreTypeOK, Idle
  <2>3. Served' \cap Trainings \subseteq Served \cup {active}
    BY <1>0, <2>1 DEF Served
  <2>4. StoreSafe'
    BY <2>0, <2>2, <2>3, StoreIdles DEF Idle
  <2> QED BY <2>4
<1> QED BY <1>1, <1>2

\* A training that ends badly, a crash: what is alone is none of their concern.
LEMMA MixedSafe ==
    ASSUME StoreSafe, trn' \in [Trainings -> Run], mixed' = TRUE,
           sec' = sec, pkl' = pkl, active' = active, reg' = reg,
           StoreTypeOK', Served' \cap Trainings \subseteq Served,
           \A i \in Trainings : trn'[i] = trn[i] \/ (trn'[i].at \in {"done", "dead"}
                /\ trn'[i].promote = trn[i].promote /\ trn'[i].vid = trn[i].vid)
    PROVE  StoreSafe'
<1> USE DEF StoreSafe
<1>1. \A i \in Trainings : trn'[i].vid = trn[i].vid /\ trn'[i].promote = trn[i].promote /\ (Opened(i) => Opened(i)')
  BY DEF Opened
<1>2. \A i \in Trainings : Rightful(i) => Rightful(i)'
  BY <1>1 DEF Rightful
<1>3. \A i \in Trainings \cap ({active'} \cup Served') : Rightful(i)'
  BY <1>2 DEF Origins
<1>4. ASSUME NEW v \in Secs, NEW i \in Trainings, pkl'[v] = i
      PROVE  trn'[i].vid = v /\ Opened(i)'
  BY <1>1, <1>4 DEF Origins
<1>5. \A i \in Trainings : trn'[i].at \in {"copy", "paste", "name", "write2"} => trn'[i].promote
  BY DEF Origins
<1>6. Origins'
  BY <1>3, <1>4, <1>5 DEF Origins, Opened
<1>7. Alone'
  BY DEF Alone
<1> QED BY <1>6, <1>7

\* Failures and crashes leave the files to whoever wrote them.
LEMMA FailsSafe ==
    ASSUME StoreSafe, MlCrash \/ (\E j \in Trainings : SaveFails(j))
    PROVE  StoreSafe'
<1> USE StoreConstants DEF StoreSafe
<1>0. trn \in [Trainings -> Run] /\ {"done", "dead"} \subseteq Stages
  BY DEF StoreTypeOK, Run, Stages
<1>1. CASE MlCrash
  <2>1. trn' = [j \in Trainings |-> IF Underway(j) THEN [trn[j] EXCEPT !.at = "dead"] ELSE trn[j]]
    BY <1>1 DEF MlCrash
  <2>2. ASSUME NEW i \in Trainings
        PROVE /\ trn'[i] \in Run
              /\ trn'[i] = trn[i] \/ (trn'[i].at \in {"done", "dead"}
                    /\ trn'[i].promote = trn[i].promote /\ trn'[i].vid = trn[i].vid)
    <3>1. trn[i] \in Run /\ (trn'[i] = trn[i] \/ trn'[i] = [trn[i] EXCEPT !.at = "dead"])
      BY <1>0, <2>1
    <3> QED BY <1>0, <3>1 DEF Run
  <2>3. trn' \in [Trainings -> Run]
    <3>1. trn' = [j \in Trainings |-> trn'[j]]
      BY <2>1
    <3> QED BY <2>2, <3>1
  <2>4. loader' \in [Loaders -> {"away", "idle"}] /\ cache' = "empty"
    BY <1>1 DEF MlCrash
  <2>5. StoreTypeOK'
    BY <1>1, <2>3, <2>4 DEF MlCrash, StoreTypeOK, Run
  <2>6. Served' \cap Trainings \subseteq Served
    BY <2>4 DEF Served
  <2>7. sec' = sec /\ pkl' = pkl /\ active' = active /\ reg' = reg /\ mixed' = TRUE
    BY <1>1 DEF MlCrash
  <2> QED BY <2>2, <2>3, <2>5, <2>6, <2>7, MixedSafe
<1>2. ASSUME NEW j \in Trainings, SaveFails(j) PROVE StoreSafe'
  <2>1. trn' = [trn EXCEPT ![j] = [trn[j] EXCEPT !.at = "done"]]
    BY <1>0, <1>2 DEF SaveFails, Step
  <2>2. [trn[j] EXCEPT !.at = "done"] \in Run
    BY <1>0 DEF Run
  <2>3. trn' \in [Trainings -> Run]
    BY <1>0, <2>1, <2>2
  <2>4. \A i \in Trainings : trn'[i] = trn[i] \/ (trn'[i].at \in {"done", "dead"}
                /\ trn'[i].promote = trn[i].promote /\ trn'[i].vid = trn[i].vid)
    BY <1>0, <2>1 DEF Run
  <2>5. sec' = sec /\ pkl' = pkl /\ active' = active /\ reg' = reg /\ mixed' = TRUE /\ cache' = cache /\ loader' = loader
    BY <1>2 DEF SaveFails
  <2>6. StoreTypeOK' /\ Served' = Served
    BY <2>3, <2>5 DEF StoreTypeOK, Run, Served
  <2> QED BY <2>3, <2>4, <2>5, <2>6, MixedSafe
<1> QED BY <1>1, <1>2

\* A training begins, or fails to: others at work are the mix.
LEMMA StartSafe ==
    ASSUME StoreSafe, NEW j \in Trainings, TrainStart(j)
    PROVE  StoreSafe'
<1> USE StoreConstants DEF StoreSafe
<1>1. trn \in [Trainings -> Run] /\ trn[j].at = "idle" /\ trn[j] \in Run /\ {"done", "open"} \subseteq Stages
  BY DEF TrainStart, StoreTypeOK, Run, Stages
<1>2. PICK g \in Run : trn' = [trn EXCEPT ![j] = g] /\ g.at \in {"done", "open"}
  <2>1. CASE trn' = [trn EXCEPT ![j].at = "done"]
    <3>1. [trn[j] EXCEPT !.at = "done"] \in Run
      BY <1>1 DEF Run
    <3> QED BY <1>1, <2>1, <3>1 DEF Run
  <2>2. CASE \E p \in BOOLEAN : trn' = [trn EXCEPT ![j].at = "open", ![j].promote = p]
    <3>1. PICK p \in BOOLEAN : trn' = [trn EXCEPT ![j].at = "open", ![j].promote = p]
      BY <2>2
    <3>2. [trn[j] EXCEPT !.at = "open", !.promote = p] \in Run
      BY <1>1 DEF Run
    <3>3. trn' = [trn EXCEPT ![j] = [trn[j] EXCEPT !.at = "open", !.promote = p]]
      BY <1>1, <3>1
    <3> QED BY <1>1, <3>2, <3>3 DEF Run
  <2> QED BY <2>1, <2>2 DEF TrainStart
<1>3. /\ trn' \in [Trainings -> Run] /\ trn'[j] = g /\ ~Opened(j) /\ ~Underway(j)
      /\ \A i \in Trainings : i # j => trn'[i] = trn[i]
  BY <1>1, <1>2 DEF Opened, Underway
<1>4. /\ sec' = sec /\ pkl' = pkl /\ reg' = reg /\ active' = active /\ cache' = cache /\ loader' = loader
      /\ mixed' = (mixed \/ \E i \in Trainings \ {j} : Underway(i))
  BY DEF TrainStart
<1>5. mixed' \in BOOLEAN
  BY <1>4 DEF StoreTypeOK
<1>6. StoreTypeOK' /\ Served' = Served
  BY <1>3, <1>4, <1>5 DEF StoreTypeOK, Run, Served
<1>7. \A i \in Trainings : Opened(i) => i # j /\ Opened(i)' /\ trn'[i] = trn[i]
  BY <1>3 DEF Opened
<1>8. \A i \in Trainings : Rightful(i) => Rightful(i)'
  BY <1>7 DEF Rightful
<1>9. \A i \in Trainings \cap ({active'} \cup Served') : Rightful(i)'
  BY <1>4, <1>6, <1>8 DEF Origins
<1>10. ASSUME NEW v \in Secs, NEW i \in Trainings, pkl'[v] = i
       PROVE  trn'[i].vid = v /\ Opened(i)'
  BY <1>4, <1>7, <1>10 DEF Origins
<1>11. \A i \in Trainings : trn'[i].at \in {"copy", "paste", "name", "write2"} => trn'[i].promote
  BY <1>2, <1>3 DEF Origins
<1>12. Origins'
  BY <1>9, <1>10, <1>11 DEF Origins, Opened
<1>13. Alone'
  <2> SUFFICES ASSUME ~mixed' PROVE /\ \A i, k \in Trainings : Underway(i)' /\ Underway(k)' => i = k
                                    /\ \A i \in Trainings : Ordered(i)'
                                    /\ (~\E i \in Trainings : Underway(i)') => Whole(reg)'
    BY DEF Alone
  <2>1. ~mixed /\ \A i \in Trainings : ~Underway(i)
    BY <1>3, <1>4
  <2>2. Whole(reg)
    BY <2>1 DEF Alone
  <2>3. Whole(reg)'
    BY <1>4, <2>2 DEF Whole, Saved, Truth
  <2>4. \A i \in Trainings : i # j => ~Underway(i)' /\ trn'[i].at \in {"idle", "done", "dead"}
    BY <1>3, <2>1 DEF Underway
  <2>5. \A i \in Trainings : Ordered(i)'
    BY <1>2, <1>3, <2>3, <2>4 DEF Ordered
  <2> QED BY <2>3, <2>4, <2>5
<1> QED BY <1>6, <1>12, <1>13

\* A training goes on.
LEMMA TrainingSafe ==
    ASSUME StoreSafe, NEW j \in Trainings, Training(j)
    PROVE  StoreSafe'
<1> DEFINE c == trn[j]
           v == trn[j].vid
<1> USE StoreConstants DEF StoreSafe
<1>1. /\ trn \in [Trainings -> Run] /\ c \in Run /\ v \in Secs /\ c.read \in Registry /\ c.promote \in BOOLEAN
      /\ pkl \in [Secs -> Files] /\ active \in Files /\ reg \in Registry /\ sec \in Secs /\ mixed \in BOOLEAN
      /\ Empty \in Registry /\ j \in Files /\ Torn \in Files /\ c.at \in Stages
  BY DEF StoreTypeOK, Run, Registry, Files, Empty
<1>2. ~mixed => Ordered(j)
  BY DEF Alone
<1>3. c.at \in {"copy", "paste", "name", "write2"} => c.promote
  BY DEF Origins
<1>4. CASE SaveOpen(j)
  <2> DEFINE g == [c EXCEPT !.at = "write", !.vid = sec]
  <2>1. /\ trn' = [trn EXCEPT ![j] = g] /\ c.at = "open" /\ pkl' = [pkl EXCEPT ![sec] = Torn]
        /\ mixed' = (mixed \/ pkl[sec] # None) /\ sec' = sec /\ reg' = reg /\ active' = active
        /\ cache' = cache /\ loader' = loader
    BY <1>1, <1>4 DEF SaveOpen
  <2>2. g \in Run /\ g.at = "write" /\ g.vid = sec /\ g.promote = c.promote /\ trn'[j] = g
    BY <1>1, <2>1 DEF Run, Stages
  <2>3. Underway(j)
    BY <2>1 DEF Underway
  <2>4. ASSUME ~mixed' PROVE Ordered(j)'
    <3>1. Whole(reg) /\ sec \notin Saved
      BY <1>2, <2>1, <2>4 DEF Ordered, Saved
    <3>2. Saved' = Saved \cup {sec} /\ \A u \in Saved : pkl'[u] = pkl[u]
      BY <1>1, <2>1, <3>1 DEF Saved, None, Torn
    <3>3. Short(reg, sec)'
      BY <1>1, <2>1, <3>1, <3>2 DEF Whole, Short, Truth
    <3> HIDE DEF g
    <3> QED BY <2>1, <2>2, <3>3 DEF Ordered
  <2>5. pkl' \in [Secs -> Files] /\ mixed' \in BOOLEAN /\ \A u \in Secs : pkl'[u] \in {pkl[u], Torn}
    BY <1>1, <2>1
  <2> HIDE DEF g
  <2> QED BY <1>1, <2>1, <2>2, <2>3, <2>4, <2>5, StoreStep
<1>5. CASE SaveWrite(j)
  <2> DEFINE g == [c EXCEPT !.at = "list"]
  <2>1. /\ trn' = [trn EXCEPT ![j] = g] /\ c.at = "write" /\ pkl' = [pkl EXCEPT ![v] = j]
        /\ mixed' = mixed /\ sec' = sec /\ reg' = reg /\ active' = active
        /\ cache' = cache /\ loader' = loader
    BY <1>1, <1>5 DEF SaveWrite, Step, Unread
  <2>2. g \in Run /\ g.at = "list" /\ g.vid = v /\ g.promote = c.promote /\ trn'[j] = g
    BY <1>1, <2>1 DEF Run, Stages
  <2>3. Underway(j)
    BY <2>1 DEF Underway
  <2>4. ASSUME ~mixed' PROVE Ordered(j)'
    <3>1. Short(reg, v)
      BY <1>2, <2>1, <2>4 DEF Ordered
    <3>2. Saved' = Saved /\ \A u \in Secs \ {v} : pkl'[u] = pkl[u]
      BY <1>1, <2>1, <3>1 DEF Saved, Short, None
    <3>3. Short(reg, v)'
      BY <1>1, <2>1, <3>1, <3>2 DEF Short, Truth, Saved
    <3> HIDE DEF g
    <3> QED BY <2>1, <2>2, <3>3 DEF Ordered
  <2>5. pkl' \in [Secs -> Files] /\ \A u \in Secs : pkl'[u] = pkl[u] \/ (pkl'[u] = j /\ u = v)
    BY <1>1, <2>1
  <2> HIDE DEF g
  <2> QED BY <1>1, <2>1, <2>2, <2>3, <2>4, <2>5, StoreStep
<1>6. CASE ReadRegistry(j)
  <2> DEFINE to == IF c.at = "list" THEN "write1" ELSE "write2"
             g == [c EXCEPT !.at = to, !.read = reg]
  <2>1. /\ trn' = [trn EXCEPT ![j] = g] /\ c.at \in {"list", "name"} /\ pkl' = pkl
        /\ mixed' = mixed /\ sec' = sec /\ reg' = Empty /\ active' = active
        /\ cache' = cache /\ loader' = loader
    BY <1>1, <1>6 DEF ReadRegistry, Unread
  <2>2. g \in Run /\ g.at = to /\ g.vid = v /\ g.read = reg /\ g.promote = c.promote /\ trn'[j] = g
    BY <1>1, <2>1 DEF Run, Stages
  <2>3. Underway(j)
    BY <2>1 DEF Underway
  <2>4. ASSUME ~mixed' PROVE Ordered(j)'
    <3>1. /\ c.at = "list" => Short(reg, v)
          /\ c.at = "name" => reg.versions = Saved /\ v \in Saved /\ active = pkl[v]
      BY <1>2, <2>1, <2>4 DEF Ordered
    <3> HIDE DEF g
    <3>2. CASE c.at = "list"
      <4>1. Short(reg, v) /\ g.at = "write1"
        BY <2>2, <3>1, <3>2
      <4>2. trn'[j].read = reg /\ trn'[j].vid = v /\ trn'[j].at = "write1"
        BY <2>2, <4>1
      <4>3. Saved' = Saved /\ active' = active /\ pkl' = pkl
        BY <2>1 DEF Saved
      <4>4. Short(trn[j].read, trn[j].vid)'
        BY <4>1, <4>2, <4>3 DEF Short, Truth
      <4> QED BY <4>2, <4>4 DEF Ordered
    <3>3. CASE c.at = "name"
      <4>1. reg.versions = Saved /\ v \in Saved /\ active = pkl[v] /\ g.at = "write2"
        BY <2>2, <3>1, <3>3
      <4>2. Saved' = Saved /\ active' = active /\ pkl' = pkl
        BY <2>1 DEF Saved
      <4> QED BY <2>2, <4>1, <4>2 DEF Ordered
    <3> QED BY <2>1, <3>2, <3>3
  <2>5. c.at = "list" => g.at = "write1"
    BY <2>2
  <2> HIDE DEF g
  <2> QED BY <1>1, <1>3, <2>1, <2>2, <2>3, <2>4, <2>5, StoreStep
<1>7. CASE ListVersion(j)
  <2> DEFINE to == IF c.promote THEN "copy" ELSE "done"
             r == [c.read EXCEPT !.versions = @ \cup {v}]
             g == [c EXCEPT !.at = to, !.read = Empty]
  <2>1. /\ trn' = [trn EXCEPT ![j] = g] /\ c.at = "write1" /\ pkl' = pkl
        /\ mixed' = mixed /\ sec' = sec /\ reg' = r /\ active' = active
        /\ cache' = cache /\ loader' = loader
    BY <1>1, <1>7 DEF ListVersion, Writes, Promotes, Unread
  <2>2. g \in Run /\ g.at = to /\ g.vid = v /\ g.promote = c.promote /\ trn'[j] = g
    BY <1>1, <2>1 DEF Run, Stages
  <2>3. r \in Registry /\ r.versions = c.read.versions \cup {v} /\ r.active = c.read.active
    BY <1>1 DEF Registry
  <2>4. Underway(j)
    BY <2>1 DEF Underway
  <2> HIDE DEF g, r
  <2>5. ASSUME ~mixed' PROVE Ordered(j)' /\ Whole(reg)'
    <3>1. Short(c.read, v)
      BY <1>2, <2>1, <2>5 DEF Ordered
    <3>2. Whole(reg)' /\ v \in Saved'
      BY <2>1, <2>3, <3>1 DEF Short, Whole, Truth, Saved
    <3> QED BY <2>1, <2>2, <3>2 DEF Ordered
  <2> QED BY <1>1, <2>1, <2>2, <2>3, <2>4, <2>5, StoreStep
<1>8. CASE CopyOpen(j)
  <2> DEFINE g == [c EXCEPT !.at = "paste"]
  <2>1. /\ trn' = [trn EXCEPT ![j] = g] /\ c.at = "copy" /\ pkl' = pkl
        /\ mixed' = mixed /\ sec' = sec /\ reg' = reg /\ active' = Torn
        /\ cache' = cache /\ loader' = loader
    BY <1>1, <1>8 DEF CopyOpen, Step, Unread
  <2>2. g \in Run /\ g.at = "paste" /\ g.vid = v /\ g.promote = c.promote /\ trn'[j] = g
    BY <1>1, <2>1 DEF Run, Stages
  <2>3. Underway(j)
    BY <2>1 DEF Underway
  <2> HIDE DEF g
  <2>4. ASSUME ~mixed' PROVE Ordered(j)'
    <3>1. Whole(reg) /\ v \in Saved
      BY <1>2, <2>1, <2>4 DEF Ordered
    <3> QED BY <2>1, <2>2, <3>1 DEF Ordered, Whole, Saved
  <2> QED BY <1>1, <1>3, <2>1, <2>2, <2>3, <2>4, StoreStep
<1>9. CASE CopyWrite(j)
  <2> DEFINE g == [c EXCEPT !.at = "name"]
  <2>1. /\ trn' = [trn EXCEPT ![j] = g] /\ c.at = "paste" /\ pkl' = pkl
        /\ mixed' = mixed /\ sec' = sec /\ reg' = reg /\ active' = pkl[v]
        /\ cache' = cache /\ loader' = loader
    BY <1>1, <1>9 DEF CopyWrite, Step, Unread, PasteThenRead
  <2>2. g \in Run /\ g.at = "name" /\ g.vid = v /\ g.promote = c.promote /\ trn'[j] = g
    BY <1>1, <2>1 DEF Run, Stages
  <2>3. Underway(j) /\ Opened(j) /\ pkl[v] \in Files
    BY <1>1, <2>1 DEF Underway, Opened
  <2> HIDE DEF g
  <2>4. ASSUME ~mixed' PROVE Ordered(j)'
    <3>1. reg.versions = Saved /\ v \in Saved
      BY <1>2, <2>1, <2>4 DEF Ordered
    <3> QED BY <2>1, <2>2, <3>1 DEF Ordered, Saved
  <2> QED BY <1>1, <1>3, <2>1, <2>2, <2>3, <2>4, StoreStep
<1>10. CASE NameActive(j)
  <2> DEFINE r == [c.read EXCEPT !.active = v]
             g == [c EXCEPT !.at = "done", !.read = Empty]
  <2>1. /\ trn' = [trn EXCEPT ![j] = g] /\ c.at = "write2" /\ pkl' = pkl
        /\ mixed' = mixed /\ sec' = sec /\ reg' = r /\ active' = active
        /\ cache' = cache /\ loader' = loader
    BY <1>1, <1>10 DEF NameActive, Writes, Unread
  <2>2. g \in Run /\ g.at = "done" /\ g.vid = v /\ g.promote = c.promote /\ trn'[j] = g
    BY <1>1, <2>1 DEF Run, Stages
  <2>3. r \in Registry /\ r.versions = c.read.versions /\ r.active = v
    BY <1>1 DEF Registry
  <2>4. Underway(j)
    BY <2>1 DEF Underway
  <2> HIDE DEF g, r
  <2>5. ASSUME ~mixed' PROVE Ordered(j)' /\ Whole(reg)'
    <3>1. c.read.versions = Saved /\ v \in Saved /\ active = pkl[v]
      BY <1>2, <2>1, <2>5 DEF Ordered
    <3>2. Whole(reg)'
      BY <1>1, <2>1, <2>3, <3>1 DEF Whole, Truth, Saved
    <3> QED BY <2>1, <2>2, <3>2 DEF Ordered
  <2> QED BY <1>1, <2>1, <2>2, <2>3, <2>4, <2>5, StoreStep
<1> QED BY <1>4, <1>5, <1>6, <1>7, <1>8, <1>9, <1>10 DEF Training

\* The inductive invariant implies the property.
LEMMA SafeStore == StoreSafe => StoreInv
<1> SUFFICES ASSUME StoreSafe PROVE StoreInv
  OBVIOUS
<1>1. ServesPromoted
  BY DEF StoreSafe, Origins, Rightful, ServesPromoted, NamedAgain, Opened
<1>2. SequentialIsConsistent
  BY DEF StoreSafe, Alone, Whole, Truth, Saved, SequentialIsConsistent
<1> QED BY <1>1, <1>2 DEF StoreSafe, StoreInv

\* However calls to ingest overlap, fail and stop between their commits, every
\* candle before the watermark is in a registered file (services/data_ingester:
\* ingest_once; services/common/manifest.py: register_file, set_watermark).
THEOREM LedgerSound == Spec => []LedgerInv
<1>1. Init => LedgerSafe
  BY LedgerBegins DEF Init
<1>2. LedgerSafe /\ [Next]_vars => LedgerSafe'
  <2>1. [Next]_vars => [LedgerNext]_ledgerVars
    BY DEF Next, Ingesting, Modelling, Deciding, vars
  <2> QED BY <2>1, LedgerStays
<1>3. LedgerSafe => LedgerInv
  BY DEF LedgerSafe, LedgerInv, NoGap, Covered, Reaches
<1> QED BY <1>1, <1>2, <1>3, PTL DEF Spec

\* Whatever the nightly cycle does, the store stays safe.
LEMMA StoreKept == StoreSafe /\ [Next]_vars => StoreSafe'
<1> SUFFICES ASSUME StoreSafe, [Next]_vars PROVE StoreSafe'
  OBVIOUS
<1>1. CASE StoreNext \/ \E j \in Trainings : Retrain(j)
  BY <1>1, CacheSafe, FailsSafe, StartSafe, TrainingSafe DEF StoreNext, Retrain
<1>2. CASE UNCHANGED storeVars
  BY <1>2, CacheSafe
<1> QED BY <1>1, <1>2 DEF Next, Ingesting, Modelling, Deciding, vars

\* However trainings overlap, fail and share seconds, and whenever the service's
\* threads load, cache and clear: only a model whose training was asked to promote
\* it is served, unless it shares its name; and trainings one after the other
\* leave registry and files whole (model_store.py: save_model, promote_version;
\* inference.py: _load_model, reload_model).
THEOREM StoreSound == Spec => []StoreInv
<1>1. Init => StoreSafe
  BY StoreBegins DEF Init
<1> QED BY <1>1, StoreKept, SafeStore, PTL DEF Spec

-----------------------------------------------------------------------------
(* The engine beside the store.                                             *)

\* Trainings that will not open, and not fill, the active file any more.
LateStages   == {"name", "write2", "done", "dead"}
PastOpen == {j \in Trainings : trn[j].at \in LateStages \cup {"paste"}}
PastFill == {j \in Trainings : trn[j].at \in LateStages}
Changes == Cardinality(PastOpen) + Cardinality(PastFill)

EngineSafe ==
    /\ EngineTypeOK
    /\ \A h \in Subscribers : promoted[h] + (IF fresh THEN 1 ELSE 0) <= Changes

\* Stages are passed in one direction, and the file changes when one of the two is.
LEMMA StagesPass ==
    ASSUME StoreTypeOK, StoreNext \/ \E j \in Trainings : TrainStart(j)
    PROVE  /\ PastOpen \subseteq PastOpen' /\ PastFill \subseteq PastFill'
           /\ active' # active => PastOpen # PastOpen' \/ PastFill # PastFill'
<1> DEFINE Runs == [at: Stages, promote: BOOLEAN, vid: Secs, read: Registry]
<1>1. trn \in [Trainings -> Runs]
  BY DEF StoreTypeOK
<1>2. CASE UNCHANGED <<trn, active>>
  BY <1>2 DEF PastOpen, PastFill
<1>3. CASE MlCrash
  <2>1. UNCHANGED active /\ \A j \in Trainings : trn'[j].at \in {trn[j].at, "dead"}
    BY <1>1, <1>3 DEF MlCrash
  <2> QED BY <2>1 DEF PastOpen, PastFill, LateStages
<1>4. ASSUME NEW j \in Trainings, SaveFails(j) \/ Training(j) \/ TrainStart(j)
      PROVE  /\ PastOpen \subseteq PastOpen' /\ PastFill \subseteq PastFill'
             /\ active' # active => PastOpen # PastOpen' \/ PastFill # PastFill'
  <2>1. \A i \in Trainings \ {j} : trn'[i] = trn[i]
    BY <1>1, <1>4 DEF Training, SaveFails, TrainStart, SaveOpen, SaveWrite, ReadRegistry, ListVersion,
       CopyOpen, CopyWrite, NameActive, Writes, Step
  <2>2. CASE SaveFails(j) \/ SaveOpen(j) \/ SaveWrite(j) \/ TrainStart(j)
    <3>1. UNCHANGED active /\ trn[j].at \in {"idle", "open", "write"}
      BY <2>2 DEF SaveFails, SaveOpen, SaveWrite, TrainStart, Step
    <3> QED BY <2>1, <3>1 DEF PastOpen, PastFill, LateStages
  <2>3. CASE ReadRegistry(j)
    <3>1. /\ UNCHANGED active
          /\ \/ trn[j].at = "list"
             \/ trn[j].at = "name" /\ trn'[j].at = "write2"
      BY <1>1, <2>3 DEF ReadRegistry
    <3> QED BY <2>1, <3>1 DEF PastOpen, PastFill, LateStages
  <2>4. CASE ListVersion(j)
    <3>1. UNCHANGED active /\ trn[j].at = "write1"
      BY <2>4 DEF ListVersion, Writes
    <3> QED BY <2>1, <3>1 DEF PastOpen, PastFill, LateStages
  <2>5. CASE NameActive(j)
    <3>1. UNCHANGED active /\ trn[j].at = "write2" /\ trn'[j].at = "done"
      BY <1>1, <2>5 DEF NameActive, Writes
    <3> QED BY <2>1, <3>1 DEF PastOpen, PastFill, LateStages
  <2>6. CASE CopyOpen(j)
    <3>1. trn[j].at = "copy" /\ trn'[j].at = "paste"
      BY <1>1, <2>6 DEF CopyOpen, Step
    <3>2. j \in PastOpen' /\ j \notin PastOpen
      BY <3>1 DEF PastOpen, LateStages
    <3> QED BY <2>1, <3>1, <3>2 DEF PastOpen, PastFill, LateStages
  <2>7. CASE CopyWrite(j)
    <3>1. trn[j].at = "paste" /\ trn'[j].at = "name"
      BY <1>1, <2>7 DEF CopyWrite, Step, PasteThenRead
    <3>2. j \in PastFill' /\ j \notin PastFill
      BY <3>1 DEF PastFill, LateStages
    <3> QED BY <2>1, <3>1, <3>2 DEF PastOpen, PastFill, LateStages
  <2> QED BY <1>4, <2>2, <2>3, <2>4, <2>5, <2>6, <2>7 DEF Training
<1>5. SecondPasses \/ CacheNext => UNCHANGED <<trn, active>>
  BY DEF SecondPasses, CacheNext, WatchdogReloads, Request, CacheCheck, CacheLoad, CacheStore, Idle
<1> QED BY <1>2, <1>3, <1>4, <1>5 DEF StoreNext

\* The files' changes that can still be told are at most two for each training.
LEMMA ChangesCount ==
    /\ Changes \in Nat /\ Changes <= 2 * Cardinality(Trainings) /\ Cardinality(Trainings) \in Nat
<1>1. IsFiniteSet(PastOpen) /\ IsFiniteSet(PastFill)
  BY CycleAssumption, FS_Subset DEF PastOpen, PastFill
<1>2. Cardinality(PastOpen) <= Cardinality(Trainings) /\ Cardinality(PastFill) <= Cardinality(Trainings)
  BY CycleAssumption, FS_Subset DEF PastOpen, PastFill
<1>3. Cardinality(PastOpen) \in Nat /\ Cardinality(PastFill) \in Nat /\ Cardinality(Trainings) \in Nat
  BY <1>1, CycleAssumption, FS_CardinalityType
<1> QED BY <1>2, <1>3 DEF Changes

\* The watcher tells of every change at most once.
LEMMA EngineKept ==
    ASSUME StoreTypeOK, EngineSafe, [Next]_vars PROVE EngineSafe'
<1>1. /\ fresh \in BOOLEAN /\ promoted \in [Subscribers -> 0..2 * Cardinality(Trainings)]
      /\ loaded \in EngineModels
      /\ \A h \in Subscribers : promoted[h] + (IF fresh THEN 1 ELSE 0) <= Changes
  BY DEF EngineSafe, EngineTypeOK
<1>2. IsFiniteSet(PastOpen) /\ IsFiniteSet(PastFill) /\ IsFiniteSet(PastOpen') /\ IsFiniteSet(PastFill')
  BY CycleAssumption, FS_Subset DEF PastOpen, PastFill
<1>3. Changes \in Nat /\ Changes' \in Nat
  BY <1>2, FS_CardinalityType DEF Changes
<1>4. CASE Modelling
  <2>1. /\ StoreNext \/ \E j \in Trainings : TrainStart(j)
        /\ fresh' = (fresh \/ active' # active) /\ UNCHANGED <<promoted, loaded>>
    BY <1>4 DEF Modelling, Retrain, FileTouched
  <2>2. /\ PastOpen \subseteq PastOpen' /\ PastFill \subseteq PastFill'
        /\ active' # active => PastOpen # PastOpen' \/ PastFill # PastFill'
    BY <2>1, StagesPass
  <2>3. /\ Cardinality(PastOpen) <= Cardinality(PastOpen')
        /\ PastOpen # PastOpen' => Cardinality(PastOpen) # Cardinality(PastOpen')
    BY <1>2, <2>2, FS_Subset
  <2>4. /\ Cardinality(PastFill) <= Cardinality(PastFill')
        /\ PastFill # PastFill' => Cardinality(PastFill) # Cardinality(PastFill')
    BY <1>2, <2>2, FS_Subset
  <2>5. Changes <= Changes' /\ (active' # active => Changes + 1 <= Changes')
    <3>1. /\ Cardinality(PastOpen) \in Nat /\ Cardinality(PastOpen') \in Nat
          /\ Cardinality(PastFill) \in Nat /\ Cardinality(PastFill') \in Nat
      BY <1>2, FS_CardinalityType
    <3> QED BY <2>2, <2>3, <2>4, <3>1 DEF Changes
  <2>6. ASSUME NEW h \in Subscribers
        PROVE  promoted'[h] + (IF fresh' THEN 1 ELSE 0) <= Changes'
    <3>1. promoted'[h] \in Nat /\ promoted'[h] + (IF fresh THEN 1 ELSE 0) <= Changes
      BY <1>1, <2>1
    <3>2. CASE active' = active
      <4>1. fresh' <=> fresh
        BY <2>1, <3>2
      <4> QED BY <1>3, <2>5, <3>1, <4>1
    <3>3. CASE active' # active
      BY <1>3, <2>5, <3>1, <3>3
    <3> QED BY <3>2, <3>3
  <2>7. fresh' \in BOOLEAN
    BY <2>1, Zenon
  <2> QED BY <1>1, <2>1, <2>6, <2>7 DEF EngineSafe, EngineTypeOK
<1>5. [Next]_vars => Modelling \/ (UNCHANGED storeVars /\ (EngineNext \/ UNCHANGED engineVars))
  BY DEF Next, Ingesting, Deciding, vars
<1>6. CASE UNCHANGED storeVars /\ (EngineNext \/ UNCHANGED engineVars)
  <2>1. UNCHANGED <<trn, active>>
    BY <1>6 DEF storeVars
  <2>2. Changes' = Changes
    BY <2>1 DEF Changes, PastOpen, PastFill
  <2>3. Changes <= 2 * Cardinality(Trainings) /\ Cardinality(Trainings) \in Nat
    BY ChangesCount
  <2>4. ASSUME Probe PROVE EngineSafe'
    <3>1. fresh /\ fresh' = FALSE /\ promoted' = [h \in Subscribers |-> promoted[h] + 1] /\ UNCHANGED loaded
      BY <2>4 DEF Probe
    <3>2. \A h \in Subscribers : promoted'[h] \in 0..2 * Cardinality(Trainings) /\ promoted'[h] <= Changes'
      BY <1>1, <1>3, <2>2, <2>3, <3>1
    <3>3. promoted' \in [Subscribers -> 0..2 * Cardinality(Trainings)]
      BY <3>1, <3>2
    <3>4. fresh' \in BOOLEAN /\ ~fresh'
      BY <3>1, Zenon
    <3>5. \A h \in Subscribers : promoted'[h] + (IF fresh' THEN 1 ELSE 0) <= Changes'
      BY <1>3, <3>2, <3>4
    <3> QED BY <1>1, <3>1, <3>3, <3>4, <3>5 DEF EngineSafe, EngineTypeOK
  <2>5. ASSUME NEW h \in Subscribers, Reload(h) PROVE EngineSafe'
    <3>1. promoted[h] > 0 /\ promoted' = [promoted EXCEPT ![h] = @ - 1] /\ loaded' = None /\ fresh' = fresh
      BY <2>5 DEF Reload, Reloaded
    <3>2. \A g \in Subscribers : promoted'[g] \in 0..2 * Cardinality(Trainings) /\ promoted'[g] <= promoted[g]
      BY <1>1, <2>3, <3>1
    <3>3. promoted' \in [Subscribers -> 0..2 * Cardinality(Trainings)]
      BY <1>1, <3>1, <3>2
    <3>4. fresh' \in BOOLEAN /\ (fresh' <=> fresh)
      BY <1>1, <3>1, Zenon
    <3>5. \A g \in Subscribers : promoted'[g] + (IF fresh' THEN 1 ELSE 0) <= Changes'
      BY <1>1, <1>3, <2>2, <3>2, <3>4
    <3>6. loaded' \in EngineModels
      BY <3>1 DEF EngineModels
    <3> QED BY <3>3, <3>4, <3>5, <3>6 DEF EngineSafe, EngineTypeOK
  <2>6. ASSUME Decide PROVE EngineSafe'
    <3>1. /\ loaded' = (IF active = None THEN "shipped" ELSE active) /\ active # Torn
          /\ UNCHANGED <<fresh, promoted>>
      BY <2>6 DEF Decide
    <3>2. loaded' \in EngineModels
      BY <3>1 DEF EngineModels, StoreTypeOK, Files
    <3> QED BY <2>2, <3>1, <3>2 DEF EngineSafe, EngineTypeOK
  <2>7. ASSUME UNCHANGED engineVars PROVE EngineSafe'
    BY <2>2, <2>7 DEF engineVars, EngineSafe, EngineTypeOK
  <2> QED BY <1>6, <2>4, <2>5, <2>6, <2>7 DEF EngineNext
<1> QED BY <1>4, <1>5, <1>6

\* However many trainings change the active file, each of its changes is told of at
\* most once, and no subscriber of model.promoted has more events before it than
\* the trainings can make changes (services/model_watcher.py: _probe_paths;
\* strategies/policy_hmm.py: reload_model).
THEOREM EngineSound == Spec => []EngineTypeOK
<1>1. Init => StoreSafe /\ EngineSafe
  <2> SUFFICES ASSUME Init PROVE StoreSafe /\ EngineSafe
    OBVIOUS
  <2>1. fresh = FALSE /\ promoted = [h \in Subscribers |-> 0] /\ loaded \in {None, "down"}
    BY DEF Init, EngineInit
  <2>2. fresh \in BOOLEAN /\ ~fresh
    BY <2>1, Zenon
  <2>3. Changes \in Nat /\ Cardinality(Trainings) \in Nat
    BY ChangesCount
  <2>4. EngineTypeOK
    BY <2>1, <2>2, <2>3 DEF EngineTypeOK, EngineModels
  <2>5. \A h \in Subscribers : promoted[h] + (IF fresh THEN 1 ELSE 0) <= Changes
    BY <2>1, <2>2, <2>3
  <2> QED BY <2>4, <2>5, StoreBegins DEF Init, EngineSafe
<1>2. StoreSafe /\ EngineSafe /\ [Next]_vars => EngineSafe'
  BY EngineKept DEF StoreSafe
<1>3. EngineSafe => EngineTypeOK
  BY DEF EngineSafe
<1>4. StoreSafe /\ [Next]_vars => StoreSafe'
  BY StoreKept
<1> QED BY <1>1, <1>2, <1>3, <1>4, PTL DEF Spec
=============================================================================
