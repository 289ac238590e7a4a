------------------------------- MODULE DataLedger -------------------------------
(***************************************************************************)
(* DataLedger: POST /ingest_once of the data ingester and the SQLite ledger  *)
(* of downloaded files (services/common/manifest.py), for one symbol.        *)
(*                                                                         *)
(* Candles are numbered; the last one is open and changes with the market.   *)
(* A call reads the watermark, fetches a batch from there, writes it under a  *)
(* name made of its first and last candle, registers the file by its hash,    *)
(* and either advances the watermark or, for a known hash, removes the file.  *)
(* The calls run in a thread pool, each statement commits on its own, and a   *)
(* stop or an error may come between any two.  claim_unprocessed, requeue,    *)
(* mark_processed and _delete_file_by_id have no caller and are left out.     *)
(***************************************************************************)
EXTENDS Integers, FiniteSets

CONSTANTS Jobs,         \* the callers: runs of the nightly script, or operators
          LastCandle, LastRev,
          Batch         \* BATCH_LIMIT

ASSUME LedgerAssumption == LastCandle \in Nat \ {0} /\ LastRev \in Nat /\ Batch \in Nat \ {0}

VARIABLES
    now,      \* the open candle
    rev,      \* how often each candle has changed
    mark,     \* the watermark: the first candle not downloaded yet
    ledger,   \* the rows of table files
    disk,     \* the files in the landing directory
    ing       \* the calls

ledgerVars == <<now, rev, mark, ledger, disk, ing>>

\* A batch, identified as the hash does: by its range and its last candle's state.
Candles == 1..LastCandle
Batches == [from: Candles, to: Candles, last: 0..LastRev]
NoBatch == [from |-> 0, to |-> 0, last |-> 0]
SamePath(a, b) == a.from = b.from /\ a.to = b.to

Phases == {"idle", "fetch", "write", "register", "mark", "drop", "done", "dead"}

LedgerTypeOK ==
    /\ now \in Candles /\ rev \in [Candles -> 0..LastRev]
    /\ mark \in 1..LastCandle + 1
    /\ ledger \subseteq Batches /\ disk \subseteq Batches
    /\ \A a, b \in disk : SamePath(a, b) => a = b
    /\ ing \in [Jobs -> [at: Phases, since: 0..LastCandle + 1, rows: Batches \cup {NoBatch}]]

LedgerInit ==
    /\ now = 1 /\ rev = [k \in Candles |-> 0]
    /\ mark = 1 /\ ledger = {} /\ disk = {}
    /\ ing = [j \in Jobs |-> [at |-> "idle", since |-> 0, rows |-> NoBatch]]

At(j, p) == ing[j].at = p
Ing(j, p) == ing' = [ing EXCEPT ![j].at = p]

-----------------------------------------------------------------------------
(* The exchange.                                                             *)

CandleTrades ==
    /\ rev[now] < LastRev
    /\ rev' = [rev EXCEPT ![now] = @ + 1]
    /\ UNCHANGED <<now, mark, ledger, disk, ing>>

CandleCloses ==
    /\ now < LastCandle
    /\ now' = now + 1
    /\ UNCHANGED <<rev, mark, ledger, disk, ing>>

-----------------------------------------------------------------------------
(* ingest_once.                                                              *)

IngestStart(j) ==
    /\ At(j, "idle")
    /\ ing' = [ing EXCEPT ![j].at = "fetch", ![j].since = mark]
    /\ UNCHANGED <<now, rev, mark, ledger, disk>>

\* fetch_ohlcv: an empty batch ends the call.
IngestFetch(j) ==
    LET since == ing[j].since
        to    == IF since + Batch - 1 < now THEN since + Batch - 1 ELSE now
    IN  /\ At(j, "fetch")
        /\ ing' = IF since > now
                  THEN [ing EXCEPT ![j].at = "done"]
                  ELSE [ing EXCEPT ![j].at = "write",
                                   ![j].rows = [from |-> since, to |-> to, last |-> rev[to]]]
        /\ UNCHANGED <<now, rev, mark, ledger, disk>>

IngestWrite(j) ==
    LET rows == ing[j].rows
    IN  /\ At(j, "write")
        /\ disk' = {f \in disk : ~SamePath(f, rows)} \cup {rows}
        /\ Ing(j, "register")
        /\ UNCHANGED <<now, rev, mark, ledger>>

\* register_file hashes what is under the path by now: another call may have
\* written it again, or removed it, which ends the call with an error.
OnDisk(rows) == {f \in disk : SamePath(f, rows)}

IngestRegister(j) ==
    LET found == OnDisk(ing[j].rows)
    IN  /\ At(j, "register")
        /\ ledger' = ledger \cup found
        /\ Ing(j, IF found = {} THEN "done" ELSE IF found \subseteq ledger THEN "drop" ELSE "mark")
        /\ UNCHANGED <<now, rev, mark, disk>>

\* Wrong variant: the watermark jumps over a whole batch, full or not.
MarkPastBatch(j) == ing[j].rows.from + Batch
MarkPastRows(j)  == ing[j].rows.to + 1

IngestMark(j) ==
    /\ At(j, "mark")
    /\ mark' = MarkPastRows(j)
    /\ Ing(j, "done")
    /\ UNCHANGED <<now, rev, ledger, disk>>

\* The content is known already: the file goes, and the watermark stays.
IngestDrop(j) ==
    /\ At(j, "drop")
    /\ disk' = disk \ OnDisk(ing[j].rows)
    /\ Ing(j, "done")
    /\ UNCHANGED <<now, rev, mark, ledger>>

\* The exchange, the file system or a locked database ends the call.
IngestFails(j) ==
    /\ ing[j].at \in {"fetch", "write", "register", "mark"}
    /\ Ing(j, "done")
    /\ UNCHANGED <<now, rev, mark, ledger, disk>>

\* The service stops and starts: its callers see the connection fail.
IngesterCrash ==
    /\ \E j \in Jobs : ing[j].at \notin {"idle", "done", "dead"}
    /\ ing' = [j \in Jobs |-> IF ing[j].at \in {"idle", "done", "dead"} THEN ing[j]
                              ELSE [ing[j] EXCEPT !.at = "dead"]]
    /\ UNCHANGED <<now, rev, mark, ledger, disk>>

LedgerNext ==
    \/ CandleTrades \/ CandleCloses \/ IngesterCrash
    \/ \E j \in Jobs :
        \/ IngestStart(j) \/ IngestFetch(j) \/ IngestWrite(j) \/ IngestRegister(j)
        \/ IngestMark(j) \/ IngestDrop(j) \/ IngestFails(j)

-----------------------------------------------------------------------------
(* Properties.                                                               *)

\* Every candle before the watermark is in a registered file, although calls
\* overlap, move the watermark back, and stop between their commits.
Covered(n) == \A k \in 1..n - 1 : \E f \in ledger : f.from <= k /\ k <= f.to
NoGap      == Covered(mark)

\* The ledger is typed and covers what the watermark says.
LedgerInv == LedgerTypeOK /\ NoGap
=============================================================================
