----------------------------- MODULE CandleStore -----------------------------
(***************************************************************************)
(* The candles of a coin in the database, and who writes them: the threads *)
(* that update one time frame each when a coin worker starts, the worker   *)
(* itself, which then updates and loads the frames one by one              *)
(* (src/src/coin_worker.rs), and the commands roll-back, fix-gaps and      *)
(* reset, run while no worker is (src/src/main.rs).  All of them go        *)
(* through src/src/candle_manager.rs and src/src/database.rs.              *)
(*                                                                         *)
(* A candle is its number; it is open for CandleTicks ticks, and a row     *)
(* holds as many ticks of it as had passed when it was downloaded.         *)
(***************************************************************************)
EXTENDS Integers, Sequences, FiniteSets, FiniteSetsExt

CONSTANTS
    StoreFrames,    \* sequence of the configured frames, in the loading order
    CandleTicks,    \* ticks a candle is open
    ChunkSize,      \* CHUNK_SIZE, the candles of a request
    InitialCandles, \* initial_number_of_candles
    MinCandles,     \* the least of FIB_SEQUENCE
    RecentOnly,     \* recent_candles_only
    Rows0,          \* candles in the table of each frame at the start
    MaxClock,       \* bound: the length of a behaviour in ticks
    MaxBreaks       \* bound: failed requests, crashes and commands

VARIABLES
    clock,      \* the time of the exchange
    table,      \* candles_<symbol>: the rows of each frame by candle number
    fetcher,    \* the fetch a thread, or the worker, is at
    stage,      \* of the coin worker
    loaded,     \* the rows the worker has pushed into the series of a frame
    asOf,       \* the clock when the worker last asked for the frame's candles
    breaks,     \* failures so far
    shared      \* the frames two threads have downloaded at once

storeVars == <<clock, table, fetcher, stage, loaded, asOf, breaks, shared>>

FrameSet == {StoreFrames[i] : i \in DOMAIN StoreFrames}
Loader == "worker"

ASSUME StoreAssumption ==
    /\ ChunkSize \in Nat \ {0, 1} /\ CandleTicks \in Nat \ {0}
    /\ InitialCandles \in Nat /\ MinCandles \in Nat \ {0} /\ Rows0 \in Nat
    /\ MaxClock \in Nat /\ MaxBreaks \in Nat /\ RecentOnly \in BOOLEAN
    /\ StoreFrames \in Seq(FrameSet)
    /\ \A i, j \in DOMAIN StoreFrames : i # j => StoreFrames[i] # StoreFrames[j]

-----------------------------------------------------------------------------
(* The rows of a frame, by candle number. *)
WholeRow == [ticks |-> CandleTicks, final |-> TRUE]
NoRows == [n \in {} |-> WholeRow]
NewestRow(rows) == Max(DOMAIN rows)
OldestRow(rows) == Min(DOMAIN rows)
KeepRows(rows, S) == [n \in DOMAIN rows \cap S |-> rows[n]]

(* What has become of a frame that is loaded. *)
NotLoaded == [how |-> "not yet", rows |-> NoRows]
Skipped == [how |-> "skipped", rows |-> NoRows]
Loaded(rows) == [how |-> "loaded", rows |-> rows]

OpenOf(n) == n * CandleTicks

(* What the exchange would answer now, and what a candle holds when it ends. *)
RowNow(n) ==
    [ticks |-> IF clock - OpenOf(n) + 1 < CandleTicks THEN clock - OpenOf(n) + 1 ELSE CandleTicks,
     final |-> TRUE]

-----------------------------------------------------------------------------
(* database.rs *)

(* upsert_candle: a row of the same open time is replaced. *)
Upsert(f, n, row) ==
    [table EXCEPT ![f] = [m \in DOMAIN table[f] \cup {n} |-> IF m = n THEN row ELSE table[f][m]]]

(* get_recent_candles: the last n. *)
RecentRows(rows, n) ==
    KeepRows(rows, {m \in DOMAIN rows : Cardinality({k \in DOMAIN rows : k > m}) < n})

(* rollback_coin: whatever frame it is asked for, it deletes the rows of
   every frame that open after the threshold.                              *)
RolledBack(period, fromMostRecent) ==
    LET opens == UNION {DOMAIN table[f] : f \in FrameSet}
        start == IF fromMostRecent THEN OpenOf(Max(opens)) ELSE clock
    IN  [f \in FrameSet |-> KeepRows(table[f], {n \in opens : OpenOf(n) <= start - period})]

-----------------------------------------------------------------------------
(* candle_manager.rs *)

(* inspect *)
TableState(f) ==
    CASE DOMAIN table[f] = {} -> "Empty"
      [] DOMAIN table[f] # {} /\ clock - OpenOf(NewestRow(table[f])) < CandleTicks -> "Actual"
      [] OTHER -> "Outdated"

FetchJob(kind, f, start, end) == [kind |-> kind, frame |-> f, start |-> start, end |-> end]

(* fetch_initial counts the rows of every frame of the coin before it starts. *)
InitialJob(f) == FetchJob(IF DOMAIN table[f] = {} THEN "initial" ELSE "known", f, 0, 0)
UpdatesJob(f) == FetchJob("updates", f, 0, 0)
InitialJobs == [i \in DOMAIN StoreFrames |-> InitialJob(StoreFrames[i])]

IdleFetcher == [pc |-> "idle", jobs |-> <<>>, start |-> 0, end |-> 0, batch |-> NoRows, full |-> FALSE]

(* Mutant: a frame that has candles is not updated. *)
FetchInitialOnly(f) == InitialJobs

(* Mutant: the initial candles are fetched for a frame that has some. *)
FetchInitialAlways(f) ==
    [i \in DOMAIN StoreFrames |-> FetchJob("initial", StoreFrames[i], 0, 0)]
    \o (IF RecentOnly THEN <<>> ELSE <<UpdatesJob(f)>>)

(* fetch: what is empty, and then the frame it was called for; nothing is
   updated with recent_candles_only.                                       *)
FetchJobs(f) == InitialJobs \o (IF RecentOnly THEN <<>> ELSE <<UpdatesJob(f)>>)

(* The frames these jobs download. *)
Downloads(jobs) == {jobs[i].frame : i \in {j \in DOMAIN jobs : jobs[j].kind # "known"}}

(* find_gaps, and the requests of fix_gaps: a candle more on either side. *)
GapJobs(f) ==
    LET rows == DOMAIN table[f]
        gaps == {n \in rows : n + 1 \notin rows /\ n # NewestRow(table[f])}
        Gap(i) == CHOOSE n \in gaps : Cardinality({m \in gaps : m < n}) = i - 1
    IN  [i \in 1 .. Cardinality(gaps) |->
            FetchJob("range", f, OpenOf(Gap(i) - 1), OpenOf(Min({m \in rows : m > Gap(i)}) + 1))]

(* fetch_klines: the first candles of the range, as they are now. *)
KlinesBetween(start, end) ==
    LET open == {n \in 0 .. clock : start <= OpenOf(n) /\ OpenOf(n) <= end /\ OpenOf(n) <= clock}
    IN  [n \in {m \in open : m < Min(open) + ChunkSize} |-> RowNow(n)]

(* The request was answered with CHUNK_SIZE candles. *)
IsFull(batch) == OldestRow(batch) + ChunkSize - 1 \in DOMAIN batch

(* The start of the next request, at the last candle of this one, which is
   downloaded again.                                                       *)
NextStart(batch) == OpenOf(NewestRow(batch))

SetFetcher(p, new) == fetcher' = [fetcher EXCEPT ![p] = new]

(* fetch_initial, fetch_updates or a range of fix_gaps begins, and a frame that
   has rows is passed over by fetch_initial.  The start of
   an initial download is counted from now; fetch_updates fails on an empty
   table, and asks for two candles more than there are.                     *)
BeginJob(p) ==
    /\ fetcher[p].pc = "next" /\ fetcher[p].jobs # <<>>
    /\ LET job == Head(fetcher[p].jobs)
           asks == [fetcher[p] EXCEPT !.pc = "request"]
       IN \/ /\ job.kind = "known"
             /\ SetFetcher(p, [fetcher[p] EXCEPT !.jobs = Tail(@)])
          \/ /\ job.kind = "initial"
             /\ SetFetcher(p, [asks EXCEPT !.start = clock - InitialCandles * CandleTicks, !.end = MaxClock])
          \/ /\ job.kind = "updates"
             /\ SetFetcher(p,
                    IF DOMAIN table[job.frame] = {}
                    THEN [fetcher[p] EXCEPT !.pc = "failed", !.jobs = <<>>]
                    ELSE [asks EXCEPT !.start = OpenOf(NewestRow(table[job.frame])),
                                      !.end = clock + 2 * CandleTicks])
          \/ /\ job.kind = "range"
             /\ SetFetcher(p, [asks EXCEPT !.start = job.start, !.end = job.end])
    /\ UNCHANGED <<clock, table, stage, loaded, asOf, breaks, shared>>

(* fetch_and_store_candles_between: the exchange answers a request. *)
AnswerRequest(p) ==
    /\ fetcher[p].pc = "request"
    /\ \E batch \in {KlinesBetween(fetcher[p].start, fetcher[p].end)} :
        SetFetcher(p,
            IF DOMAIN batch = {} THEN [fetcher[p] EXCEPT !.pc = "next", !.jobs = Tail(@)]
            ELSE [fetcher[p] EXCEPT !.pc = "mark", !.batch = batch, !.start = NextStart(batch),
                                    !.full = IsFull(batch)])
    /\ UNCHANGED <<clock, table, stage, loaded, asOf, breaks, shared>>

(* The request fails: the fetch returns the error, and what has been stored
   stays.                                                                  *)
RequestFails(p) ==
    /\ fetcher[p].pc = "request" /\ breaks < MaxBreaks
    /\ breaks' = breaks + 1
    /\ SetFetcher(p, [IdleFetcher EXCEPT !.pc = "failed"])
    /\ UNCHANGED <<clock, table, stage, loaded, asOf, shared>>

(* The last candle is marked as open if it still is by now. *)
MarkNewest(p) ==
    /\ fetcher[p].pc = "mark"
    /\ SetFetcher(p, [fetcher[p] EXCEPT
                !.pc = "store",
                !.batch[NewestRow(fetcher[p].batch)].final =
                    clock - OpenOf(NewestRow(fetcher[p].batch)) >= CandleTicks])
    /\ UNCHANGED <<clock, table, stage, loaded, asOf, breaks, shared>>

(* One upsert; after the last of a chunk the download goes on unless the
   chunk was short or its last candle is still open.                       *)
StoreRow(p) ==
    /\ fetcher[p].pc = "store"
    /\ \E n \in {OldestRow(fetcher[p].batch)} :
       \E rest \in {KeepRows(fetcher[p].batch, {m \in DOMAIN fetcher[p].batch : m > n})} :
        /\ table' = Upsert(Head(fetcher[p].jobs).frame, n, fetcher[p].batch[n])
        /\ \/ DOMAIN rest # {} /\ SetFetcher(p, [fetcher[p] EXCEPT !.batch = rest])
           \/ /\ DOMAIN rest = {} /\ fetcher[p].full /\ clock - OpenOf(n) >= CandleTicks
              /\ SetFetcher(p, [fetcher[p] EXCEPT !.pc = "request", !.batch = rest])
           \/ /\ DOMAIN rest = {} /\ (~fetcher[p].full \/ clock - OpenOf(n) < CandleTicks)
              /\ SetFetcher(p, [fetcher[p] EXCEPT !.pc = "next", !.jobs = Tail(@), !.batch = rest])
    /\ UNCHANGED <<clock, stage, loaded, asOf, breaks, shared>>

FinishJobs(p) ==
    /\ fetcher[p].pc = "next" /\ fetcher[p].jobs = <<>>
    /\ SetFetcher(p, [IdleFetcher EXCEPT !.pc = "done"])
    /\ UNCHANGED <<clock, table, stage, loaded, asOf, breaks, shared>>

(* fetch is called for frame f. *)
FetchFrame(p, f) ==
    /\ SetFetcher(p, [IdleFetcher EXCEPT !.pc = "next", !.jobs = FetchJobs(f)])
    /\ shared' = shared \cup
        {g \in Downloads(FetchJobs(f)) :
            \E q \in DOMAIN fetcher \ {p} : g \in Downloads(fetcher[q].jobs)}

-----------------------------------------------------------------------------
(* coin_worker.rs *)

Resting == [p \in FrameSet \cup {Loader} |-> IdleFetcher]

StoreInit ==
    /\ clock = Rows0 * CandleTicks
    /\ \E known \in SUBSET FrameSet :
        table = [f \in FrameSet |-> IF f \in known THEN [n \in 0 .. Rows0 - 1 |-> WholeRow] ELSE NoRows]
    /\ fetcher = Resting
    /\ stage = "down"
    /\ loaded = [f \in FrameSet |-> NotLoaded]
    /\ asOf = [f \in FrameSet |-> 0]
    /\ breaks = 0
    /\ shared = {}

StoreTick ==
    /\ clock < MaxClock
    /\ clock' = clock + 1
    /\ UNCHANGED <<table, fetcher, stage, loaded, asOf, breaks, shared>>

(* The worker starts, with a thread for each frame. *)
StartWorker ==
    /\ stage = "down"
    /\ stage' = "updating"
    /\ UNCHANGED <<clock, table, fetcher, loaded, asOf, breaks, shared>>

ThreadFetches(f) ==
    /\ stage = "updating" /\ fetcher[f].pc = "idle"
    /\ FetchFrame(f, f)
    /\ UNCHANGED <<clock, table, stage, loaded, asOf, breaks>>

(* The threads are joined; what one of them failed at is only logged. *)
JoinThreads ==
    /\ stage = "updating"
    /\ \A f \in FrameSet : fetcher[f].pc \in {"done", "failed"}
    /\ stage' = "loading"
    /\ fetcher' = Resting
    /\ UNCHANGED <<clock, table, loaded, asOf, breaks, shared>>

Remaining == {i \in DOMAIN StoreFrames : loaded[StoreFrames[i]] = NotLoaded}
NextFrame == StoreFrames[Min(Remaining)]

(* "Updating this timeframe right before fetching candles" *)
WorkerFetches ==
    /\ stage = "loading" /\ fetcher[Loader].pc = "idle" /\ Remaining # {}
    /\ FetchFrame(Loader, NextFrame)
    /\ asOf' = [asOf EXCEPT ![NextFrame] = clock]
    /\ UNCHANGED <<clock, table, stage, loaded, breaks>>

(* max_period of FIB_SEQUENCE is at least MinCandles or there is none, and
   the frame is skipped; here all the rows that period allows are loaded.   *)
LoadFrame ==
    /\ stage = "loading" /\ fetcher[Loader].pc = "done"
    /\ \E f \in {NextFrame} : \E count \in {Cardinality(DOMAIN table[f])} :
            loaded' = [loaded EXCEPT ![f] = IF count < MinCandles THEN Skipped
                                            ELSE Loaded(RecentRows(table[f], count))]
    /\ fetcher' = Resting
    /\ UNCHANGED <<clock, table, stage, asOf, breaks, shared>>

(* What is not in the database is lost with the worker. *)
Forgotten ==
    /\ fetcher' = Resting
    /\ loaded' = [f \in FrameSet |-> NotLoaded]
    /\ asOf' = [f \in FrameSet |-> 0]

(* An error of the worker's own fetch ends it. *)
WorkerFails ==
    /\ stage = "loading" /\ fetcher[Loader].pc = "failed"
    /\ stage' = "down" /\ Forgotten
    /\ UNCHANGED <<clock, table, breaks, shared>>

GoLive ==
    /\ stage = "loading" /\ Remaining = {}
    /\ stage' = "live"
    /\ UNCHANGED <<clock, table, fetcher, loaded, asOf, breaks, shared>>

(* A kline, or a trade, for which the coin has no series ends the worker:
   Coin::push_candle and push_trade return an error that is unwrapped.      *)
SkippedFramePanics ==
    /\ stage = "live" /\ \E f \in FrameSet : loaded[f].how = "skipped"
    /\ stage' = "panicked"
    /\ UNCHANGED <<clock, table, fetcher, loaded, asOf, breaks, shared>>

(* The program is stopped, at any point. *)
StopProgram ==
    /\ stage # "down" /\ breaks < MaxBreaks
    /\ breaks' = breaks + 1
    /\ stage' = "down" /\ Forgotten
    /\ UNCHANGED <<clock, table, shared>>

-----------------------------------------------------------------------------
(* main.rs: the commands.  A frame that holds candles written by two threads
   is so until it is reset.                                                *)

(* command_rollback: a thread for each frame, and each rolls all of them back,
   by a candle, from the one that is the most recent by then or from now.    *)
RollbackCoin(fromMostRecent) ==
    /\ stage = "down" /\ breaks < MaxBreaks
    /\ breaks' = breaks + 1
    /\ stage' = "rollback"
    /\ fetcher' = [p \in FrameSet \cup {Loader} |->
                    [IdleFetcher EXCEPT !.pc = IF p = Loader THEN "done" ELSE "roll", !.full = fromMostRecent]]
    /\ UNCHANGED <<clock, table, loaded, asOf, shared>>

ThreadRollsBack(f) ==
    /\ stage = "rollback" /\ fetcher[f].pc = "roll"
    /\ fetcher[f].full => \E g \in FrameSet : DOMAIN table[g] # {}
    /\ table' = RolledBack(CandleTicks, fetcher[f].full)
    /\ SetFetcher(f, [fetcher[f] EXCEPT !.pc = "done"])
    /\ UNCHANGED <<clock, stage, loaded, asOf, breaks, shared>>

(* The most recent row is read into a time that is neither empty nor of a time
   zone, and the thread panics where the table is empty or the driver minds;
   where the driver minds the threshold, the deletion is an error, and logged. *)
RollbackFails(f) ==
    /\ stage = "rollback" /\ fetcher[f].pc = "roll"
    /\ SetFetcher(f, [IdleFetcher EXCEPT !.pc = IF fetcher[f].full THEN "failed" ELSE "done"])
    /\ UNCHANGED <<clock, table, stage, loaded, asOf, breaks, shared>>

(* command_reset_timeframes: reset of the named frames. *)
ResetFrames(F) ==
    /\ stage = "down" /\ breaks < MaxBreaks
    /\ breaks' = breaks + 1
    /\ table' = [f \in FrameSet |-> IF f \in F THEN NoRows ELSE table[f]]
    /\ shared' = shared \ F
    /\ UNCHANGED <<clock, fetcher, stage, loaded, asOf>>

(* A command that downloads: these jobs one after the other, until one fails. *)
RunCommand(jobs) ==
    /\ stage = "down" /\ Downloads(jobs) # {}
    /\ stage' = "command"
    /\ SetFetcher(Loader, [IdleFetcher EXCEPT !.pc = "next", !.jobs = jobs])
    /\ UNCHANGED <<clock, table, loaded, asOf, breaks, shared>>

(* command_fix_gaps, of one frame. *)
FixGaps(f) == RunCommand(GapJobs(f))

(* command_fetch_initial: of the frames that are empty. *)
FetchInitial == RunCommand(InitialJobs)

(* command_fetch_updates: of each frame, whatever RecentOnly says. *)
FetchUpdates == RunCommand([i \in DOMAIN StoreFrames |-> UpdatesJob(StoreFrames[i])])

(* The threads of a rollback are joined; the first that panicked ends the
   program, whatever the others are at.                                    *)
CommandEnds ==
    /\ stage \in {"command", "rollback"} /\ fetcher[Loader].pc \in {"done", "failed"}
    /\ (\E f \in FrameSet : fetcher[f].pc = "failed") \/ (\A f \in FrameSet : fetcher[f].pc # "roll")
    /\ stage' = "down" /\ fetcher' = Resting
    /\ UNCHANGED <<clock, table, loaded, asOf, breaks, shared>>

StoreNext ==
    \/ \E p \in FrameSet \cup {Loader} :
        \/ BeginJob(p) \/ AnswerRequest(p) \/ RequestFails(p)
        \/ MarkNewest(p) \/ StoreRow(p) \/ FinishJobs(p)
    \/ \E f \in FrameSet : ThreadFetches(f) \/ FixGaps(f) \/ ThreadRollsBack(f) \/ RollbackFails(f)
    \/ StoreTick \/ StartWorker \/ JoinThreads \/ WorkerFetches \/ LoadFrame
    \/ WorkerFails \/ GoLive \/ SkippedFramePanics \/ StopProgram \/ CommandEnds
    \/ FetchInitial \/ FetchUpdates
    \/ \E recent \in BOOLEAN : RollbackCoin(recent)
    \/ \E F \in SUBSET FrameSet \ {{}} : ResetFrames(F)

StoreSpec == StoreInit /\ [][StoreNext]_storeVars

-----------------------------------------------------------------------------
(* Wherever a download stops, what it has stored has no gap, so that the next
   one, which goes on from the newest row, leaves none; and a row was whole
   when it was last written, unless it is the newest of its frame, which the
   next update writes again.  And a frame that inspect calls actual has every
   candle since its first.  Only a frame that two threads downloaded together
   may be otherwise.                                                       *)
RowsAreSound ==
    \A f \in FrameSet \ shared :
        /\ DOMAIN table[f] = {n \in 0 .. clock :
                                \E a, b \in DOMAIN table[f] : a <= n /\ n <= b}
        /\ \A n \in DOMAIN table[f] : table[f][n] = WholeRow \/ n = NewestRow(table[f])
        /\ TableState(f) = "Actual" =>
            \A n \in 0 .. clock : OldestRow(table[f]) <= n /\ OpenOf(n) <= clock => n \in DOMAIN table[f]

(* coin_worker.rs: "Updating this timeframe right before fetching candles":
   the candles a series starts from reach the time it was updated.         *)
LoadedIsCurrent ==
    \A f \in FrameSet :
        loaded[f].how = "loaded" => OpenOf(NewestRow(loaded[f].rows)) + CandleTicks > asOf[f]
=============================================================================
