------------------------------- MODULE TickLoop -------------------------------
(***************************************************************************)
(* The scraping loop of the prober and the liveness handler that watches   *)
(* it (pkg/server/server.go).                                              *)
(*                                                                         *)
(* Goroutine runScrape runs one tick at once and then one per value it     *)
(* receives from a time.Ticker, until the context is cancelled.  A tick    *)
(* publishes its start time in tickLastStart; the HTTP handler Healthz,    *)
(* run by another goroutine, reads it under a read lock and answers 503    *)
(* when more than 1.5 report intervals have passed since.                  *)
(*                                                                         *)
(* Time is discrete and every instant is kept as its AGE, the time passed  *)
(* since: it is the only thing the code computes from an instant           *)
(* (time.Since), and it keeps the state space finite without a horizon.    *)
(* Elapse is one unit of time passing.                                     *)
(***************************************************************************)
EXTENDS Integers

CONSTANTS
    Interval,   \* Config.ReportInterval
    MaxTick,    \* the longest a tick runs
    Latency     \* the longest a runnable goroutine waits for a processor

(* A ticker wants a positive period (time.NewTicker panics otherwise). *)
ASSUME TickLoopAssumption ==
    /\ Interval \in Nat \ {0}
    /\ MaxTick \in Nat
    /\ Latency \in Nat

VARIABLES
    loop,           \* where runScrape is
    dwell,          \* how long it has been runnable there
    untilFire,      \* time until the ticker's next firing
    buffered,       \* age of the instant held by ticker.C (capacity 1)
    tickLastStart,  \* age of Server.tickLastStart
    ctxDone,        \* has the context been cancelled?
    handler,        \* where Healthz is
    lastTickStart,  \* age of Healthz's copy of tickLastStart
    handling,       \* how long Healthz has held that copy
    response        \* status of the last liveness response

loopVars    == <<loop, dwell, untilFire, buffered, tickLastStart, ctxDone>>
handlerVars == <<handler, lastTickStart, handling, response>>
vars == <<loopVars, handlerVars>>

(* No instant: an empty channel, the zero time.Time. *)
None == -1
Age  == Nat \cup {None}

(* Mutant: one interval without the margin. *)
MaxTickWaitNoMargin == Interval

(* Healthz's maxTickWait, time.Duration(1.5 * float64(ReportInterval)): *)
(* the conversion truncates.                                            *)
MaxTickWait == (3 * Interval) \div 2

(* The types of the variables; an age is a natural number or None. *)
TypeOK ==
    /\ loop \in {"start", "select", "tick", "returned"}
    /\ dwell \in Nat
    /\ untilFire \in 0..Interval
    /\ buffered \in Age
    /\ tickLastStart \in Age
    /\ ctxDone \in BOOLEAN
    /\ handler \in {"idle", "evaluate"}
    /\ lastTickStart \in Age
    /\ handling \in Nat
    /\ response \in {"none", "ok", "unavailable"}

-------------------------------------------------------------------------------
(* runScrape has just created its ticker. *)
Init ==
    /\ loop = "start"
    /\ dwell = 0
    /\ untilFire = Interval
    /\ buffered = None
    /\ tickLastStart = None
    /\ ctxDone = FALSE
    /\ handler = "idle"
    /\ lastTickStart = None
    /\ handling = 0
    /\ response = "none"

(* Can runScrape move as soon as it gets a processor?  In its select it    *)
(* needs a value in ticker.C or a cancelled context.                       *)
Runnable ==
    \/ loop = "start"
    \/ loop = "select" /\ (buffered # None \/ ctxDone)

(* Mutant: the start is recorded only when none is, and never moved on. *)
RecordedOnce(startTime) == IF tickLastStart = None THEN startTime ELSE tickLastStart

(* What tick stores in tickLastStart, whatever was there. *)
Recorded(startTime) == startTime

(* The first tick, s.tick(ctx, time.Now()). *)
FirstTick ==
    /\ loop = "start"
    /\ loop' = "tick"
    /\ dwell' = 0
    /\ tickLastStart' = Recorded(0)
    /\ UNCHANGED <<untilFire, buffered, ctxDone, handlerVars>>

(* A later tick: its start time is the instant received from the ticker,   *)
(* which is when the ticker fired and not when the tick begins.            *)
NextTick ==
    /\ loop = "select"
    /\ buffered # None
    /\ loop' = "tick"
    /\ dwell' = 0
    /\ tickLastStart' = Recorded(buffered)
    /\ buffered' = None
    /\ UNCHANGED <<untilFire, ctxDone, handlerVars>>

(* Mutant: a tick that overran is made up for by another one at once. *)
AfterTickAnother == IF dwell > Interval THEN "tick" ELSE "select"

(* After a tick the loop waits for the ticker or the context. *)
AfterTick == "select"

(* The tick has recorded its metrics; tickLastStart is left as it is. *)
EndTick ==
    /\ loop = "tick"
    /\ loop' = AfterTick
    /\ dwell' = 0
    /\ UNCHANGED <<untilFire, buffered, tickLastStart, ctxDone, handlerVars>>

(* Mutant: the loop polls the context only when no tick is pending. *)
MayReturnDrained == ctxDone /\ buffered = None

(* Mutant: the loop returns when it finds nothing to receive. *)
MayReturnEmpty == buffered = None

(* The select may take ctx.Done(), also when a tick is pending. *)
MayReturn == ctxDone

Return ==
    /\ loop = "select"
    /\ MayReturn
    /\ loop' = "returned"
    /\ UNCHANGED <<dwell, untilFire, buffered, tickLastStart, ctxDone, handlerVars>>

(* The ticker fires on its grid and drops the value when ticker.C is full. *)
Fire ==
    /\ untilFire = 0
    /\ untilFire' = Interval
    /\ buffered' = IF buffered = None THEN 0 ELSE buffered
    /\ UNCHANGED <<loop, dwell, tickLastStart, ctxDone, handlerVars>>

(* The server's context is cancelled, by a signal or by RunUntil returning. *)
Cancel ==
    /\ ~ctxDone
    /\ ctxDone' = TRUE
    /\ UNCHANGED <<loop, dwell, untilFire, buffered, tickLastStart, handlerVars>>

-------------------------------------------------------------------------------
(* Healthz copies tickLastStart between RLock and RUnlock ... *)
HealthzRead ==
    /\ handler = "idle"
    /\ handler' = "evaluate"
    /\ lastTickStart' = tickLastStart
    /\ handling' = 0
    /\ UNCHANGED <<loopVars, response>>

(* Mutant: a whole missed tick is forgiven. *)
OverdueTwice == lastTickStart # None /\ lastTickStart > 2 * Interval

(* ... and compares the copy with the clock after the unlock. *)
Overdue == lastTickStart # None /\ lastTickStart > MaxTickWait

HealthzReply ==
    /\ handler = "evaluate"
    /\ handler' = "idle"
    /\ response' = IF Overdue THEN "unavailable" ELSE "ok"
    /\ lastTickStart' = None
    /\ handling' = 0
    /\ UNCHANGED loopVars

-------------------------------------------------------------------------------
Aged(t) == IF t = None THEN None ELSE t + 1

(* One unit of time.  It waits for what is due: the ticker's firing, the   *)
(* end of a tick that has run for MaxTick, and every goroutine that has    *)
(* been runnable for Latency.                                              *)
Elapse ==
    /\ untilFire > 0
    /\ loop # "returned"
    /\ loop = "tick" => dwell < MaxTick
    /\ Runnable => dwell < Latency
    /\ handler = "evaluate" => handling < Latency
    /\ dwell' = IF loop = "tick" \/ Runnable THEN dwell + 1 ELSE dwell
    /\ untilFire' = untilFire - 1
    /\ buffered' = Aged(buffered)
    /\ tickLastStart' = Aged(tickLastStart)
    /\ lastTickStart' = Aged(lastTickStart)
    /\ handling' = IF handler = "evaluate" THEN handling + 1 ELSE handling
    /\ UNCHANGED <<loop, ctxDone, handler, response>>

Scrape  == FirstTick \/ NextTick \/ EndTick \/ Return
Healthz == HealthzRead \/ HealthzReply

Next == Scrape \/ Healthz \/ Fire \/ Cancel \/ Elapse

Spec == Init /\ [][Next]_vars

-------------------------------------------------------------------------------
(***************************************************************************)
(* Properties.                                                             *)
(***************************************************************************)

(* A runnable goroutine waits less than an interval for its processor. *)
PromptScheduling == Latency < Interval

(* The prober keeps up: a tick and the wait to start it fit in an interval,*)
(* and a quarter of the interval is enough to be scheduled.                *)
WithinBudget == MaxTick + Latency <= Interval /\ 4 * Latency <= Interval

(* A prober that keeps up is never reported dead, although a tick may      *)
(* begin late, its recorded start is older than its beginning, and Healthz *)
(* judges a copy of tickLastStart that may be stale (server.go:182-189).   *)
NoFalseAlarm == WithinBudget => response # "unavailable"

(* A tick that has been running for more than 1.5 intervals is reported by *)
(* every reply given meanwhile, whenever its handler read tickLastStart.   *)
HangReported ==
    [][PromptScheduling /\ HealthzReply /\ loop = "tick" /\ dwell > MaxTickWait
          => response' = "unavailable"]_vars

(* Recorded start times move forward: a tick never records an instant that *)
(* is not later than the one it replaces, whatever the ticker dropped or   *)
(* kept meanwhile (server.go:117-124, 134-136).                            *)
StartTimesAdvance ==
    [][PromptScheduling /\ loop = "select" /\ loop' = "tick"
          => tickLastStart' < tickLastStart]_vars

(* The instant waiting in ticker.C, which the next tick will record as its *)
(* start, was sent after the previous tick began: ticker.C holds one value *)
(* and the previous tick emptied it.                                       *)
PendingTickIsRecent ==
    PromptScheduling =>
        /\ loop = "tick" => buffered <= dwell
        /\ buffered <= MaxTick + Latency

(* tickLastStart is the "start time of last unfinished tick" (server.go:50)*)
(* and an overdue one is reported as "Tick not finished on time": unless   *)
(* the loop was cancelled, a tick is then unfinished, or at least due.     *)
OverdueTickIsUnfinished ==
    tickLastStart > MaxTickWait /\ ~ctxDone
        => loop = "tick" \/ Runnable \/ untilFire = 0

-------------------------------------------------------------------------------
(***************************************************************************)
(* The inductive invariant.  The named parts hold whatever MaxTick is, as  *)
(* long as scheduling is prompt; BudgetInv adds what holds of a prober     *)
(* that keeps up.  SinceFire is the age of the ticker's last grid point.   *)
(***************************************************************************)
SinceFire == Interval - untilFire

ClockBounds ==
    /\ loop \in {"start", "select"} => dwell <= Latency
    /\ loop = "tick" => dwell <= MaxTick
    /\ handler = "evaluate" => handling <= Latency

(* Before the first tick nothing has been recorded and nothing has fired. *)
StartInv ==
    /\ loop = "start" <=> tickLastStart = None
    /\ loop = "start" => buffered = None /\ SinceFire = dwell

(* A recorded or a pending start is an instant of the ticker's grid, or    *)
(* the first tick's, and the pending one is the later of the two.          *)
GridInv ==
    /\ tickLastStart # None => tickLastStart >= SinceFire - Latency
    /\ buffered # None => SinceFire <= buffered /\ buffered < tickLastStart
    /\ loop = "tick" => dwell <= tickLastStart

PendingInv ==
    /\ loop = "tick" => buffered <= dwell
    /\ loop = "select" => buffered <= MaxTick + dwell
    /\ buffered <= MaxTick + Latency

(* What a handler holds is at least as old as the tick it is judging. *)
HandlerInv ==
    handler = "evaluate" /\ loop = "tick" =>
        IF lastTickStart = None THEN dwell <= handling ELSE dwell <= lastTickStart

LoopInv == ClockBounds /\ StartInv /\ GridInv /\ PendingInv /\ HandlerInv

(* Within budget the ticker fires in a tick only at its very end, so that  *)
(* a tick's lateness is never handed on to the next.                       *)
BudgetInv ==
    /\ loop = "tick" =>
         IF buffered = None
         THEN tickLastStart <= SinceFire /\ SinceFire <= Latency + dwell
         ELSE tickLastStart <= Interval /\ SinceFire = 0 /\ dwell = MaxTick
              /\ buffered = 0
    /\ loop = "select" =>
         IF buffered = None
         THEN tickLastStart <= SinceFire
         ELSE tickLastStart <= Interval + SinceFire /\ buffered = SinceFire
              /\ buffered <= dwell
    /\ tickLastStart <= Interval + Latency
    /\ handler = "evaluate" => lastTickStart <= Interval + Latency + handling
    /\ response # "unavailable"

(* The inductive invariant of the loop, its ticker and the liveness handler. *)
IInv == TypeOK /\ (PromptScheduling => LoopInv) /\ (WithinBudget => BudgetInv)
===============================================================================
