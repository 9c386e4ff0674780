-------------------------------- MODULE Watchdog --------------------------------
(***************************************************************************)
(* The scraping loop under the kubelet (manifests/k8s/daemonset.yaml, the  *)
(* same in deployment.yaml), which polls /liveness and restarts the prober *)
(* when polls fail in a row.  This is what ends a tick that hangs: nothing *)
(* in the process does.  A tick may run for ever here.                     *)
(*                                                                         *)
(* The kubelet is the only one to poll.  The prober that it restarts is    *)
(* new, so that no instant of the old one is left; one that is cancelled   *)
(* is about to end (ServerLifecycle) and is not polled any more.           *)
(***************************************************************************)
EXTENDS TickLoop

CONSTANTS
    Period,         \* periodSeconds
    InitialDelay,   \* initialDelaySeconds
    Timeout,        \* timeoutSeconds
    Threshold       \* failureThreshold

ASSUME WatchdogAssumption ==
    /\ Period \in Nat \ {0} /\ Threshold \in Nat \ {0}
    /\ InitialDelay \in Nat /\ Timeout \in Nat
    /\ Timeout < Period

VARIABLES
    untilPoll,  \* time until the next poll
    failed      \* polls that failed in a row

kubeletVars == <<untilPoll, failed>>
watchedVars == <<vars, kubeletVars>>

(* The types of the variables; no more polls fail than it takes to restart.*)
WatchedTypeOK ==
    /\ TypeOK
    /\ untilPoll \in 0..Period \cup 0..InitialDelay
    /\ failed \in 0..Threshold

WatchedInit == Init /\ untilPoll = InitialDelay /\ failed = 0

-------------------------------------------------------------------------------
(* A step of the prober or of the runtime under it. *)
Prober == (Scrape \/ Fire \/ Cancel) /\ UNCHANGED kubeletVars

Polled == ~ctxDone /\ failed < Threshold

Poll ==
    /\ Polled /\ untilPoll = 0
    /\ HealthzRead
    /\ untilPoll' = Period
    /\ UNCHANGED failed

(* A poll fails with a status of 503, or when it takes too long. *)
Reply ==
    /\ HealthzReply
    /\ failed' = IF response' = "unavailable" \/ handling > Timeout
                 THEN failed + 1 ELSE 0
    /\ UNCHANGED untilPoll

(* The kubelet ends the process and starts it anew. *)
Restart ==
    /\ ~ctxDone /\ failed = Threshold
    /\ loop' = "start" /\ dwell' = 0
    /\ untilFire' = Interval /\ buffered' = None
    /\ tickLastStart' = None
    /\ handler' = "idle" /\ lastTickStart' = None /\ handling' = 0
    /\ response' = "none"
    /\ untilPoll' = InitialDelay /\ failed' = 0
    /\ UNCHANGED ctxDone

(* Time passes, unless the kubelet is due. *)
WatchedElapse ==
    /\ Elapse
    /\ ~ctxDone => failed < Threshold /\ (untilPoll = 0 => handler = "evaluate")
    /\ untilPoll' = IF untilPoll = 0 THEN 0 ELSE untilPoll - 1
    /\ UNCHANGED failed

WatchedNext == Prober \/ Poll \/ Reply \/ Restart \/ WatchedElapse

WatchedSpec == WatchedInit /\ [][WatchedNext]_watchedVars

(* Fairness.  The Go scheduler runs every runnable goroutine; a select     *)
(* chooses at random among its ready cases, so a case that is ready again  *)
(* and again is taken; polls do not keep time from passing, and the kubelet*)
(* goes on polling.  A tick may never end.                                 *)
FairWatchedSpec ==
    /\ WatchedSpec
    /\ WF_watchedVars(FirstTick /\ UNCHANGED kubeletVars)
    /\ WF_watchedVars(NextTick /\ UNCHANGED kubeletVars)
    /\ SF_watchedVars(Return /\ UNCHANGED kubeletVars)
    /\ WF_watchedVars(Fire /\ UNCHANGED kubeletVars)
    /\ WF_watchedVars(Poll) /\ WF_watchedVars(Reply) /\ WF_watchedVars(Restart)
    /\ SF_watchedVars(WatchedElapse)

-------------------------------------------------------------------------------
(***************************************************************************)
(* Properties, besides those of TickLoop.                                  *)
(***************************************************************************)

(* Every tick is polled, and answers come before the next poll. *)
PollsInTime ==
    PromptScheduling /\ Latency < Period /\ InitialDelay <= MaxTickWait + Period

(* An overdue tick has been polled often enough, and had its last answer. *)
LongestHang == MaxTickWait + Threshold * Period + Latency

(* No tick runs for longer: one that hangs is ended by the kubelet, even   *)
(* when a poll is answered with what was read before the tick was overdue. *)
(* At an interval of a minute, with the manifest's values and answers that *)
(* take a few seconds, that is before two minutes have passed.             *)
HangBounded ==
    PollsInTime => (loop = "tick" /\ ~ctxDone => dwell <= LongestHang)

(* A prober that hangs is restarted before its ticker drops a value, also  *)
(* when its first tick, which is not on the ticker's grid, began late.     *)
RestartsInTime == LongestHang + Latency < 2 * Interval

(* Healthz says that a tick is not finished when that is true, although    *)
(* tickLastStart is never cleared: a tick that is long enough for the next *)
(* one to begin with a stale instant does not live to see it, if those     *)
(* that hang are restarted in time.                                        *)
OverdueIsTrue == PollsInTime /\ RestartsInTime => OverdueTickIsUnfinished

(* Scraping goes on although ticks hang for ever: another tick begins      *)
(* again and again until the prober is cancelled.                          *)
ScrapingSurvivesHangs ==
    /\ (loop # "tick" ~> loop = "tick" \/ ctxDone)
    /\ (loop = "tick" ~> loop # "tick" \/ ctxDone)

(* Once cancelled the loop returns if its tick does, even when ticks       *)
(* overrun so that a tick is pending whenever the loop selects.            *)
CancelledLoopReturns ==
    WF_watchedVars(EndTick /\ UNCHANGED kubeletVars)
        => (ctxDone ~> loop = "returned")

-------------------------------------------------------------------------------
(***************************************************************************)
(* The inductive invariant, on top of TickLoop's LoopInv.                  *)
(***************************************************************************)

(* One poll at a time, and none once the kubelet has given up. *)
PollInv ==
    /\ handler = "evaluate" => failed < Threshold
    /\ loop = "returned" => ctxDone

(* The time in which the given number of polls is made. *)
Polling(polls) == polls * Period

(* What a handler judges is at least as old as what is recorded. *)
JudgedInv ==
    handler = "evaluate" =>
        /\ untilPoll + handling = Period
        /\ tickLastStart # None =>
             tickLastStart <= IF lastTickStart = None THEN handling ELSE lastTickStart

(* What is recorded is not older than the polls that failed allow: the one *)
(* that is due, or is being answered, has not counted yet.                 *)
RecordedInv ==
    ~ctxDone =>
        /\ failed = Threshold => tickLastStart <= LongestHang
        /\ failed < Threshold /\ handler = "idle" =>
             tickLastStart + untilPoll <= MaxTickWait + Polling(failed + 1)
        /\ failed < Threshold /\ handler = "evaluate" =>
             tickLastStart + untilPoll <= MaxTickWait + Polling(failed + 1) + Period

(* Restarted in time, the ticker has dropped nothing: what is pending is   *)
(* what it sent last, and what is recorded was sent an interval earlier.   *)
NoDropInv ==
    ~ctxDone /\ tickLastStart # None =>
        LET since == IF buffered = None THEN SinceFire ELSE SinceFire + Interval
        IN /\ since - Latency <= tickLastStart /\ tickLastStart <= since
           /\ buffered \in {None, SinceFire}

(* The inductive invariant of the loop under the kubelet. *)
WatchedInv ==
    /\ WatchedTypeOK /\ PollInv
    /\ PromptScheduling => LoopInv
    /\ PollsInTime => JudgedInv /\ RecordedInv
    /\ PollsInTime /\ RestartsInTime => NoDropInv
===============================================================================
