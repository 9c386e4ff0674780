# gke-prober in TLA+

A verification development of `gke-prober`: TLA+ modules that model the
program, TLC configurations that check them on small instances, and theorems
about them that the TLA+ proof system checks. Paths such as
`pkg/server/server.go:135` are relative to the repository (under `src/` in
`PROJECT.json`).

    tlc -workers 2 -config tick_budget.cfg TickLoop      # one run
    tlapm TickLoopProofs.tla                             # one proof module

`PROJECT.json` lists the components, the runs, for every property a mutant of
the code that it catches, the source lines of every definition, the hazards of
the code with the properties aimed at them, the findings and the theorems.

## 1. The system

gke-prober is one Go process per cluster (mode `cluster`) or per node (mode
`node`). It watches Kubernetes objects through informers, and once per report
interval (a minute by default) runs a *tick*, which reads the informers'
caches, probes some addons and writes gauges to Cloud Monitoring. A kubelet
polls its `/liveness` endpoint and restarts it when that fails.

| Component | State it keeps | Operations | Interacts with |
| --- | --- | --- | --- |
| Scraping loop (`pkg/server/server.go:116-153`) | the ticker's one-place channel, `tickLastStart` | first tick, next tick, end of a tick, return on cancel | runs the node or cluster prober; shares `tickLastStart` with the liveness handler |
| Liveness handler (`server.go:170-217`) | its copy of `tickLastStart` | read under the lock, judge after it | the kubelet |
| Lifecycle (`cmd/gke-prober.go`, `server.go:82-114, 155-168`, `signal.go`) | the context, the provider, the HTTP server, the signal channel | start, signal, cancel, close the provider, stop the server, exit | all goroutines, through the context |
| Node prober (`scheduler.go:122-202`, `k8s.go:48-102`) | two informer caches | read, judge the node, probe the addons, four requests | API server, addons, Cloud Monitoring |
| Cluster prober (`scheduler.go:31-76, 236-251`, `k8s.go:104-173`) | three informer caches | read, count, derive expected addons, probe services, four requests | API server, services, Cloud Monitoring |
| Counting (`pkg/scheduler/metrics.go:26-113`) | a list of label maps with counts | `Increment`, per node | used by the cluster prober |
| Local controller (`pkg/localcontroller`) | a client-go work queue, the map of watched nodes | handle an event, enqueue, get, sync, register, retry, done | an informer; not started by `main` today |
| Cloud Monitoring writer (`pkg/metrics/gcm.go`) | none between calls; a context, a pause and a back-off in one | write the points of one series with a deadline, retry, give up | the tick's context, Cloud Monitoring |
| Kubelet (outside the program, configured by `manifests/k8s/daemonset.yaml:40-47`) | polls that failed in a row | poll, restart | the liveness handler |
| Configuration (`pkg/common/config.go`) | none that changes | read once, at startup | decides what `RunUntil` prepares and what `tick` uses |
| Addon restarts (`scheduler.go:78-120, 204-234`) | restarts per addon | register, pop all | has no caller |
| Configurable health checks (`healthz.go`) | none | run the targets in order | not used by `main` |
| Connectivity probes, OpenTelemetry provider, tools, other manifests | none that changes | | |

What is hard about it, and the properties that answer it:

* **Time.** A tick may overrun its interval. The ticker then drops values and
  keeps one, so that the next tick starts late and records an *old* start
  time, which the liveness handler takes for the age of an unfinished tick.
  When is a healthy prober never restarted, and a hung one always, and how
  soon? (`NoFalseAlarm`, `StartTimesAdvance`, `PendingTickIsRecent`,
  `HangReported`, `HangBounded`, `OverdueIsTrue`, `ScrapingSurvivesHangs`.)
* **One timeout for many requests.** The requests and probes of a tick share
  its timeout, each request is retried until a deadline of its own, and some
  probes look at no context. Which series can be starved, and when does a tick
  end? (`AvailabilityHasTime`, `FreshWhenUp`, `TicksEnd`.)
* **Late and repeated messages.** An attempt that timed out may have been
  accepted, or arrive after its retry or after the next tick's request.
  (`PublishesInOrder`.)
* **Cancellation.** One context, four or more goroutines, and a `main` that
  waits for none of them. Signals may arrive in any state of startup, twice,
  or while everything else is blocked, under any configuration. (`CleanExit`,
  `PanicsAccountedFor`, `SecondSignalExits`, `SignalEndsProcess`,
  `CancelledLoopReturns`.)
* **Stale and partial reads.** The caches sync independently, are read one
  after the other, and an unsynced one may read as an empty one; the probes run
  long after the caches were read. (`NoFalseOutage`, `PointsAgree`,
  `CountsAgree`, `ExpectedExact`, `Converges`.)
* **Partial failure.** Every request may fail and its error is dropped.
  (The same properties: every write of the models may fail.)
* **Check, then act.** The local controller's handler looks a node up without
  the mutex and adds it to the queue in a later step. (`SyncsBounded`,
  `NodesAccountedFor`, `OneWorkerPerNode`, `WatchesNodes`, `NodesGetWatched`.)

## 2. The modules

| Module | Models | Runs | Proofs |
| --- | --- | --- | --- |
| `TickLoop` | scraping loop, liveness handler, ticker, clock | `tick_budget`, `tick_stale` | `TickLoopProofs` |
| `Watchdog` | `TickLoop` under the kubelet that polls and restarts it | `tick_overrun` | `WatchdogProofs` |
| `Configuration` | what `GetConfig` makes of the environment | with `ServerLifecycle` | |
| `ServerLifecycle` | main, signal and shutdown goroutines, start of the loop | `life`, `life_panic` | `ServerLifecycleProofs` |
| `TickRequests` | the requests, retries and probes of a tick, and their time | `requests` | `TickRequestsProofs` |
| `Publishing` | abstract: what is promised of a series' points | refined by `TickRequests` | `TickRequestsProofs` |
| `NodeMetrics`, `MCNodeMetrics` | node prober | `node_points`, `node_empty` | `NodeMetricsProofs` |
| `ClusterMetrics`, `MCClusterMetrics` | cluster prober | `cluster_counts`, `cluster_converges` | `ClusterMetricsProofs` |
| `NodeCounting`, `MCNodeCounting` | the counting by labels under `ClusterMetrics` | `count_exact` | `NodeCountingProofs` |
| `LocalController` | local controller and its work queue | `ctl` | `LocalControllerProofs` |
| `NodeWatching` | abstract: what the local controller promises of new nodes | refined by `LocalController` | `LocalControllerProofs` |

How they fit together: `Watchdog` extends `TickLoop`, and `ServerLifecycle`
extends `Configuration`. `TickLoop` leaves open what a tick does and how long it
takes; `TickRequests` says what a tick spends its time on (`MaxTick` is the
interval when no blind probe runs, unbounded otherwise), and `NodeMetrics` and
`ClusterMetrics` say what it publishes. `ServerLifecycle` has the loop as two
steps, `StartScrape` and `Tick`, since what matters there is what they use.

`MC` modules only give functions (which pod belongs to which addon) as values
for constants. `NodeMetrics` and `ClusterMetrics` override a function by another
with an `Over` of their own, since the provers know nothing of `@@` and `:>`,
and sum with the community modules' `SumFunctionOnSet`. Definitions preceded by a comment `Mutant:` are the code with
a plausible bug: no specification uses them, `PROJECT.json` names the
definition each stands in for and the property that then fails.

### TickLoop

Each instant is kept as its *age*, as the code only ever computes
`time.Since`; `Elapse` makes every age grow by one, so that no horizon is
needed. `loop` is where `runScrape` is: `start` (before the first tick),
`select`, `tick` or `returned`. `FirstTick` records age 0, `NextTick` records
the age of the value it receives, which is when the ticker fired (`Recorded`
is the assignment in `tick`). `EndTick`
leaves `tickLastStart` as it is, as the code does. `Fire` models the runtime's
ticker: on a fixed grid, into a channel of capacity one, dropping what does not
fit. `HealthzRead` and `HealthzReply` are the two halves of `Healthz`, before
and after `RUnlock`. `MaxTickWait` truncates like the conversion of
`1.5 * float64(ReportInterval)`.

Two constants bound the environment: `MaxTick`, how long a tick runs, and
`Latency`, how long a runnable goroutine waits for a processor. They enter as
guards of `Elapse` (time may not pass something that is due) and as hypotheses
of the properties: `PromptScheduling` (`Latency < Interval`) and
`WithinBudget` (a tick and the wait before it fit in the interval, and
`4 * Latency <= Interval`). What a tick does is left to `TickRequests`,
`NodeMetrics` and `ClusterMetrics`.

### Watchdog

`TickLoop` with the kubelet in place of arbitrary pollers. `Poll` and `Reply`
are `HealthzRead` and `HealthzReply` with the kubelet's bookkeeping:
`untilPoll` counts down to the next poll, `failed` counts the failures in a
row, a reply of 503 or one that takes longer than `Timeout` being a failure.
`Restart` puts the prober back into its initial state, with nothing left of the
ticker, the recorded start or the handler. `Elapse` is restricted so that the
kubelet acts when it is due; a poll that finds the previous one unanswered
waits for it. Ticks may run for ever: nothing makes `EndTick` happen.

`PollsInTime` and `RestartsInTime` are the conditions on the constants: the
first says that every tick is polled and every answer precedes the next poll,
the second that `1.5` intervals, `Threshold` periods and two delays fit in two
intervals. The manifest satisfies both at the default interval. The
properties carry them as hypotheses, so that they are stated of any interval
and any manifest.

### Configuration and ServerLifecycle

`Environments` has what `GetConfig` branches on: the mode (unset, `cluster`,
`node` or anything else), whether `NODE_IP` is set, the class of
`REPORT_INTERVAL`, whether cluster probes are enabled, and whether the host name is
unknown, too short for `pool[:len(pool)-14]` or long enough. `Panics` is its
three panics, `GetConfig` the resulting record. `Server.Config` never changes,
so that `ServerLifecycle` keeps `env`, chosen in `Init`, and `Config` is
computed from it.

`main` goes from `setup` (before `go s.graceshutdown`) over `connecting`
(before `s.provider` is assigned) to `serving`; `shutdown` is where
`graceshutdown` is; `queued` counts the signals in the channel of capacity
two. An action of any goroutine needs the process to be running; `exit0`,
`exit1`, `fatal` and `panic` are the ways it ends. `s.provider` is written by
one goroutine and read by another without synchronisation; a read that is
concurrent with the assignment sees a nil interface, or one whose data pointer
is nil, and either ends in the panic that `CloseProvider` takes while `main`
is `connecting`. From `serving` on, the assignment is visible: `main` has
passed through the locks of starting goroutines and listening.

`prepared` holds the watchers and recorders that `RunUntil` assigns by mode
(`Assigned`), `scrape` is where the scraping loop is: `StartScrape` panics in
`time.NewTicker` when the interval is not positive, and `Tick` panics when it
uses something that is not in `prepared` (`Used`, from `tick`'s own branches on
the mode). A node prober's tick also panics on two kinds of lists: a synced list
of nodes without a node (`nodes[0]`, `scheduler.go:127`), and a list of pods with
an owner of `apps/v1` whose `Controller` is not set (`config.go:82`). `listed`
tells these apart from what `RecordNodeMetrics` goes through to the end, and
`Inform` changes it at any time, as the informers do.

`ServeReturns` follows `net/http`: `ListenAndServe` returns `ErrServerClosed`
as soon as `Shutdown` has been called, also when it is called before it.
`main` drops the error and returns, which ends the scraping loop wherever it is.

### TickRequests and Publishing

Time is counted from the beginning of a tick. When the next one begins, the
instants of all points left, on their way or accepted, are counted anew from
there (`Rebased`); whether any time passed between two ticks is all that matters
of it (`gap`). An attempt of any earlier tick thus keeps its place among the
others, however many ticks it is late. Past the timeout no point is made and no
deadline is left, so that the clock may stop at `Interval + 1`.

`plan` is the sequence of steps of a tick: the node prober's four requests with
its two probes before the third, or the cluster prober's, with or without
probes. `at` is the step, `now` the time since the tick began, `began` the time
since which the step runs: the points of a request carry it, because they are made
once, before the first attempt. A request is `ready` to attempt, `calling` or
`pausing`. `Send` makes an attempt; `Return` ends the request with success or
an error that is not retried; `Retry` follows an error that is, with a pause
of any length up to `backoff`, which doubles up to `MaxPause`; `GiveUp` is the
context's end, at the earlier of the tick's timeout and the request's
`CallDeadline`. Every error is dropped: `NextStep` is the same whatever the
outcome. `EndProbe` ends a probe at any time; `Elapse` makes a probe that heeds the
context end when the tick's timeout has passed. Nothing makes a blind one end.

The API is the environment. The attempts of one series, any one (`series`, chosen
in `Init`), are followed: an attempt may be lost, arrive (`Arrive`) at any later
time, also after its request has ended or its tick has, and be taken only if its
points are later than those the API has. `outage` is a history variable: has the
API failed or delayed this tick's request for the series? `FreshWhenUp` needs it.

`Publishing` is the promise: of a series, points are taken in the order of the
ticks, and at most one of each. `PublishedInOrder` maps the accepted points to
their ticks. What the code does for it is to make the points' time once per
request; that ticks of one process follow each other is what keeps these times
apart. Ticks whose caches have not synced make fewer requests and are left out.

### NodeMetrics

The API server's state (`apiNode`, `apiPods`), the informers' caches, the
tick's arguments and what the monitoring API last accepted (`latest`, per
metric) are separate variables. `Change` changes the cluster at any moment;
`SyncNodes` and `SyncPods` bring a cache up to date at any later one. A tick is a
sequence of actions in the order of `tick` and `RecordNodeMetrics`: `GetNodes`,
`GetPods`, `RecordConditions`, `RecordNode`, `ProbeAddon` for each addon in
any order (Go's map order), `RecordAddons`, `RecordControlPlane`. `cpAvailable`
is the loop's accumulator, set to the node's availability by `RecordNode` and
cleared by an addon that is not available (`AfterAddon`). `ill` is a history
variable: has anything not been well at any time? A write is
accepted or dropped. The three parts of a node's availability are read where
the code reads them; `warm`, its age against `WarmingPeriod`, can only become
true. The label values `Unknown`, `True` and `Error` of a probe appear as what
the code makes of them: `Unknown` and `True` are available. A node's other
conditions, the zone and the pool are left out.

### ClusterMetrics

As `NodeMetrics`, with three caches. A node is `unreported` (it has no Ready
condition, as when it has just joined), `unready`, `unavailable` (ready but
warming or cordoned) or `available`. `conditionStatuses` makes no Ready point of
the first, while `nodeAvailabilities` counts it among those that are not ready
(`StatesOf`), so that the two totals differ by these nodes: `CountsAgree` says by
exactly these. `ConditionPoints`, `NodePoints` and
`AddonPoints` are the points of the three requests as functions from series to
counts; a series with no items has no point, as in the code. `written` holds
the series written by the current tick. The two services are probed one after
the other and reported together. Replica counts are bounded by `MaxReplicas`.

### NodeCounting

One loop, one node per step in any order, with `Increment` translated from the
list search with its early return. `ClusterMetrics` takes counts by their
definition (`Cardinality`); `NodeCounting` is where the loop is shown to
compute them, so the two fit together on `NodePoints` and `In`.

### LocalController

`events` are the informer's notifications in order; `Handle*` is
`handleObject` and `enqueue` up to the look-up in the map, `Enqueue` is
`workqueue.Add`, a step of its own because the node can be registered in
between. The work queue is the one of client-go as the code uses it: a node is
queued once (`dirty`), is held back while it is `processing`, and is queued
again by `Done` if it was added meanwhile; `AddRateLimited` adds it after a delay
(`delayed`, `Due`). `registerNode`'s map write has a beginning and an end, and
the unlocked look-up may meet it in between: Go then may stop the process
(`HandleCrash`) or give either answer. `syncHandler` returns nil today;
`SyncFails` models the branch that handles an error, `MaxFailures` times; what
depends on it holds of a `syncHandler` to come and holds trivially today.

`NodeWatching` says what this machinery keeps: a node that is not watched and
changes waits until a worker takes it up, one worker at a time, and is let go
only when it is watched or waits again. It is less than the comments ask for
(`controller.go:62-63, 151-153`): changes of a node that is watched, its deletion
included, may be dropped (`Skip`). The run `ctl` passes because of that, and not
because deletions are acted on. The refinement mapping takes a node to be waiting wherever it
is, in the informer, the handler, the queue, `dirty` or the rate limiter
(`Waiting`), and busy when a worker has it (`Busy`).

## 3. The runs

| Run | Instance | Shows |
| --- | --- | --- |
| `tick_budget` | interval 8, ticks up to 6, latency 2 | no false 503, and the inductive invariant |
| `tick_overrun` | units of 1.25 s: interval 48, ticks up to 112, latency 3, period 8, delay 8, timeout 2, threshold 2; fairness | every hang is reported and ended in time, recorded starts advance although the ticker drops values, no idle loop is reported, scraping goes on although ticks hang for ever, a cancelled loop returns |
| `tick_stale` | interval 2, ticks up to 6, no kubelet | **violated**: "Tick not finished on time" is reported of an idle loop |
| `life` | every configuration, any lists, 3 signals | a shutdown closes the provider before the process exits; what may crash a prober that serves, and no signal does; one signal ends the process, two do even when all else is stuck; the inductive invariant |
| `life_panic` | every configuration, 3 signals | **violated**: one signal during startup panics |
| `requests` | 2 ticks of every plan, interval 5, deadline 4, pauses up to 4, 2 attempts on their way; fairness | the availability SLI has time, a tick in time publishes what the API is up for, `Publishing` is implemented, a tick ends if its blind probes do; the inductive invariant |
| `ctl` | 2 nodes, 2 workers, 5 changes, 1 failure, fairness | one worker per node, no new node lost, bounded syncs, `NodeWatching` is implemented, added nodes get watched; the inductive invariant |
| `node_points` | 2 addons, one probed, 1 change, fairness | points agree, no outage published of what has been well throughout, the published state becomes true; the inductive invariant |
| `node_empty` | 2 addons, 1 change | **violated**: a synced, empty node cache panics |
| `count_exact` | 6 nodes, 3 label maps | the counter is exact |
| `cluster_counts` | 2 nodes, 2 daemon sets, 1 deployment | counts of one tick agree up to the nodes without a Ready condition; expected pods; the inductive invariant |
| `cluster_converges` | 1 node, 1 daemon set, 1 deployment, 1 service, 1 change, fairness | the published counts and health become true |

**Bounds.** In `TickLoop` nothing is cut off: ages are bounded by the model's own guards
(`Elapse` stops when the loop has returned). An interval of 8 is the smallest
that has a latency of 2 within budget, and in `tick_stale` three intervals of overrun let the ticker
fill the channel, drop a value and be late again.
In `Watchdog` a unit of 1.25 s makes the default interval (60 s) and the
manifest's period and delay (10 s) whole numbers; the manifest's timeout of 5 s
would be 4 units, which no answer exceeds when the latency is 3, and is 2 so that
late answers do occur. `MaxTick = 112` is 140 s, more than twice the interval and
more than `LongestHang` (91), so that `HangBounded` is the kubelet's doing and
not the bound's.
A prober that is restarted in time drops no value of its ticker; one that has been
cancelled is not restarted, and its ticks of up to 112 do let the ticker fire twice
or more before the loop returns.
In `TickRequests` the interval exceeds the deadline by one, like 60 s and 55 s:
the first request can leave the second one unit. Pauses up to 4 are two doublings;
two attempts on their way and two ticks let a late attempt of the first tick meet
one of the second, and a retry meet the attempt it repeats; attempts that are later
by more ticks are the proof's (TLC has checked three ticks with an interval of 3
and a deadline of 2, 2.8 million states). A
blind probe may pass the timeout by any time. Three signals are one more
than the channel holds. In `LocalController` a node needs one change to be
queued, one to be held back in `dirty`, one to be in the handler, and two
workers to race; five changes over two nodes exceed that, and more changes of
one node (seven were tried) need no further sync.
The metrics modules start in *every* state of the cluster, so that one change
covers each pair of a state before and one after; the caches still pass through
arbitrary combinations of unsynced, old and new. `MaxReplicas = 2` tells a
product from a sum.

**Deadlock.** It is checked in `TickLoop` and `ClusterMetrics`, which never stop (after the loop has
returned, the liveness handler still answers). The other models may, and their
configurations say so with `CHECK_DEADLOCK FALSE`: `Watchdog` when the loop has been
cancelled and has returned, `ServerLifecycle` when the process has
ended, `TickRequests` after its last tick, the controller when the bounded
changes are used up, `NodeCounting` at the end of its loop, and `NodeMetrics` after
a panic.

**Fairness.** Weak fairness of a goroutine's steps is the Go scheduler's.
`Watchdog` adds strong fairness of `Return`, because a `select` chooses at
random among ready cases and so eventually takes one that is ready again and again,
and of time passing, because polls cannot keep it from doing so; the kubelet's steps
are weakly fair. The end of a tick is not: that is what
`ScrapingSurvivesHangs` is about, and `CancelledLoopReturns`, where nothing else could end
it, has it as a hypothesis. In `TickRequests` the goroutine's steps are weakly
fair and the passing of time strongly, since retries after a pause of no time
are possible any number of times; nothing makes the API answer, and nothing makes
a blind probe end: `TicksEnd` has that as a hypothesis, which the code does not
guarantee, and `Watchdog` does without it. In
`ServerLifecycle` the two liveness properties carry their fairness as
hypotheses, so that one run serves both: `SecondSignalExits` assumes nothing but
that the signal goroutine runs, since that is the point of a second signal.
`MainFairness` assumes nothing that makes startup or `ListenAndServe` fail. The
metrics modules assume that watches deliver, that ticks go on
(`ScrapingSurvivesHangs`) and that a request which is made over and over is
accepted some time (strong fairness of its accepted outcome): without the last
nothing could be claimed of what is published, since the code drops the errors.
The controller assumes that a rate limiter's delay ends.

## 4. The proofs

Proved by `tlapm`, for every value of the constants that satisfies the named
assumptions, which TLC also evaluates on every run.

* `TickLoopProofs` (`TickLoopAssumption`: a positive interval, natural
  bounds): `TypeCorrect`, `NeverFalselyReported`, `HangsAreReported`,
  `PendingIsRecent` and `StartsMoveForward`, all from `Invariance`:
  `Spec => []IInv`. None of the properties is inductive. `IInv` adds how the four clocks
  are related: an instant that is pending or recorded lies on the
  ticker's grid (`GridInv`), a pending one was sent after the last tick began
  (`PendingInv`), and a handler's copy is at least as old as the tick it judges
  (`HandlerInv`). `BudgetInv` adds the heart of `NoFalseAlarm`: within budget the
  ticker can fire inside a tick only at its very end, so lateness does not
  accumulate and a recorded start is at most `Interval + Latency` old, which
  with the handler's own delay stays within `(3 * Interval) \div 2`
  (`BudgetIsPrompt`, `MaxTickWaitMargin`). `LoopInductive` and `BudgetInductive` prove the two parts, one
  step per action.
* `WatchdogProofs` (`TickLoopAssumption`, `WatchdogAssumption`):
  `WatchedTypeCorrect`, `PendingStaysRecent`, `HangsEnd`, `OverdueIsUnfinished`
  and `HangsStayReported`, all from `WatchedInvariance`: `WatchedSpec =>
  []WatchedInv`. `TickLoop`'s `LoopInv` is carried over: every step is one of
  `TickLoop`'s or a restart (`StepOrRestart`), which establishes it anew
  (`RestartIsFresh`). `HangBounded` needs `RecordedInv`: what is recorded is not
  older than the polls that failed allow. A poll read while the start was
  recent is answered with success, so the count of failures begins when the
  start passes `MaxTickWait`, and each further period adds one;
  `JudgedInv` ties the handler's copy to what is recorded, so that a stale copy
  costs at most one poll. `OverdueIsTrue` needs `NoDropInv`: a prober that is restarted
  within two intervals never lets its ticker drop a value, so that what is recorded is at most
  one interval older than the ticker's last instant. `RecordedInductive` and `NoDropInductive`
  prove them, one step per action; `Polling*` and `OneUnit` are the arithmetic.
* `ServerLifecycleProofs` (`LifecycleAssumption`): `TypeCorrect`,
  `ExitsCleanly`, `PanicsAreAccountedFor`, from `Invariance`.
  `IInv` orders the events: provider assigned when `main` serves, context
  cancelled before `graceshutdown` leaves `waiting`, provider closed before the
  server is stopped, server stopped before `main` is `closed`; `ScrapeInv` adds
  that what the loop uses is assigned when it starts and stays so, from which
  `PanicsAreAccountedFor` leaves the interval and the lists as the only ways to crash
  a prober that serves. They hold
  for any number of signals and every configuration.
* `NodeCountingProofs` (`CountingAssumption`: finitely many nodes):
  `TypeCorrect`, `CountsAreExact`, `AvailableIsExact`. The lemmas say
  what `Increment` does when the key is present (`IncrementPresent`) and how the nodes
  counted for a key grow (`CountedGrows`).

* `LocalControllerProofs` (`ControllerAssumption`: `NoNode` is no node, natural
  bounds; any sets of nodes and workers, also infinite): `TypeCorrect`,
  `OneWorker`, `FewSyncs`, `Refinement` and `NoNodeForgotten`, from
  `Invariance`: `Spec => []ControllerInv`. `OneWorkerPerNode` alone is not
  inductive: that a worker cannot get what another one has rests on `QueueInv`,
  which says that the queue and `dirty \ processing` hold the same nodes, each
  once, and on `WorkerInv`, which says that `processing` is what the workers
  have. The bound on syncs needs a measure that no step after a node is watched
  can increase (`SyncsToBe`): the syncs made, and one for each place from which
  another can still come: a worker that syncs, `dirty`, the handler between its check and
  `Add`, and the rate limiter. `Refinement` maps every step of the handler, the queue and
  the workers to one of `NodeWatching` or none (`StepRefines`); its lemmas say which
  nodes wait after an event is taken or added (`NotificationTaken`,
  `ChangeNotified`). `NoNodeForgotten` is then
  proved of `NodeWatching`, where it is inductive, and carried over.
* `TickRequestsProofs` (`RequestsAssumption`: positive interval, deadline and
  pause): `TypeCorrect`, `SecondHasTime`, `FreshInTime` and
  `Refinement`, from `Invariance`: `Spec => []RequestsInv`. It is proved for
  any interval and deadline, any number of ticks and of attempts on their way.
  `StepInv` says when the first two requests may begin; `OrderInv` relates the
  points that were made, on their way or accepted, by tick and instant, which
  makes the API's "later than the last" the order of the ticks, and which counting
  the instants anew at each tick leaves as it is (`RebasedPoint`); `FreshInv`
  says what must have been accepted by when if the API was up. `PlanShape`
  and `FollowedOnce` are what the proofs need to know of the plans: a series
  occurs once in each.
* `NodeMetricsProofs` (`NodeMetricsAssumption`: finitely many pods, and no
  addon whose series would be the node's or the control plane's): `TypeCorrect`,
  `NoOutageInvented` and `AgreeingPoints`, from `Invariance`: `Spec =>
  []MetricsInv`. `TickInv` keeps what a tick has written equal to what it has
  found, and `cpAvailable` equal to the conjunction over the addons looked at so
  far, whatever their order (`ProbeAddon` is the induction step), which
  `PointsAgree` compares at the end; `WellInv` follows the truth from the API
  server over the caches and the tick's arguments to its results, as long as
  nothing has been unwell: a cache, or a list read from it, is unsynced or well
  however old it is, and an addon without pods or probe is never found
  unavailable.
* `ClusterMetricsProofs` (`ClusterAssumption`: finitely many nodes, daemon sets
  and deployments, and no addon of both): `TypeCorrect`, `SameNodesCounted`
  and `PodsExact`, from `Invariance`: `Spec => []CountInv`. Sums are a library fold over sets,
  whose value for every set cannot be proved by induction here. `SumCounts` proves it
  another way: the cardinality of a set of pairs satisfies the fold's recursive equation
  (`OneMore`), and no two functions do (`SumUnique`, by a smallest set on
  which they differ), so that the fold is that cardinality. After that,
  `SameNodesCounted` is that the points by availability partition the nodes that the tick has read, and those
  by condition the ones that report it (`NodesByState`, `ConditionTotal`,
  `NodeTotal`, `PublishedNodes`), and `PodsExact` that a product and a sum
  count pairs; it needs that no daemon set and deployment share an addon.

The inductive invariants are also checked by the runs `tick_budget`,
`tick_overrun`, `life`, `ctl`, `requests`, `node_points` and `cluster_counts`. All
safety invariants and action properties of the passing runs are proved, and both
refinements.

Only model-checked: the liveness properties, since liveness under fairness and
`ENABLED` are beyond the prover: `SecondSignalExits`, `SignalEndsProcess`,
`ScrapingSurvivesHangs`, `CancelledLoopReturns`, `TicksEnd`, `NodesGetWatched` and
both `Converges` are shown on the instances above only. The findings of the next section are
counterexamples, which need no proof.

## 5. What the checks found

* `pkg/server/server.go:135` (`tick_stale`): `tickLastStart` is never cleared,
  and a tick that starts late records when the ticker fired. After an overrun, an idle
  loop that has finished its last tick can be reported as "Tick not finished on
  time", contrary to the comment in `server.go:50`. `OverdueIsTrue` says when
  this cannot happen: when hanging probers are restarted within two intervals.
* `pkg/server/server.go:161` (`life_panic`): a first signal during startup
  dereferences a nil provider.
* `pkg/scheduler/scheduler.go:127` (`node_empty`): `nodes[0]` of an empty list.

Seen while modelling, and part of the models, but without a run of their own:

* `pkg/localcontroller/controller.go:192`: watched nodes are
  skipped, deletions and restarts included (`HandleWatched`, and `Skip` of
  `NodeWatching`), and never leave the map (`popNode` has no caller), although
  `syncHandler` is meant to "shutdown the prober when a node is deleted"
  (`controller.go:153`).
* `pkg/probe/gke.go:172`: "Scrping should complete within the
  interval, or time out" (`server.go:132`): requests do, but `http.Get`,
  `metadata.Email` and `net.LookupIP` take no context, so that a tick lasts as long
  as they do (`Elapse` of `TickRequests`). `HangReported` and `HangBounded` say what
  becomes of one that hangs.
* `pkg/k8s/k8s.go:76`: a pod cache that has not synced reads as a node without
  addons (`GetPods`), so that the control plane may be published as available
  before any pod was seen; `README.md:122` speaks of "all addons on node".
* `pkg/scheduler/scheduler.go:190`: the labels are those of an addon's first pod
  and the value counts all of them (`ProbeAddon`); `README.md:123` speaks of the
  count of pods labelled by `running`.
* `pkg/server/server.go:135`: two ticks, each shorter than 1.5 intervals, can get the
  prober restarted: the first one's overrun makes the second record a start
  that is as old as the overrun (`TickLoop`, when `WithinBudget` does not hold).
* `pkg/common/config.go:145`: an unparsable interval, such as the `"1"` without a unit
  of `manifests/k8s/prober-config.yaml`, silently becomes the default
  (`ReportInterval`), and a negative one panics in `time.NewTicker` (`StartScrape`).
* `pkg/server/server.go:96`: every mode but `cluster` is taken for `node`, also
  a misspelt one (`Assigned`), consistently in `RunUntil` and `tick`; but
  `GetConfig` then neither asks for `NODE_IP` nor looks the zone up.
* `pkg/localcontroller/controller.go:234`: a cancelled context never stops the
  controller, because `Run` waits for a channel that only its own return closes.
* `pkg/scheduler/scheduler.go:33`: only the node cache is waited for, not "until
  the caches are fully synced" (`scheduler.go:34`): `GetDeployments`, `Listed`.

## 6. Not modelled, and the plan

Not modelled:

* Addon restart counting (`scheduler.go:78-120, 204-234`): `NewNodeScheduler` has
  no caller, so that no restart is ever registered, and the reporting recorder
  method, `RecordContainerRestart`, is never called either.
* Configurable health checks (`healthz.go`): a loop over targets without state of
  its own. `main` passes none and no target exists; `Target.svc` is a private field
  that nothing sets, so that every target would be reported unhealthy and unnamed.
* Connectivity probes: `runConnectivityProbes` has no caller and the recorder's
  methods for them are empty.
* OpenTelemetry provider: marked as not working (`otel.go:36-41`), never started.
* `listmd` and `localdev`: command-line tools, one call after the other.
* Of the Cloud Monitoring writer: the number of series in a request. The API
  accepts 200; how many there are depends on the cluster, and the code does not look.
* Of the configuration: names and labels, on which nothing branches. Label
  strings, log lines and JSON responses are abstracted everywhere.
* Of the local controller: `popNode`, which is never called, and the end of
  `StartController`, which never comes.

Next, in this order:

1. The safety half of the liveness properties, where it can be stated: that no
   state but the intended ones is final (`LocalController` with nothing queued, the
   lifecycle after a signal), and that each step which is fair makes progress.
2. That the loop of `NodeCounting` computes what `ClusterMetrics` takes by
   definition, as one theorem over both modules.
3. Under which conditions each finding cannot happen, as theorems: no panic in a
   tick whose node cache holds the node, no idle loop reported within budget.
