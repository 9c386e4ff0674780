------------------------------ MODULE TickRequests ------------------------------
(***************************************************************************)
(* The requests of a tick (pkg/metrics/gcm.go) and what shares its time    *)
(* with them: a tick is a sequence of requests and probes under a timeout  *)
(* of one report interval, each request has a deadline of its own and is   *)
(* retried with growing pauses until then, and its error is dropped.  Some *)
(* probes do not look at the context: when the timeout has passed they go  *)
(* on, for as long as it takes or for ever.                                *)
(*                                                                         *)
(* The monitoring API is the environment: an attempt may be lost or arrive *)
(* after its client has given it up, and the client may be told that an    *)
(* attempt failed which arrived.  Of a series, the API takes only points   *)
(* that are later than the last it took.  What it does with one series is  *)
(* independent of the others, so that the model follows one, any of them.  *)
(*                                                                         *)
(* Time is counted from the beginning of the tick; when one begins, the    *)
(* instants of what earlier ticks left behind are counted anew from there. *)
(* Past the timeout no point is made and no deadline is to come, so that   *)
(* how late it is by then does not matter: the clock stops at Interval + 1.*)
(***************************************************************************)
EXTENDS Sequences, FiniteSets, Integers

CONSTANTS
    Interval,   \* Config.ReportInterval, a tick's timeout
    Deadline,   \* createTimeSeriesDeadline
    MaxPause,   \* the longest pause between two attempts
    MaxSent,    \* bound: attempts on their way to the API at a time
    MaxTicks    \* bound: ticks

ASSUME RequestsAssumption ==
    /\ Interval \in Nat \ {0} /\ Deadline \in Nat \ {0} /\ MaxPause \in Nat \ {0}
    /\ MaxSent \in Nat /\ MaxTicks \in Nat

(* The steps of a tick that has found its caches synced, in the order of   *)
(* the code.  The probes are those of a map, which is iterated in any      *)
(* order, the node's two being alike; the cluster's may be switched off.   *)
NodeTick == <<"condition", "available", "fluentbit", "metadata", "addon", "cp">>
ClusterRequests == <<"condition", "available", "expected">>
ClusterTicks ==
    {ClusterRequests} \cup
    {ClusterRequests \o probes \o <<"health">> :
        probes \in {<<"metrics_server", "kube_dns">>, <<"kube_dns", "metrics_server">>}}

(* http.Get, metadata.Email and net.LookupIP take no context.              *)
Blind  == {"fluentbit", "metadata", "kube_dns"}
Probes == Blind \cup {"metrics_server"}
Series == {"condition", "available", "addon", "cp", "expected", "health"}

VARIABLES
    plan,       \* the steps of this prober's ticks
    series,     \* the series that the model follows
    tick,       \* ticks begun
    at,         \* index of the step the tick is at, 0 between two ticks
    call,       \* where writeTimeSeries is
    now,        \* the time since the tick began, up to Interval + 1
    began,      \* when the step began; its points carry this time
    wake,       \* when the pause between two attempts is over at the latest
    backoff,    \* the longest next pause
    sent,       \* attempts on their way to the API
    accepted,   \* the points the API took, in order
    outage      \* has the API failed or delayed this tick's request?

clientVars == <<plan, series, tick, at, call, began, wake, backoff>>
vars == <<clientVars, now, sent, accepted, outage>>

(* A point is of an instant that has been; those before 0 are of earlier ticks.*)
Point == {p \in [tick : 1..MaxTicks, stamp : Int] : p.stamp <= now}

(* The types of the variables; a pause is no longer than MaxPause. *)
TypeOK ==
    /\ plan \in {NodeTick} \cup ClusterTicks
    /\ series \in Series
    /\ tick \in 0..MaxTicks
    /\ at \in 0..Len(plan)
    /\ call \in {"ready", "calling", "pausing"}
    /\ now \in 0..(Interval + 1) /\ began \in 0..now
    /\ wake \in 0..(now + MaxPause)
    /\ backoff \in 1..MaxPause
    /\ sent \subseteq Point
    /\ accepted \in Seq(Point)
    /\ outage \in BOOLEAN

Init ==
    /\ plan \in {NodeTick} \cup ClusterTicks
    /\ series \in {plan[i] : i \in DOMAIN plan} \cap Series
    /\ tick = 0 /\ at = 0
    /\ call = "ready"
    /\ now = 0 /\ began = 0 /\ wake = 0
    /\ backoff = 1
    /\ sent = {} /\ accepted = <<>>
    /\ outage = FALSE

-------------------------------------------------------------------------------
IsRequest  == at # 0 /\ plan[at] \in Series
IsProbe    == at # 0 /\ plan[at] \in Probes
IsFollowed == at # 0 /\ plan[at] = series

Earlier(s, t) == IF s < t THEN s ELSE t

(* The tick's context: WithTimeout(ctx, ReportInterval). *)
TickDeadline == Interval

(* Mutant: the request has the tick's context. *)
CallDeadlineOfTick == TickDeadline

(* Mutant: the deadline is counted from the beginning of the tick. *)
CallDeadlineFixed == Earlier(TickDeadline, Deadline)

(* The request's: WithDeadline(ctx, now + createTimeSeriesDeadline). *)
CallDeadline == Earlier(TickDeadline, began + Deadline)

(* Is a point with this time later than those the API has? *)
IsLater(stamp) == \A i \in DOMAIN accepted : accepted[i].stamp < stamp

(* A step ends and the next one begins; what the request came to is dropped.*)
NextStep ==
    /\ at' = IF at = Len(plan) THEN 0 ELSE at + 1
    /\ began' = now
    /\ call' = "ready" /\ backoff' = 1 /\ wake' = 0
    /\ UNCHANGED <<plan, series, tick, now, sent, accepted>>

(* The instant of a point, counted from the beginning of the next tick. *)
Rebased(p, gap) == [p EXCEPT !.stamp = @ - now - gap]

(* The next tick begins, at once or later: of the time between, only       *)
(* whether there is any tells two instants apart.                          *)
BeginTick ==
    /\ at = 0 /\ tick < MaxTicks
    /\ tick' = tick + 1
    /\ at' = 1
    /\ now' = 0 /\ began' = 0
    /\ \E gap \in {0, 1} :
         /\ sent' = {Rebased(p, gap) : p \in sent}
         /\ accepted' = [i \in DOMAIN accepted |-> Rebased(accepted[i], gap)]
    /\ outage' = FALSE
    /\ UNCHANGED <<plan, series, call, wake, backoff>>

-------------------------------------------------------------------------------
(* Mutant: every attempt takes the time anew. *)
AttemptNow == [tick |-> tick, stamp |-> now]

(* The points are made before the first attempt. *)
Attempt == [tick |-> tick, stamp |-> began]

(* An attempt, unless the context is done; it may be lost. *)
Send ==
    /\ IsRequest /\ call = "ready"
    /\ now < CallDeadline
    /\ call' = "calling"
    /\ \/ IsFollowed /\ sent' = sent \cup {Attempt} /\ Cardinality(sent') <= MaxSent
       \/ UNCHANGED sent
    /\ UNCHANGED <<plan, series, tick, at, began, wake, backoff, now, accepted, outage>>

(* The API takes the points of an attempt, or refuses them as too old. *)
Arrive(p) ==
    /\ p \in sent
    /\ sent' = sent \ {p}
    /\ accepted' = IF IsLater(p.stamp) THEN Append(accepted, p) ELSE accepted
    /\ UNCHANGED <<clientVars, now, outage>>

(* Success; or an error that is not retried: the API's refusal of points   *)
(* that are too old, or any other, which is an outage.                     *)
Return ==
    /\ IsRequest /\ call = "calling"
    /\ NextStep
    /\ outage' = (outage \/ (IsFollowed /\ IsLater(began)))

NextBackoff == Earlier(2 * backoff, MaxPause)

(* DeadlineExceeded or Unavailable: the next attempt follows after a       *)
(* random pause, the longest of which doubles.                             *)
Retry ==
    /\ IsRequest /\ call = "calling"
    /\ now < CallDeadline
    /\ call' = "pausing"
    /\ wake' = now + backoff
    /\ backoff' = NextBackoff
    /\ outage' = (outage \/ IsFollowed)
    /\ UNCHANGED <<plan, series, tick, at, began, now, sent, accepted>>

WakeUp ==
    /\ IsRequest /\ call = "pausing"
    /\ now < CallDeadline
    /\ call' = "ready"
    /\ wake' = 0
    /\ UNCHANGED <<plan, series, tick, at, began, backoff, now, sent, accepted, outage>>

(* Mutant: the pause ignores the context, whose error is one to be retried.*)
GiveUpRetries ==
    /\ IsRequest /\ now >= CallDeadline
    /\ call' = "ready"
    /\ UNCHANGED <<plan, series, tick, at, began, wake, backoff, now, sent, accepted, outage>>

(* The context is done: the call or the pause returns at once. *)
GiveUp  == IsRequest /\ now >= CallDeadline /\ NextStep /\ UNCHANGED outage
EndProbe == IsProbe /\ NextStep /\ UNCHANGED outage

-------------------------------------------------------------------------------
(* Time passes; what is due comes first, but a probe that is blind to the  *)
(* context is never due.                                                   *)
Elapse ==
    /\ at # 0
    /\ IsRequest => /\ now < CallDeadline
                    /\ call # "ready"
                    /\ call = "pausing" => now < wake
    /\ IsProbe => plan[at] \in Blind \/ now < TickDeadline
    /\ now' = Earlier(now + 1, Interval + 1)
    /\ outage' = (outage \/ (IsFollowed /\ call = "calling"))
    /\ UNCHANGED <<clientVars, sent, accepted>>

Client == BeginTick \/ Send \/ Return \/ Retry \/ WakeUp \/ GiveUp \/ EndProbe

Next == Client \/ (\E p \in sent : Arrive(p)) \/ Elapse

Spec == Init /\ [][Next]_vars

(* The goroutine runs; time passes, however often a request is retried     *)
(* after a pause of no time.  Nothing makes the API answer, or a probe end *)
(* that ignores the context.                                               *)
FairSpec ==
    /\ Spec
    /\ WF_vars(Client /\ (EndProbe => plan[at] \notin Blind))
    /\ SF_vars(Elapse)

-------------------------------------------------------------------------------
(***************************************************************************)
(* Properties.                                                             *)
(***************************************************************************)

(* The second request of a tick, the node availability SLI, is always made *)
(* with time left, however long the first was retried (gcm.go:35: 55 s of  *)
(* a minute), provided that the interval is longer than the deadline.      *)
AvailabilityHasTime ==
    Deadline < Interval /\ at = 2 => TickDeadline - began >= Interval - Deadline

(* When a tick ends in time and the API has answered the request for a     *)
(* series at once, what it has of the series is of this tick, whatever     *)
(* became of the other requests and of earlier ticks: no request is        *)
(* starved by those before it as long as the tick is in time.              *)
FreshWhenUp ==
    [][at # 0 /\ at' = 0 /\ ~outage' /\ now < TickDeadline => ~IsLater(0)]_vars

(* The requests never keep a tick from ending, though the API does not     *)
(* answer and errors are retried for as long as there is time: every tick  *)
(* ends if the probes do that ignore the context.  The code does not say   *)
(* that they do, though a tick "should complete within the interval, or    *)
(* time out" (server.go:132).                                              *)
TicksEnd == WF_vars(EndProbe) => (at # 0 ~> at = 0)

(* Retries do not publish a point twice, nor do late ones undo what is     *)
(* published: the requests implement Publishing.                           *)
PublishedInOrder ==
    INSTANCE Publishing WITH points <- [i \in DOMAIN accepted |-> accepted[i].tick]
PublishesInOrder == PublishedInOrder!Spec

-------------------------------------------------------------------------------
(***************************************************************************)
(* The inductive invariant.                                                *)
(***************************************************************************)

(* Is the request for the series among the first n steps? *)
AmongFirst(n) == \E i \in 1..n : plan[i] = series

(* Between two ticks nothing is left of a request; the first request of a  *)
(* tick begins with it and is given up at its deadline.  The followed      *)
(* request is one of the plan.                                             *)
StepInv ==
    /\ AmongFirst(Len(plan))
    /\ at = 0 => call = "ready" /\ wake = 0
    /\ at # 0 => tick # 0
    /\ at = 1 => began = 0 /\ now <= CallDeadline
    /\ at = 2 => began <= Deadline

(* Of the points that are made, what the API took or may still take, those *)
(* of a later tick carry no earlier time, and those of a tick the same.    *)
Made == sent \cup {accepted[i] : i \in DOMAIN accepted}
OrderInv ==
    /\ \A p, q \in Made : p.stamp < q.stamp => p.tick < q.tick
    /\ \A p \in Made :
         /\ p.tick <= tick
         /\ p.tick < tick => p.stamp <= 0
         /\ p.tick = tick /\ at # 0 => AmongFirst(at)
         /\ p.tick = tick /\ IsFollowed => p.stamp = began

(* Without an outage the followed request takes no time, and when it has   *)
(* ended in a tick that is in time the API has a point of this tick.       *)
FreshInv ==
    at # 0 /\ ~outage =>
        /\ IsFollowed => now = began /\ call # "pausing"
        /\ AmongFirst(at - 1) /\ now < TickDeadline => ~IsLater(0)

(* The inductive invariant: the first requests begin and end in time, the  *)
(* points of a tick carry one instant and those of a later tick no earlier *)
(* one, and without an outage the requests that are behind are served.     *)
RequestsInv == TypeOK /\ StepInv /\ OrderInv /\ FreshInv
===============================================================================
