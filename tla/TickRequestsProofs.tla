--------------------------- MODULE TickRequestsProofs ---------------------------
(***************************************************************************)
(* Proofs about TickRequests, for every interval, deadline and pause and   *)
(* however long the monitoring API does not answer; in particular that the *)
(* requests of the ticks implement Publishing.                             *)
(***************************************************************************)
EXTENDS TickRequests, SequenceTheorems, TLAPS

-------------------------------------------------------------------------------
LEMMA Joined ==
    ASSUME NEW S, NEW s \in Seq(S), NEW t \in Seq(S), NEW u \in Seq(S),
           Len(s) = 3, Len(t) = 2, Len(u) = 1
    PROVE  /\ s \o t \o u \in Seq(S) /\ Len(s \o t \o u) = 6
           /\ DOMAIN (s \o t \o u) = 1..6
           /\ (s \o t \o u)[1] = s[1] /\ (s \o t \o u)[2] = s[2] /\ (s \o t \o u)[3] = s[3]
           /\ (s \o t \o u)[4] = t[1] /\ (s \o t \o u)[5] = t[2]
           /\ (s \o t \o u)[6] = u[1]
  <1>1. /\ s \o t \in Seq(S) /\ Len(s \o t) = 5
        /\ \A i \in 1..5 : (s \o t)[i] = IF i <= 3 THEN s[i] ELSE t[i - 3]
    <2>1. /\ s \o t \in Seq(S) /\ Len(s \o t) = Len(s) + Len(t)
          /\ \A i \in 1..Len(s) + Len(t) :
               (s \o t)[i] = IF i <= Len(s) THEN s[i] ELSE t[i - Len(s)]
      BY ConcatProperties
    <2> QED
      BY <2>1
  <1> DEFINE st == s \o t
  <1> HIDE DEF st
  <1>2. st \in Seq(S) /\ Len(st) = 5
    BY <1>1 DEF st
  <1>3. /\ st \o u \in Seq(S) /\ Len(st \o u) = 6
        /\ \A i \in 1..6 : (st \o u)[i] = IF i <= 5 THEN st[i] ELSE u[i - 5]
    <2>1. /\ st \o u \in Seq(S) /\ Len(st \o u) = Len(st) + Len(u)
          /\ \A i \in 1..Len(st) + Len(u) :
               (st \o u)[i] = IF i <= Len(st) THEN st[i] ELSE u[i - Len(st)]
      BY <1>2, ConcatProperties
    <2> QED
      BY <1>2, <2>1
  <1>4. /\ st[1] = s[1] /\ st[2] = s[2] /\ st[3] = s[3] /\ st[4] = t[1] /\ st[5] = t[2]
    BY <1>1 DEF st
  <1>5. DOMAIN (st \o u) = 1..6
    BY <1>3, LenProperties
  <1>6. /\ (st \o u)[1] = st[1] /\ (st \o u)[2] = st[2] /\ (st \o u)[3] = st[3]
        /\ (st \o u)[4] = st[4] /\ (st \o u)[5] = st[5]
    BY <1>3
  <1>7. (st \o u)[6] = u[1]
    BY <1>3
  <1> QED
    BY <1>3, <1>4, <1>5, <1>6, <1>7 DEF st

(* The plans: a tick begins with a request and makes none of them twice.   *)
LEMMA PlanShape ==
    ASSUME NEW p \in {NodeTick} \cup ClusterTicks
    PROVE  /\ Len(p) \in Nat /\ Len(p) >= 3 /\ DOMAIN p = 1..Len(p)
           /\ \A i \in 1..Len(p) : p[i] \in Series \cup Probes
           /\ p[1] \in Series
           /\ \A i, j \in 1..Len(p) : p[i] = p[j] => i = j
  <1>1. CASE p = NodeTick
    <2>1. Len(p) = 6 /\ DOMAIN p = 1..6
      BY <1>1 DEF NodeTick
    <2>2. /\ p[1] = "condition" /\ p[2] = "available" /\ p[3] = "fluentbit"
          /\ p[4] = "metadata" /\ p[5] = "addon" /\ p[6] = "cp"
      BY <1>1 DEF NodeTick
    <2>3. \A i \in 1..6 : i = 1 \/ i = 2 \/ i = 3 \/ i = 4 \/ i = 5 \/ i = 6
      OBVIOUS
    <2> QED
      BY <2>1, <2>2, <2>3 DEF Series, Probes, Blind
  <1>2. CASE p = ClusterRequests
    <2>1. Len(p) = 3 /\ DOMAIN p = 1..3
      BY <1>2 DEF ClusterRequests
    <2>2. p[1] = "condition" /\ p[2] = "available" /\ p[3] = "expected"
      BY <1>2 DEF ClusterRequests
    <2>3. \A i \in 1..3 : i = 1 \/ i = 2 \/ i = 3
      OBVIOUS
    <2> QED
      BY <2>1, <2>2, <2>3 DEF Series, Probes, Blind
  <1>3. ASSUME NEW a \in Probes, NEW b \in Probes, a # b,
               p = ClusterRequests \o <<a, b>> \o <<"health">>
        PROVE  /\ Len(p) = 6 /\ DOMAIN p = 1..6
               /\ p[1] = "condition" /\ p[2] = "available" /\ p[3] = "expected"
               /\ p[4] = a /\ p[5] = b /\ p[6] = "health"
    <2> DEFINE All  == Series \cup Probes
               pair == <<a, b>>
               last == <<"health">>
    <2>1. /\ ClusterRequests \in Seq(All) /\ Len(ClusterRequests) = 3
          /\ ClusterRequests[1] = "condition" /\ ClusterRequests[2] = "available"
          /\ ClusterRequests[3] = "expected"
      BY DEF ClusterRequests, Series
    <2>2. pair \in Seq(All) /\ Len(pair) = 2 /\ pair[1] = a /\ pair[2] = b
      OBVIOUS
    <2>3. last \in Seq(All) /\ Len(last) = 1 /\ last[1] = "health"
      BY DEF Series
    <2> HIDE DEF All, pair, last
    <2>4. p = ClusterRequests \o pair \o last
      BY <1>3 DEF pair, last
    <2>5. /\ Len(p) = 6 /\ DOMAIN p = 1..6
          /\ p[1] = ClusterRequests[1] /\ p[2] = ClusterRequests[2] /\ p[3] = ClusterRequests[3]
          /\ p[4] = pair[1] /\ p[5] = pair[2] /\ p[6] = last[1]
      BY <2>1, <2>2, <2>3, <2>4, Joined
    <2> QED
      BY <2>1, <2>2, <2>3, <2>5
  <1>4. CASE p \in ClusterTicks \ {ClusterRequests}
    <2>1. PICK a \in Probes, b \in Probes :
              a # b /\ p = ClusterRequests \o <<a, b>> \o <<"health">>
      BY <1>4 DEF ClusterTicks, Probes, Blind
    <2>2. /\ Len(p) = 6 /\ DOMAIN p = 1..6
          /\ p[1] = "condition" /\ p[2] = "available" /\ p[3] = "expected"
          /\ p[4] = a /\ p[5] = b /\ p[6] = "health"
      BY <1>3, <2>1
    <2>3. \A i \in 1..6 : i = 1 \/ i = 2 \/ i = 3 \/ i = 4 \/ i = 5 \/ i = 6
      OBVIOUS
    <2>4. \A c \in Probes : c \notin {"condition", "available", "expected", "health"}
      BY DEF Probes, Blind
    <2>5. {"condition", "available", "expected", "health"} \subseteq Series
      BY DEF Series
    <2>6. \A i \in 1..6 : p[i] \in Series \cup Probes
      BY <2>2, <2>3, <2>5
    <2>7. ASSUME NEW i \in 1..6, NEW j \in 1..6, p[i] = p[j]
          PROVE  i = j
      <3>1. a \notin {"condition", "available", "expected", "health"}
            /\ b \notin {"condition", "available", "expected", "health"}
        BY <2>4
      <3>2. CASE i = 4
        BY <2>1, <2>2, <2>3, <2>7, <3>1, <3>2
      <3>3. CASE i = 5
        BY <2>1, <2>2, <2>3, <2>7, <3>1, <3>3
      <3>4. CASE i \notin {4, 5}
        BY <2>2, <2>3, <2>7, <3>1, <3>4
      <3> QED
        BY <3>2, <3>3, <3>4
    <2> QED
      BY <2>2, <2>5, <2>6, <2>7
  <1> QED
    BY <1>1, <1>2, <1>4

(* A step is a request or a probe and not both. *)
LEMMA StepKinds ==
    ASSUME TypeOK, at # 0
    PROVE  /\ at \in 1..Len(plan) /\ Len(plan) \in Nat
           /\ IsRequest \/ IsProbe
           /\ ~(IsRequest /\ IsProbe)
           /\ IsFollowed => IsRequest
  <1>1. at \in 1..Len(plan) /\ Len(plan) \in Nat /\ plan[at] \in Series \cup Probes
    BY PlanShape DEF TypeOK
  <1>2. \A s : ~(s \in Series /\ s \in Probes)
    BY DEF Series, Probes, Blind
  <1> QED
    BY <1>1, <1>2 DEF IsRequest, IsProbe, IsFollowed, TypeOK

LEMMA Deadlines ==
    ASSUME TypeOK
    PROVE  /\ now \in Nat /\ began \in Nat /\ began <= now
           /\ CallDeadline \in Nat /\ CallDeadline <= TickDeadline
           /\ CallDeadline <= began + Deadline
           /\ CallDeadline = TickDeadline \/ CallDeadline = began + Deadline
           /\ TickDeadline \in Nat \ {0} /\ Deadline \in Nat \ {0}
  <1>1. now \in Nat /\ began \in Nat /\ began <= now
    BY DEF TypeOK
  <1> QED
    BY <1>1, RequestsAssumption DEF CallDeadline, Earlier, TickDeadline

-------------------------------------------------------------------------------
(* A point is still of its tick when time is counted anew, and by no more  *)
(* or less earlier than another.                                           *)
LEMMA RebasedPoint ==
    ASSUME NEW p \in Point, NEW gap \in {0, 1}, now \in Nat
    PROVE  /\ Rebased(p, gap) \in [tick : 1..MaxTicks, stamp : Int]
           /\ Rebased(p, gap).tick = p.tick
           /\ Rebased(p, gap).stamp = p.stamp - now - gap
           /\ Rebased(p, gap).stamp <= 0
  <1>1. p \in [tick : 1..MaxTicks, stamp : Int] /\ p.stamp \in Int /\ p.stamp <= now
    BY DEF Point
  <1>2. Rebased(p, gap) = [tick |-> p.tick, stamp |-> p.stamp - now - gap]
    BY <1>1 DEF Rebased
  <1> QED
    BY <1>1, <1>2

(* The types are kept, because nothing is left of a request when its tick  *)
(* has ended and because a point is only made in a tick.                   *)
LEMMA TypeInductive ==
    ASSUME TypeOK, StepInv, [Next]_vars
    PROVE  TypeOK'
  <1> USE RequestsAssumption
  <1>0. Len(plan) \in Nat /\ Len(plan) >= 3 /\ at \in 0..Len(plan) /\ at \in Nat
    BY PlanShape DEF TypeOK
  <1>1. now \in Nat /\ began \in Nat /\ began <= now /\ tick \in Nat /\ MaxTicks \in Nat
    BY DEF TypeOK
  <1>2. CASE BeginTick
    <2>2. PICK gap \in {0, 1} :
            /\ sent' = {Rebased(p, gap) : p \in sent}
            /\ accepted' = [i \in DOMAIN accepted |-> Rebased(accepted[i], gap)]
      BY <1>2 DEF BeginTick
    <2>3. now' = 0 /\ began' = 0 /\ tick' = tick + 1 /\ tick < MaxTicks /\ at = 0 /\ at' = 1
          /\ outage' = FALSE /\ UNCHANGED <<plan, series, call, wake, backoff>>
      BY <1>2 DEF BeginTick
    <2>4. \A p \in Point : Rebased(p, gap) \in Point'
      <3> TAKE p \in Point
      <3>1. Rebased(p, gap).stamp <= 0
        BY <1>1, RebasedPoint
      <3> QED
        BY <1>1, <2>3, <3>1, RebasedPoint DEF Point
    <2>5. sent' \subseteq Point'
      BY <2>2, <2>4 DEF TypeOK
    <2>6. accepted' \in Seq(Point')
      <3>1. accepted \in [1..Len(accepted) -> Point] /\ Len(accepted) \in Nat
            /\ DOMAIN accepted = 1..Len(accepted)
        BY LenProperties DEF TypeOK
      <3>2. accepted' \in [1..Len(accepted) -> Point']
        BY <2>2, <2>4, <3>1
      <3> QED
        BY <3>1, <3>2, SeqDef
    <2>7. call = "ready" /\ wake = 0
      BY <2>3 DEF StepInv
    <2>8. wake' \in 0..(now' + MaxPause) /\ tick' \in 0..MaxTicks /\ at' \in 0..Len(plan)
          /\ now' \in 0..(Interval + 1) /\ began' \in 0..now'
      BY <1>0, <1>1, <2>3, <2>7
    <2> QED
      BY <2>3, <2>5, <2>6, <2>7, <2>8 DEF TypeOK
  <1>3. ASSUME UNCHANGED now PROVE Point' = Point
    BY <1>3 DEF Point
  <1>4. ASSUME NextStep, outage' \in BOOLEAN PROVE TypeOK'
    <2>1. /\ at' \in 0..Len(plan) /\ began' \in 0..now' /\ call' = "ready"
          /\ wake' \in 0..(now' + MaxPause) /\ backoff' \in 1..MaxPause
      BY <1>0, <1>1, <1>4 DEF NextStep
    <2>2. UNCHANGED <<plan, series, tick, now, sent, accepted>>
      BY <1>4 DEF NextStep
    <2> QED
      BY <1>3, <1>4, <2>1, <2>2 DEF TypeOK
  <1>5. CASE Send
    <2>1. UNCHANGED <<plan, series, tick, at, began, wake, backoff, now, accepted, outage>>
          /\ call' = "calling" /\ at # 0
      BY <1>5 DEF Send, IsRequest
    <2>2. Attempt \in Point
      <3>1. tick \in 1..MaxTicks /\ began \in 0..now
        BY <1>1, <2>1 DEF TypeOK, StepInv
      <3> QED
        BY <3>1 DEF Attempt, Point
    <2>3. sent' \subseteq Point
      BY <1>5, <2>2 DEF Send, TypeOK
    <2> QED
      BY <1>3, <2>1, <2>3 DEF TypeOK
  <1>6. ASSUME NEW p \in sent, Arrive(p) PROVE TypeOK'
    <2>1. UNCHANGED <<clientVars, now, outage>> /\ sent' \subseteq sent
          /\ accepted' \in {accepted, Append(accepted, p)}
      BY <1>6 DEF Arrive
    <2>2. accepted' \in Seq(Point)
      <3>1. p \in Point /\ accepted \in Seq(Point)
        BY DEF TypeOK
      <3> QED
        BY <2>1, <3>1, AppendProperties
    <2> QED
      BY <1>3, <2>1, <2>2 DEF TypeOK, clientVars
  <1>7. CASE Return
    BY <1>4, <1>7 DEF Return, IsFollowed, IsLater, TypeOK
  <1>8. CASE Retry
    <2>1. UNCHANGED <<plan, series, tick, at, began, now, sent, accepted>>
          /\ call' = "pausing" /\ outage' \in BOOLEAN
      BY <1>8 DEF Retry, IsFollowed, TypeOK
    <2>2. wake' \in 0..(now' + MaxPause) /\ backoff' \in 1..MaxPause
      <3>1. backoff \in 1..MaxPause /\ wake' = now + backoff /\ backoff' = NextBackoff
        BY <1>8 DEF Retry, TypeOK
      <3> QED
        BY <1>1, <2>1, <3>1 DEF NextBackoff, Earlier
    <2> QED
      BY <1>3, <2>1, <2>2 DEF TypeOK
  <1>9. CASE WakeUp
    <2>1. UNCHANGED <<plan, series, tick, at, began, backoff, now, sent, accepted, outage>>
          /\ call' = "ready" /\ wake' = 0
      BY <1>9 DEF WakeUp
    <2>2. wake' \in 0..(now' + MaxPause)
      BY <1>1, <2>1
    <2> QED
      BY <1>3, <2>1, <2>2 DEF TypeOK
  <1>10. CASE GiveUp
    BY <1>4, <1>10 DEF GiveUp, TypeOK
  <1>11. CASE EndProbe
    BY <1>4, <1>11 DEF EndProbe, TypeOK
  <1>12. CASE Elapse
    <2>1. /\ now' \in 0..(Interval + 1) /\ now <= now'
          /\ outage' \in BOOLEAN /\ UNCHANGED <<clientVars, sent, accepted>>
      BY <1>12 DEF Elapse, Earlier, IsFollowed, TypeOK
    <2>2. Point \subseteq Point'
      <3>1. \A t \in Int : t <= now => t <= now'
        BY <1>1, <2>1
      <3> QED
        BY <3>1 DEF Point
    <2>3. sent' \subseteq Point' /\ accepted' \in Seq(Point')
      BY <2>1, <2>2, SeqMonotonic DEF TypeOK
    <2>4. began' \in 0..now' /\ wake' \in 0..(now' + MaxPause)
      <3>1. /\ now \in Nat /\ now' \in Nat /\ now <= now' /\ MaxPause \in Nat
        BY <1>1, <2>1
      <3>2. /\ began' = began /\ began \in 0..now
            /\ wake' = wake /\ wake \in 0..(now + MaxPause)
        BY <2>1 DEF TypeOK, clientVars
      <3>3. \A m, n, k \in Nat : m <= n => 0..m \subseteq 0..n /\ 0..(m + k) \subseteq 0..(n + k)
        OBVIOUS
      <3> QED
        BY <3>1, <3>2, <3>3
    <2> QED
      BY <2>1, <2>3, <2>4 DEF TypeOK, clientVars
  <1>13. CASE UNCHANGED vars
    BY <1>3, <1>13 DEF vars, clientVars, TypeOK
  <1> QED
    BY <1>2, <1>5, <1>6, <1>7, <1>8, <1>9, <1>10, <1>11, <1>12, <1>13 DEF Next, Client

(* What the deadline of the first request leaves the second. *)
LEMMA StepInductive ==
    ASSUME TypeOK, StepInv, [Next]_vars
    PROVE  StepInv'
  <1>a. AmongFirst(Len(plan))'
    BY DEF StepInv, AmongFirst, Next, Client, vars, clientVars, BeginTick, Send, Arrive, Return,
           Retry, WakeUp, GiveUp, EndProbe, NextStep, Elapse
  <1> USE <1>a
  <1>0. /\ Len(plan) \in Nat /\ Len(plan) >= 3 /\ at \in 0..Len(plan) /\ plan[1] \in Series
        /\ now \in Nat /\ began \in Nat /\ tick \in Nat
    BY PlanShape DEF TypeOK
  <1>1. CASE BeginTick
    <2>1. now' = 0 /\ began' = 0 /\ at' = 1 /\ tick' = tick + 1
      BY <1>1 DEF BeginTick
    <2>2. now' <= CallDeadline'
      BY <2>1, RequestsAssumption DEF CallDeadline, Earlier, TickDeadline
    <2> QED
      BY <1>0, <2>1, <2>2 DEF StepInv
  <1>2. ASSUME at # 0, NextStep PROVE StepInv'
    <2>1. /\ at' = IF at = Len(plan) THEN 0 ELSE at + 1
          /\ began' = now /\ call' = "ready" /\ wake' = 0 /\ tick' = tick
      BY <1>2 DEF NextStep
    <2>2. at' # 1 /\ (at' = 2 => at = 1)
      BY <1>0, <1>2, <2>1
    <2>3. at = 1 => now <= Deadline
      BY Deadlines DEF StepInv
    <2> QED
      BY <1>2, <2>1, <2>2, <2>3 DEF StepInv
  <1>3. ASSUME at # 0, UNCHANGED <<tick, at, now, began>> PROVE StepInv'
    BY <1>3 DEF StepInv, CallDeadline
  <1>4. CASE Send
    BY <1>3, <1>4 DEF Send, IsRequest
  <1>5. ASSUME NEW p \in sent, Arrive(p) PROVE StepInv'
    BY <1>5 DEF Arrive, clientVars, StepInv, CallDeadline
  <1>6. CASE Return
    BY <1>2, <1>6 DEF Return, IsRequest
  <1>7. CASE Retry
    BY <1>3, <1>7 DEF Retry, IsRequest
  <1>8. CASE WakeUp
    BY <1>3, <1>8 DEF WakeUp, IsRequest
  <1>9. CASE GiveUp
    BY <1>2, <1>9 DEF GiveUp, IsRequest
  <1>10. CASE EndProbe
    BY <1>2, <1>10 DEF EndProbe, IsProbe
  <1>11. CASE Elapse
    <2>1. /\ at # 0 /\ (IsRequest => now < CallDeadline) /\ now' <= now + 1 /\ now' \in Nat
          /\ UNCHANGED <<plan, tick, at, began, call, wake>>
      BY <1>0, <1>11, RequestsAssumption DEF Elapse, Earlier, clientVars
    <2>2. CallDeadline' = CallDeadline /\ CallDeadline \in Nat
      BY <2>1, Deadlines DEF CallDeadline, TickDeadline
    <2>3. at = 1 => now' <= CallDeadline'
      BY <1>0, <2>1, <2>2 DEF IsRequest
    <2> QED
      BY <2>1, <2>3 DEF StepInv
  <1>12. CASE UNCHANGED vars
    BY <1>12 DEF vars, clientVars, StepInv, CallDeadline
  <1> QED
    BY <1>1, <1>4, <1>5, <1>6, <1>7, <1>8, <1>9, <1>10, <1>11, <1>12 DEF Next, Client

-------------------------------------------------------------------------------
(* The points that are made, and when they can be.                         *)

LEMMA MadePoints ==
    ASSUME TypeOK, NEW p \in Made
    PROVE  /\ p \in Point
           /\ p.tick \in Nat \ {0} /\ p.tick <= MaxTicks
           /\ p.stamp \in Int /\ p.stamp <= now
  <1>1. p \in Point
    BY LenProperties, ElementOfSeq DEF Made, TypeOK
  <1> QED
    BY <1>1, RequestsAssumption DEF Point, TypeOK

(* The followed request is made in one step only. *)
LEMMA FollowedOnce ==
    ASSUME TypeOK, at # 0
    PROVE  /\ AmongFirst(at) <=> AmongFirst(at - 1) \/ IsFollowed
           /\ ~(AmongFirst(at - 1) /\ IsFollowed)
  <1>1. /\ at \in 1..Len(plan) /\ Len(plan) \in Nat
        /\ \A i, j \in 1..Len(plan) : plan[i] = plan[j] => i = j
    BY PlanShape DEF TypeOK
  <1>2. \A i \in 1..at : i \in 1..Len(plan) /\ (i \in 1..(at - 1) \/ i = at)
    BY <1>1
  <1>3. \A i \in 1..(at - 1) : i \in 1..at /\ i \in 1..Len(plan) /\ i # at
    BY <1>1
  <1>4. at \in 1..at
    BY <1>1
  <1>5. AmongFirst(at) => AmongFirst(at - 1) \/ IsFollowed
    BY <1>2 DEF AmongFirst, IsFollowed
  <1>6. AmongFirst(at - 1) => AmongFirst(at) /\ ~IsFollowed
    BY <1>1, <1>3 DEF AmongFirst, IsFollowed
  <1>7. IsFollowed => AmongFirst(at)
    BY <1>4 DEF AmongFirst, IsFollowed
  <1> QED
    BY <1>5, <1>6, <1>7

(* When a step ends in a tick, it is one of those that are over. *)
LEMMA NextFollowed ==
    ASSUME TypeOK, TypeOK', at # 0, NextStep, at' # 0
    PROVE  /\ AmongFirst(at - 1)' <=> AmongFirst(at)
           /\ AmongFirst(at) => AmongFirst(at)' /\ ~IsFollowed'
  <1>1. at \in Nat /\ at' = at + 1 /\ at' - 1 = at /\ UNCHANGED <<plan, series>>
    BY PlanShape DEF NextStep, TypeOK
  <1>2. /\ at' \in 1..Len(plan) /\ Len(plan) \in Nat
        /\ \A i, j \in 1..Len(plan) : plan[i] = plan[j] => i = j
    <2>1. plan \in {NodeTick} \cup ClusterTicks /\ at' \in 0..Len(plan)
      BY <1>1 DEF TypeOK
    <2> QED
      BY <1>1, <2>1, PlanShape
  <1>3. AmongFirst(at - 1)' <=> AmongFirst(at)
    BY <1>1 DEF AmongFirst
  <1>4. \A i \in 1..at : i \in 1..at' /\ i \in 1..Len(plan) /\ i # at'
    BY <1>1, <1>2
  <1>5. AmongFirst(at) => (\E i \in 1..at' : plan[i] = series) /\ plan[at'] # series
    BY <1>2, <1>4 DEF AmongFirst
  <1> QED
    BY <1>1, <1>3, <1>5 DEF AmongFirst, IsFollowed

-------------------------------------------------------------------------------
(* Points of a later tick carry no earlier time. *)
LEMMA OrderInductive ==
    ASSUME TypeOK, TypeOK', StepInv, OrderInv, [Next]_vars
    PROVE  OrderInv'
  <1>0. /\ now \in Nat /\ began \in Nat /\ began <= now /\ tick \in Nat /\ at \in Nat
    BY PlanShape DEF TypeOK
  <1>1. CASE BeginTick
    <2>1. PICK gap \in {0, 1} :
            /\ sent' = {Rebased(p, gap) : p \in sent}
            /\ accepted' = [i \in DOMAIN accepted |-> Rebased(accepted[i], gap)]
      BY <1>1 DEF BeginTick
    <2>2. \A p \in Made' : \E q \in Made : p = Rebased(q, gap)
      BY <2>1 DEF Made
    <2>3. ASSUME NEW q \in Made
          PROVE  /\ Rebased(q, gap).tick = q.tick
                 /\ Rebased(q, gap).stamp = q.stamp - now - gap
                 /\ Rebased(q, gap).stamp <= 0
      BY <1>0, MadePoints, RebasedPoint
    <2>4. at = 0 /\ at' = 1 /\ tick' = tick + 1
      BY <1>1 DEF BeginTick
    <2>5. ASSUME NEW p \in Made', NEW q \in Made', p.stamp < q.stamp
          PROVE  p.tick < q.tick
      <3>1. PICK a \in Made, b \in Made : p = Rebased(a, gap) /\ q = Rebased(b, gap)
        BY <2>2
      <3>2. a.stamp \in Int /\ b.stamp \in Int
        BY MadePoints
      <3>3. a.stamp < b.stamp
        BY <1>0, <2>3, <2>5, <3>1, <3>2
      <3> QED
        BY <2>3, <3>1, <3>3 DEF OrderInv
    <2>6. ASSUME NEW p \in Made'
          PROVE  p.tick < tick' /\ p.stamp <= 0 /\ p.tick # tick'
      <3>1. PICK a \in Made : p = Rebased(a, gap)
        BY <2>2
      <3>2. a.tick <= tick /\ a.tick \in Nat
        BY MadePoints DEF OrderInv
      <3> QED
        BY <1>0, <2>3, <2>4, <3>1, <3>2
    <2>7. \A p \in Made' : p.tick <= tick'
      <3>1. \A p \in Made' : \E q \in Made : p.tick = q.tick
        BY <2>2, <2>3
      <3> QED
        BY <1>0, <2>4, <3>1, MadePoints DEF OrderInv
    <2> QED
      BY <2>5, <2>6, <2>7 DEF OrderInv
  <1>2. CASE Made' \subseteq Made /\ UNCHANGED <<plan, series, tick, at, began>>
    BY <1>2 DEF OrderInv, AmongFirst, IsFollowed
  <1>3. ASSUME at # 0, NextStep PROVE OrderInv'
    <2>1. Made' = Made /\ UNCHANGED <<tick, plan, series>>
      BY <1>3 DEF NextStep, Made
    <2>2. ASSUME NEW p \in Made, p.tick = tick, at' # 0
          PROVE  AmongFirst(at)' /\ ~IsFollowed'
      BY <1>3, <2>2, NextFollowed DEF OrderInv
    <2>3. ASSUME NEW p \in Made, p.tick = tick
          PROVE  (at' # 0 => AmongFirst(at)') /\ ~IsFollowed'
      BY <2>2, <2>3 DEF IsFollowed
    <2> QED
      BY <2>1, <2>3 DEF OrderInv
  <1>4. CASE Send
    <2>1. CASE UNCHANGED sent
      <3>1. Made' = Made
        BY <1>4, <2>1 DEF Send, Made
      <3> QED
        BY <1>2, <1>4, <3>1 DEF Send
    <2>2. CASE IsFollowed /\ sent' = sent \cup {Attempt}
      <3>1. /\ at # 0 /\ AmongFirst(at) /\ tick # 0
            /\ UNCHANGED <<plan, series, tick, at, began, now, accepted>>
        BY <1>4, <2>2, FollowedOnce DEF Send, IsFollowed, StepInv
      <3>2. Made' = Made \cup {Attempt}
        BY <2>2, <3>1 DEF Made
      <3>3. Attempt.tick = tick /\ Attempt.stamp = began
        BY DEF Attempt
      <3>4. \A p \in Made : p.tick = tick => p.stamp = began
        BY <2>2 DEF OrderInv
      <3>5. \A p \in Made : /\ p.tick \in Nat /\ p.stamp \in Int
                            /\ p.tick <= tick /\ (p.tick < tick => p.stamp <= 0)
        BY MadePoints DEF OrderInv
      <3>6. ASSUME NEW p \in Made'
            PROVE  /\ p.tick \in Nat /\ p.stamp \in Int
                   /\ p.tick <= tick /\ (p.tick < tick => p.stamp <= 0)
                   /\ (p.tick = tick => p.stamp = began)
        BY <1>0, <3>2, <3>3, <3>4, <3>5
      <3>7. ASSUME NEW p \in Made', NEW q \in Made', p.stamp < q.stamp
            PROVE  p.tick < q.tick
        <4>1. CASE p \in Made /\ q \in Made
          BY <3>7, <4>1 DEF OrderInv
        <4>2. CASE q = Attempt
          BY <1>0, <3>3, <3>6, <3>7, <4>2
        <4>3. CASE p = Attempt /\ q \in Made
          <5>1. q.stamp > began
            BY <3>3, <3>7, <4>3
          <5> QED
            BY <1>0, <3>4, <3>5, <4>3, <5>1
        <4> QED
          BY <3>2, <4>1, <4>2, <4>3
      <3>8. AmongFirst(at)'
        BY <3>1 DEF AmongFirst
      <3> QED
        BY <3>1, <3>6, <3>7, <3>8 DEF OrderInv
    <2> QED
      BY <1>4, <2>1, <2>2 DEF Send
  <1>5. ASSUME NEW p \in sent, Arrive(p) PROVE OrderInv'
    <2>1. /\ sent' = sent \ {p} /\ accepted' \in {accepted, Append(accepted, p)}
          /\ UNCHANGED clientVars
      BY <1>5 DEF Arrive
    <2>2. p \in Point /\ accepted \in Seq(Point)
      BY DEF TypeOK
    <2>3. {accepted'[i] : i \in DOMAIN accepted'} \subseteq {accepted[i] : i \in DOMAIN accepted} \cup {p}
      <3>1. CASE accepted' = accepted
        BY <3>1
      <3>2. CASE accepted' = Append(accepted, p)
        <4>1. /\ Len(accepted) \in Nat /\ DOMAIN accepted = 1..Len(accepted)
              /\ accepted' \in Seq(Point) /\ Len(accepted') = Len(accepted) + 1
              /\ \A i \in 1..Len(accepted) : accepted'[i] = accepted[i]
              /\ accepted'[Len(accepted) + 1] = p
          BY <2>2, <3>2, AppendProperties, LenProperties
        <4>2. \A i \in DOMAIN accepted' : i \in DOMAIN accepted \/ i = Len(accepted) + 1
          BY <4>1, LenProperties
        <4> QED
          BY <4>1, <4>2
      <3> QED
        BY <2>1, <3>1, <3>2
    <2>4. Made' \subseteq Made
      BY <2>1, <2>3 DEF Made
    <2> QED
      BY <1>2, <2>1, <2>4 DEF clientVars
  <1>6. CASE Return
    BY <1>3, <1>6 DEF Return, IsRequest
  <1>7. CASE Retry
    BY <1>2, <1>7 DEF Retry, Made
  <1>8. CASE WakeUp
    BY <1>2, <1>8 DEF WakeUp, Made
  <1>9. CASE GiveUp
    BY <1>3, <1>9 DEF GiveUp, IsRequest
  <1>10. CASE EndProbe
    BY <1>3, <1>10 DEF EndProbe, IsProbe
  <1>11. CASE Elapse
    BY <1>2, <1>11 DEF Elapse, clientVars, Made
  <1>12. CASE UNCHANGED vars
    BY <1>2, <1>12 DEF vars, clientVars, Made
  <1> QED
    BY <1>1, <1>4, <1>5, <1>6, <1>7, <1>8, <1>9, <1>10, <1>11, <1>12 DEF Next, Client

-------------------------------------------------------------------------------
(* A request of a tick that is in time ends when it is answered, or else   *)
(* the API has failed or delayed it.                                       *)
LEMMA StepEnds ==
    ASSUME TypeOK, FreshInv, Return \/ GiveUp \/ EndProbe
    PROVE  /\ at # 0 /\ NextStep /\ (~outage' => ~outage)
           /\ IsFollowed /\ ~outage' /\ now < TickDeadline => ~IsLater(0)
  <1>0. now \in Nat /\ began \in Nat /\ \A i \in DOMAIN accepted : accepted[i].stamp \in Int
    <2>1. \A p \in Made : p.stamp \in Int
      BY MadePoints
    <2> QED
      BY <2>1 DEF TypeOK, Made
  <1>1. CASE Return
    <2>1. at # 0 /\ NextStep /\ outage' = (outage \/ (IsFollowed /\ IsLater(began)))
      BY <1>1 DEF Return, IsRequest
    <2>2. ~IsLater(began) => ~IsLater(0)
      BY <1>0 DEF IsLater
    <2> QED
      BY <2>1, <2>2
  <1>2. CASE GiveUp
    <2>1. at # 0 /\ NextStep /\ now >= CallDeadline /\ UNCHANGED outage
      BY <1>2 DEF GiveUp, IsRequest
    <2>2. IsFollowed /\ ~outage => now = began
      BY <2>1 DEF FreshInv
    <2>3. now = began => now >= TickDeadline
      BY <2>1, Deadlines
    <2> QED
      BY <2>1, <2>2, <2>3, Deadlines
  <1>3. CASE EndProbe
    BY <1>3, StepKinds DEF EndProbe, IsProbe
  <1> QED
    BY <1>1, <1>2, <1>3

(* Without an outage a request is answered as soon as it is made. *)
LEMMA FreshInductive ==
    ASSUME TypeOK, TypeOK', StepInv, FreshInv, [Next]_vars
    PROVE  FreshInv'
  <1>0. now \in Nat /\ outage \in BOOLEAN
    BY DEF TypeOK
  <1>1. CASE BeginTick
    <2>1. at' = 1 /\ now' = 0 /\ began' = 0 /\ call' = "ready"
      BY <1>1 DEF BeginTick, StepInv
    <2>2. ~AmongFirst(at - 1)'
      BY <2>1 DEF AmongFirst
    <2> QED
      BY <2>1, <2>2 DEF FreshInv
  <1>2. ASSUME at # 0, NextStep, ~outage' => ~outage,
               IsFollowed /\ ~outage' /\ now < TickDeadline => ~IsLater(0)
        PROVE  FreshInv'
    <2> SUFFICES ASSUME at' # 0, ~outage'
                 PROVE  /\ IsFollowed' => now' = began' /\ call' # "pausing"
                        /\ AmongFirst(at - 1)' /\ now' < TickDeadline => ~IsLater(0)'
      BY DEF FreshInv, TickDeadline
    <2>1. now' = now /\ began' = now /\ call' = "ready" /\ UNCHANGED accepted
      BY <1>2 DEF NextStep
    <2>2. AmongFirst(at - 1)' => AmongFirst(at - 1) \/ IsFollowed
      BY <1>2, NextFollowed, FollowedOnce
    <2>3. now < TickDeadline /\ AmongFirst(at - 1)' => ~IsLater(0)
      BY <1>2, <2>2 DEF FreshInv
    <2> QED
      BY <2>1, <2>3 DEF IsLater, TickDeadline
  <1>3. ASSUME UNCHANGED <<plan, series, at, began, now, accepted>>,
               ~outage' => ~outage, ~outage' /\ IsFollowed => call' # "pausing"
        PROVE  FreshInv'
    BY <1>3 DEF FreshInv, IsFollowed, AmongFirst, IsLater, TickDeadline
  <1>4. CASE Send
    BY <1>3, <1>4 DEF Send
  <1>5. ASSUME NEW p \in sent, Arrive(p) PROVE FreshInv'
    <2>1. /\ accepted' \in {accepted, Append(accepted, p)}
          /\ UNCHANGED <<clientVars, now, outage>>
      BY <1>5 DEF Arrive
    <2>2. ~IsLater(0) => ~IsLater(0)'
      <3>1. CASE accepted' = accepted
        BY <3>1 DEF IsLater
      <3>2. CASE accepted' = Append(accepted, p)
        <4>1. /\ DOMAIN accepted \subseteq DOMAIN accepted'
              /\ \A i \in DOMAIN accepted : accepted'[i] = accepted[i]
          <5>1. /\ Len(accepted) \in Nat /\ DOMAIN accepted = 1..Len(accepted)
                /\ accepted' \in Seq(Point) /\ Len(accepted') = Len(accepted) + 1
                /\ \A i \in 1..Len(accepted) : accepted'[i] = accepted[i]
            BY <3>2, AppendProperties, LenProperties DEF TypeOK
          <5> QED
            BY <5>1, LenProperties
        <4> QED
          BY <4>1 DEF IsLater
      <3> QED
        BY <2>1, <3>1, <3>2
    <2> QED
      BY <2>1, <2>2 DEF clientVars, FreshInv, IsFollowed, AmongFirst, TickDeadline
  <1>6. CASE Return \/ GiveUp \/ EndProbe
    BY <1>2, <1>6, StepEnds
  <1>7. CASE Retry
    BY <1>0, <1>3, <1>7 DEF Retry
  <1>8. CASE WakeUp
    BY <1>3, <1>8 DEF WakeUp
  <1>9. CASE Elapse
    <2>1. /\ at # 0 /\ (IsRequest => call # "ready") /\ now <= now'
          /\ outage' = (outage \/ (IsFollowed /\ call = "calling"))
          /\ UNCHANGED <<plan, series, at, began, call, accepted>>
      BY <1>9, RequestsAssumption DEF Elapse, Earlier, clientVars, TypeOK
    <2>2. ~outage' => ~outage /\ ~IsFollowed
      <3>1. IsFollowed => call \in {"calling", "pausing"}
        BY <2>1, StepKinds DEF TypeOK
      <3> QED
        BY <2>1, <3>1 DEF FreshInv
    <2>3. now' < TickDeadline => now < TickDeadline
      <3>1. now' \in Nat
        BY DEF TypeOK
      <3> QED
        BY <1>0, <2>1, <3>1, Deadlines
    <2> QED
      BY <2>1, <2>2, <2>3 DEF FreshInv, IsFollowed, AmongFirst, IsLater, TickDeadline
  <1>10. CASE UNCHANGED vars
    BY <1>3, <1>10 DEF vars, clientVars, FreshInv
  <1> QED
    BY <1>1, <1>4, <1>5, <1>6, <1>7, <1>8, <1>9, <1>10 DEF Next, Client

-------------------------------------------------------------------------------
(* The inductive invariant holds in every reachable state. *)
THEOREM Invariance == Spec => []RequestsInv
  <1>1. Init => RequestsInv
    <2> SUFFICES ASSUME Init PROVE RequestsInv
      OBVIOUS
    <2>1. Len(plan) \in Nat
      BY PlanShape DEF Init
    <2>2. TypeOK
      <3>1. /\ 0 \in 0..MaxTicks /\ 0 \in 0..Len(plan) /\ 0 \in 0..0
            /\ 0 \in 0..(0 + MaxPause) /\ 1 \in 1..MaxPause /\ 0 \in 0..(Interval + 1)
        BY <2>1, RequestsAssumption
      <3>2. accepted \in Seq(Point)
        BY EmptySeq DEF Init
      <3> QED
        BY <3>1, <3>2 DEF Init, TypeOK
    <2>3. StepInv
      BY <2>1, PlanShape DEF Init, StepInv, AmongFirst
    <2>4. Made = {}
      BY DEF Init, Made
    <2> QED
      BY <2>2, <2>3, <2>4 DEF Init, RequestsInv, OrderInv, FreshInv
  <1>2. RequestsInv /\ [Next]_vars => RequestsInv'
    <2> SUFFICES ASSUME RequestsInv, [Next]_vars PROVE RequestsInv'
      OBVIOUS
    <2>1. TypeOK'
      BY TypeInductive DEF RequestsInv
    <2> QED
      BY <2>1, StepInductive, OrderInductive, FreshInductive DEF RequestsInv
  <1> QED
    BY <1>1, <1>2, PTL DEF Spec

(* The variables keep their types; no pause is longer than MaxPause. *)
THEOREM TypeCorrect == Spec => []TypeOK
  <1>1. RequestsInv => TypeOK
    BY DEF RequestsInv
  <1> QED
    BY <1>1, Invariance, PTL

(* The second request of a tick always has the difference of the interval  *)
(* and the deadline of the first left (gcm.go:35).                         *)
THEOREM SecondHasTime == Spec => []AvailabilityHasTime
  <1>1. RequestsInv => AvailabilityHasTime
    BY Deadlines, RequestsAssumption
    DEF RequestsInv, StepInv, AvailabilityHasTime, TickDeadline
  <1> QED
    BY <1>1, Invariance, PTL

(* A tick that ends in time leaves the API with a point of its own of the  *)
(* series, unless the API failed or delayed the request for that series.   *)
THEOREM FreshInTime == Spec => FreshWhenUp
  <1>1. RequestsInv /\ [Next]_vars
        => [at # 0 /\ at' = 0 /\ ~outage' /\ now < TickDeadline => ~IsLater(0)]_vars
    <2> SUFFICES ASSUME RequestsInv, Next, at # 0, at' = 0, ~outage', now < TickDeadline
                 PROVE  ~IsLater(0)
      OBVIOUS
    <2>1. TypeOK /\ StepInv /\ FreshInv
      BY DEF RequestsInv
    <2>2. Return \/ GiveUp \/ EndProbe
      BY DEF Next, Client, BeginTick, Send, Arrive, clientVars, Retry, WakeUp, Elapse
    <2>3. at = Len(plan)
      <3>1. at + 1 # 0
        BY <2>1, PlanShape DEF TypeOK
      <3> QED
        BY <2>1, <2>2, <3>1, StepEnds DEF NextStep
    <2>4. AmongFirst(at - 1) \/ IsFollowed
      BY <2>1, <2>3, FollowedOnce DEF StepInv
    <2> QED
      BY <2>1, <2>2, <2>4, StepEnds DEF FreshInv
  <1> QED
    BY <1>1, Invariance, PTL DEF Spec, FreshWhenUp

-------------------------------------------------------------------------------
(* What the API takes is one of the points that are made, of a later tick  *)
(* than all it has.                                                        *)
LEMMA StepRefines ==
    ASSUME TypeOK, OrderInv, [Next]_vars
    PROVE  [PublishedInOrder!Next]_<<tick, [i \in DOMAIN accepted |-> accepted[i].tick]>>
  <1> DEFINE taken == [i \in DOMAIN accepted |-> accepted[i].tick]
  <1> DEFINE Stutters == UNCHANGED <<tick, taken>>
  <1>0. accepted \in Seq(Point) /\ Len(accepted) \in Nat /\ DOMAIN accepted = 1..Len(accepted)
        /\ \A i \in DOMAIN accepted : accepted[i] \in Point
    BY LenProperties, ElementOfSeq DEF TypeOK
  <1>1. CASE UNCHANGED <<tick, accepted>>
    BY <1>1
  <1>2. CASE BeginTick
    <2>2. PICK gap \in {0, 1} :
            accepted' = [i \in DOMAIN accepted |-> Rebased(accepted[i], gap)]
      BY <1>2 DEF BeginTick
    <2>3. \A p \in Point : Rebased(p, gap).tick = p.tick
      BY RebasedPoint DEF TypeOK
    <2>4. taken' = taken
      BY <1>0, <2>2, <2>3
    <2>5. tick' = tick + 1
      BY <1>2 DEF BeginTick
    <2> QED
      BY <2>4, <2>5 DEF PublishedInOrder!Next, PublishedInOrder!BeginTick
  <1>3. ASSUME NEW p \in sent, Arrive(p)
        PROVE  Stutters \/ \E t \in 1..tick : PublishedInOrder!Publish(t)
    <2>1. /\ accepted' = IF IsLater(p.stamp) THEN Append(accepted, p) ELSE accepted
          /\ UNCHANGED tick
      BY <1>3 DEF Arrive, clientVars
    <2>2. CASE ~IsLater(p.stamp)
      BY <2>1, <2>2
    <2>3. CASE IsLater(p.stamp)
      <3>1. p \in Made /\ \A i \in DOMAIN accepted : accepted[i] \in Made
        BY DEF Made
      <3>2. p.tick \in 1..tick
        BY <3>1, MadePoints DEF OrderInv, TypeOK
      <3>3. \A i \in DOMAIN accepted : accepted[i].tick < p.tick
        BY <2>3, <3>1 DEF IsLater, OrderInv
      <3>4. p \in Point /\ \A i \in DOMAIN accepted : accepted[i].tick \in Nat
        BY <1>0, <3>1, MadePoints
      <3>5. p.tick \in Nat /\ taken \in Seq(Nat) /\ Len(taken) = Len(accepted)
        <4>1. taken \in [1..Len(accepted) -> Nat]
          BY <1>0, <3>4
        <4>2. taken \in Seq(Nat)
          BY <1>0, <4>1, SeqDef
        <4> QED
          BY <1>0, <3>1, <4>2, LenProperties, MadePoints
      <3>6. taken' = Append(taken, p.tick)
        <4>1. /\ accepted' \in Seq(Point) /\ Len(accepted') = Len(accepted) + 1
              /\ DOMAIN accepted' = 1..(Len(accepted) + 1)
              /\ \A i \in 1..Len(accepted) : accepted'[i] = accepted[i]
              /\ accepted'[Len(accepted) + 1] = p
          <5>1. accepted' = Append(accepted, p)
            BY <2>1, <2>3
          <5>2. /\ accepted' \in Seq(Point) /\ Len(accepted') = Len(accepted) + 1
                /\ \A i \in 1..Len(accepted) : accepted'[i] = accepted[i]
                /\ accepted'[Len(accepted) + 1] = p
            BY <1>0, <3>4, <5>1, AppendProperties
          <5> QED
            BY <5>2, LenProperties
        <4>2. /\ Append(taken, p.tick) \in Seq(Nat) /\ Len(Append(taken, p.tick)) = Len(accepted) + 1
              /\ \A i \in 1..Len(accepted) : Append(taken, p.tick)[i] = taken[i]
              /\ Append(taken, p.tick)[Len(accepted) + 1] = p.tick
          <5> HIDE DEF taken
          <5> QED
            BY <3>5, AppendProperties
        <4>3. \A i \in 1..(Len(accepted) + 1) : i \in 1..Len(accepted) \/ i = Len(accepted) + 1
          BY <1>0
        <4>4. \A i \in 1..(Len(accepted) + 1) : taken'[i] = Append(taken, p.tick)[i]
          BY <1>0, <4>1, <4>2, <4>3
        <4>5. taken' \in Seq(Nat) /\ Len(taken') = Len(accepted) + 1
          <5>1. taken' \in [1..(Len(accepted) + 1) -> Nat]
            BY <1>0, <3>4, <3>5, <4>1, <4>3
          <5>2. taken' \in Seq(Nat)
            BY <1>0, <5>1, SeqDef
          <5> QED
            BY <1>0, <5>1, <5>2, LenProperties
        <4> HIDE DEF taken
        <4> QED
          BY <4>2, <4>4, <4>5, SeqEqual
      <3>7. \A i \in DOMAIN taken : taken[i] < p.tick
        BY <3>3
      <3> QED
        BY <2>1, <3>2, <3>6, <3>7 DEF PublishedInOrder!Publish
    <2> QED
      BY <2>2, <2>3
  <1>4. CASE BeginTick \/ \E p \in sent : Arrive(p)
    BY <1>2, <1>3, <1>4 DEF PublishedInOrder!Next
  <1> QED
    BY <1>1, <1>4
    DEF Next, Client, vars, clientVars, Send, Return, Retry, WakeUp, GiveUp, EndProbe,
        NextStep, Elapse

(* Whatever is lost, repeated or late, the API takes at most one point of  *)
(* a series from every tick, and those of the ticks in order: the requests *)
(* implement Publishing.                                                   *)
THEOREM Refinement == Spec => PublishesInOrder
  <1>1. Init => PublishedInOrder!Init
    BY DEF Init, PublishedInOrder!Init
  <1>2. RequestsInv /\ [Next]_vars
        => [PublishedInOrder!Next]_<<tick, [i \in DOMAIN accepted |-> accepted[i].tick]>>
    BY StepRefines DEF RequestsInv
  <1> QED
    BY <1>1, <1>2, Invariance, PTL DEF Spec, PublishesInOrder, PublishedInOrder!Spec
===============================================================================
