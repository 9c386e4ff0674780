----------------------------- MODULE WatchdogProofs -----------------------------
(***************************************************************************)
(* Proofs about Watchdog, for every interval, latency and liveness probe.  *)
(* A step of the composition is a step of TickLoop, whose lemmas apply, or *)
(* a restart.                                                              *)
(***************************************************************************)
EXTENDS Watchdog, TickLoopProofs

(* The time of n polls grows by a period with each of them.                *)
LEMMA PollingGrows ==
    ASSUME NEW n \in Nat
    PROVE  /\ Polling(n) \in Nat
           /\ Polling(n + 1) = Polling(n) + Period
           /\ Polling(n + 2) = Polling(n + 1) + Period
  BY WatchdogAssumption DEF Polling

LEMMA PollingOnce == Polling(1) = Period
  BY WatchdogAssumption DEF Polling

(* More polls take longer. *)
LEMMA PollingMonotone ==
    ASSUME NEW m \in Nat, NEW n \in Nat, m <= n
    PROVE  Polling(m) <= Polling(n)
  <1>1. PICK d \in Nat : n = m + d
    <2>1. n - m \in Nat /\ n = m + (n - m)
      OBVIOUS
    <2> QED
      BY <2>1
  <1>2. Polling(n) = Polling(m) + d * Period
    BY <1>1, WatchdogAssumption DEF Polling
  <1>3. d * Period \in Nat /\ Polling(m) \in Nat
    BY WatchdogAssumption DEF Polling
  <1> QED
    BY <1>2, <1>3

LEMMA LongestHangIsNat ==
    LongestHang \in Nat /\ LongestHang = MaxTickWait + Polling(Threshold) + Latency
  BY MaxTickWaitMargin, TickLoopAssumption, WatchdogAssumption DEF LongestHang, Polling

-------------------------------------------------------------------------------
(* The kubelet adds restarts to what the prober does, and no other step. *)
LEMMA StepOrRestart ==
    ASSUME [WatchedNext]_watchedVars
    PROVE  [Next]_vars \/ Restart
  BY DEF WatchedNext, watchedVars, Prober, Poll, Reply, WatchedElapse, Next, Healthz

(* A prober that was restarted is in a state as good as a new one. *)
LEMMA RestartIsFresh ==
    ASSUME TypeOK, Restart
    PROVE  TypeOK' /\ LoopInv'
  <1> USE TickLoopAssumption DEF Restart, None
  <1>1. TypeOK'
    <2>1. untilFire' \in 0..Interval
      OBVIOUS
    <2> QED
      BY <2>1 DEF TypeOK, Age
  <1>2. LoopInv'
    BY DEF LoopInv, ClockBounds, StartInv, GridInv, PendingInv, HandlerInv, SinceFire
  <1> QED
    BY <1>1, <1>2

(* Every step keeps the types and polls one at a time. *)
LEMMA WatchedTypeInductive ==
    ASSUME WatchedTypeOK, PollInv, [WatchedNext]_watchedVars
    PROVE  WatchedTypeOK' /\ PollInv'
  <1>1. TypeOK'
    BY StepOrRestart, RestartIsFresh, TypeInductive DEF WatchedTypeOK
  <1> USE WatchdogAssumption DEF WatchedTypeOK, TypeOK, PollInv, kubeletVars
  <1>2. CASE Prober
    BY <1>1, <1>2 DEF Prober, Scrape, FirstTick, NextTick, Recorded, EndTick, AfterTick, Return,
                      MayReturn, Fire, Cancel, handlerVars
  <1>3. CASE Poll
    BY <1>1, <1>3 DEF Poll, Polled, HealthzRead, loopVars
  <1>4. CASE Reply
    BY <1>1, <1>4 DEF Reply, HealthzReply, loopVars
  <1>5. CASE Restart
    BY <1>1, <1>5 DEF Restart
  <1>6. CASE WatchedElapse
    BY <1>1, <1>6 DEF WatchedElapse, Elapse
  <1>7. CASE UNCHANGED watchedVars
    BY <1>1, <1>7 DEF watchedVars, vars, loopVars, handlerVars
  <1> QED
    BY <1>2, <1>3, <1>4, <1>5, <1>6, <1>7 DEF WatchedNext

-------------------------------------------------------------------------------
(* A handler goes on judging what is at least as old as what is recorded.  *)
LEMMA JudgedInductive ==
    ASSUME WatchedTypeOK, PollsInTime, LoopInv, JudgedInv, [WatchedNext]_watchedVars
    PROVE  JudgedInv'
  <1> USE TickLoopAssumption, WatchdogAssumption
      DEF WatchedTypeOK, TypeOK, None, Age, PollsInTime, JudgedInv, kubeletVars
  <1>1. CASE Prober
    <2> USE <1>1 DEF Prober, handlerVars
    <2>1. CASE FirstTick
      BY <2>1 DEF FirstTick, Recorded
    <2>2. CASE NextTick
      BY <2>2 DEF NextTick, Recorded, LoopInv, GridInv
    <2>3. CASE EndTick \/ Return \/ Fire \/ Cancel
      BY <2>3 DEF EndTick, Return, Fire, Cancel
    <2> QED
      BY <2>1, <2>2, <2>3 DEF Scrape
  <1>2. CASE Poll
    BY <1>2 DEF Poll, HealthzRead, loopVars
  <1>3. CASE Reply \/ Restart
    BY <1>3 DEF Reply, HealthzReply, Restart
  <1>4. CASE WatchedElapse
    BY <1>4 DEF WatchedElapse, Elapse, Aged
  <1>5. CASE UNCHANGED watchedVars
    BY <1>5 DEF watchedVars, vars, loopVars, handlerVars
  <1> QED
    BY <1>1, <1>2, <1>3, <1>4, <1>5 DEF WatchedNext

(* The clock takes from one what it gives to the other. *)
LEMMA OneUnit ==
    ASSUME NEW age \in Int, NEW older \in Int, NEW due \in Int, older <= age + 1
    PROVE  older + (due - 1) <= age + due
  OBVIOUS

(* What is recorded stays within what the failed polls allow. *)
LEMMA RecordedInductive ==
    ASSUME WatchedTypeOK, PollInv, PollsInTime, LoopInv, JudgedInv, RecordedInv,
           [WatchedNext]_watchedVars
    PROVE  RecordedInv'
  <1>1. /\ MaxTickWait \in Nat /\ Interval <= MaxTickWait
        /\ LongestHang = MaxTickWait + Polling(Threshold) + Latency
    BY MaxTickWaitMargin, LongestHangIsNat, TickLoopAssumption
  <1>2. failed \in Nat /\ failed <= Threshold /\ Threshold \in Nat
    BY WatchdogAssumption DEF WatchedTypeOK
  <1>3. /\ Polling(failed + 1) \in Nat
        /\ Polling(failed + 2) = Polling(failed + 1) + Period
        /\ Period <= Polling(failed + 1)
    <2>1. failed + 1 \in Nat /\ 1 <= failed + 1
      BY <1>2
    <2> QED
      BY <1>2, <2>1, PollingGrows, PollingOnce, PollingMonotone
  <1>4. untilPoll \in Nat /\ untilPoll <= MaxTickWait + Period
    BY <1>1, WatchdogAssumption DEF WatchedTypeOK, PollsInTime
  <1>5. tickLastStart \in Int /\ Latency \in Nat /\ Period \in Nat
    BY TickLoopAssumption, WatchdogAssumption DEF WatchedTypeOK, TypeOK, Age, None
  <1>6. CASE Prober
    <2> USE <1>6 DEF Prober, handlerVars, kubeletVars
    <2>1. CASE FirstTick
      <3>1. /\ tickLastStart' = 0
            /\ UNCHANGED <<ctxDone, handler, untilPoll, failed>>
        BY <2>1 DEF FirstTick, Recorded
      <3>2. 0 <= LongestHang
        BY LongestHangIsNat
      <3> QED
        BY <1>1, <1>3, <1>4, <1>5, <3>1, <3>2 DEF RecordedInv
    <2>2. CASE NextTick
      <3>1. /\ tickLastStart' \in Int /\ tickLastStart' <= tickLastStart
            /\ UNCHANGED <<ctxDone, handler, untilPoll, failed>>
        BY <2>2 DEF NextTick, Recorded, LoopInv, GridInv, WatchedTypeOK, TypeOK, Age, None
      <3>2. LongestHang \in Nat
        BY LongestHangIsNat
      <3> QED
        BY <1>1, <1>3, <1>4, <1>5, <3>1, <3>2 DEF RecordedInv
    <2>3. CASE EndTick \/ Return \/ Fire \/ Cancel
      <3>1. /\ UNCHANGED <<tickLastStart, handler, untilPoll, failed>>
            /\ ~ctxDone' => ~ctxDone
        BY <2>3 DEF EndTick, Return, Fire, Cancel
      <3> QED
        BY <3>1 DEF RecordedInv
    <2> QED
      BY <2>1, <2>2, <2>3 DEF Scrape
  <1>7. CASE Poll
    <2>1. /\ UNCHANGED <<ctxDone, tickLastStart, failed>>
          /\ failed < Threshold /\ ~ctxDone
          /\ handler = "idle" /\ handler' = "evaluate"
          /\ untilPoll = 0 /\ untilPoll' = Period
      BY <1>7 DEF Poll, Polled, HealthzRead, loopVars
    <2> QED
      BY <1>1, <1>2, <1>3, <1>5, <2>1 DEF RecordedInv
  <1>8. CASE Reply
    <2>1. /\ UNCHANGED <<ctxDone, tickLastStart, untilPoll>>
          /\ handler = "evaluate" /\ handler' = "idle" /\ failed < Threshold
          /\ handling \in Nat /\ handling <= Latency /\ untilPoll + handling = Period
      BY <1>8 DEF Reply, HealthzReply, loopVars, PollInv, LoopInv, ClockBounds, JudgedInv,
                  WatchedTypeOK, TypeOK
    <2>2. CASE failed' = failed + 1
      <3>1. failed' < Threshold => Polling(failed' + 1) = Polling(failed + 1) + Period
        BY <1>2, <1>3, <2>2
      <3>2. failed' = Threshold => Polling(Threshold) = Polling(failed + 1)
        BY <2>2
      <3>3. ~ctxDone =>
              tickLastStart + untilPoll <= MaxTickWait + Polling(failed + 1) + Period
        BY <2>1 DEF RecordedInv
      <3> QED
        BY <1>1, <1>2, <1>3, <1>4, <1>5, <2>1, <3>1, <3>2, <3>3 DEF RecordedInv
    <2>3. CASE failed' = 0
      <3>1. lastTickStart = None \/ lastTickStart <= MaxTickWait
        BY <1>1, <1>8, <2>1, <2>3, <1>2
        DEF Reply, HealthzReply, Overdue, WatchedTypeOK, TypeOK, Age, None
      <3>2. tickLastStart <= MaxTickWait
        BY <1>1, <1>5, <2>1, <3>1, TickLoopAssumption
        DEF JudgedInv, PollsInTime, PromptScheduling, WatchedTypeOK, TypeOK, Age, None
      <3>3. untilPoll <= Period
        BY <1>4, <1>5, <2>1
      <3> QED
        BY <1>1, <1>4, <1>5, <2>1, <2>3, <3>2, <3>3, PollingOnce, WatchdogAssumption
        DEF RecordedInv
    <2> QED
      BY <1>8, <2>2, <2>3 DEF Reply
  <1>9. CASE Restart
    <2>1. /\ tickLastStart' = -1 /\ untilPoll' = InitialDelay /\ failed' = 0
          /\ handler' = "idle"
      BY <1>9 DEF Restart, None
    <2> QED
      BY <1>1, <2>1, PollingOnce, WatchdogAssumption DEF RecordedInv, PollsInTime
  <1>10. CASE WatchedElapse
    <2>0. tickLastStart' \in Int /\ tickLastStart' <= tickLastStart + 1
      BY <1>10 DEF WatchedElapse, Elapse, Aged, WatchedTypeOK, TypeOK, Age, None
    <2>1. /\ UNCHANGED <<ctxDone, handler, failed>>
          /\ untilPoll' = IF untilPoll = 0 THEN 0 ELSE untilPoll - 1
          /\ ~ctxDone => failed < Threshold /\ (untilPoll = 0 => handler = "evaluate")
      BY <1>10 DEF WatchedElapse, Elapse
    <2>2. handler = "evaluate" => untilPoll # 0
      BY <1>5, <1>10
      DEF WatchedElapse, Elapse, JudgedInv, PollsInTime, WatchedTypeOK, TypeOK
    <2>3. ~ctxDone => untilPoll # 0
      BY <2>1, <2>2
    <2>4. SUFFICES ASSUME ~ctxDone PROVE RecordedInv'
      BY <2>1 DEF RecordedInv
    <2>5. failed < Threshold /\ untilPoll' = untilPoll - 1
      BY <2>1, <2>3, <2>4
    <2>6. tickLastStart' + untilPoll' <= tickLastStart + untilPoll
      <3>1. /\ untilPoll \in Int /\ tickLastStart \in Int
            /\ tickLastStart' \in Int /\ tickLastStart' <= tickLastStart + 1
        BY <1>4, <1>5, <2>0
      <3>2. tickLastStart' + (untilPoll - 1) <= tickLastStart + untilPoll
        BY <3>1, OneUnit
      <3> QED
        BY <2>5, <3>2
    <2>7. untilPoll' \in Int /\ failed' = failed /\ handler' = handler
      BY <1>4, <2>1, <2>5
    <2> QED
      BY <1>1, <1>2, <1>3, <1>4, <1>5, <2>0, <2>1, <2>4, <2>5, <2>6, <2>7 DEF RecordedInv
  <1>11. CASE UNCHANGED watchedVars
    BY <1>11 DEF RecordedInv, watchedVars, vars, loopVars, handlerVars, kubeletVars
  <1> QED
    BY <1>6, <1>7, <1>8, <1>9, <1>10, <1>11 DEF WatchedNext

(* What is recorded is never older than a hang may be. *)
LEMMA HangingEnds ==
    ASSUME WatchedTypeOK, PollInv, PollsInTime, LoopInv, JudgedInv, RecordedInv, ~ctxDone
    PROVE  tickLastStart <= LongestHang
  <1>1. /\ failed \in Nat /\ failed <= Threshold
        /\ MaxTickWait \in Nat /\ LongestHang = MaxTickWait + Polling(Threshold) + Latency
    BY MaxTickWaitMargin, LongestHangIsNat, WatchdogAssumption DEF WatchedTypeOK
  <1>2. SUFFICES ASSUME failed # Threshold
                 PROVE  tickLastStart <= LongestHang
    BY DEF RecordedInv
  <1>3. /\ failed + 1 \in Nat /\ failed + 1 <= Threshold /\ Threshold \in Nat
    BY <1>1, <1>2, WatchdogAssumption
  <1>4. /\ Polling(failed + 1) \in Nat /\ Polling(Threshold) \in Nat
        /\ Polling(failed + 1) <= Polling(Threshold)
        /\ Polling(failed + 2) = Polling(failed + 1) + Period
    BY <1>1, <1>3, PollingGrows, PollingMonotone
  <1> QED
    BY <1>1, <1>2, <1>4, TickLoopAssumption, WatchdogAssumption
    DEF WatchedTypeOK, TypeOK, Age, None, RecordedInv, JudgedInv, LoopInv, ClockBounds

(* A prober that is restarted in time never drops a value of its ticker. *)
LEMMA NoDropInductive ==
    ASSUME WatchedTypeOK, PollInv, PollsInTime, RestartsInTime, LoopInv,
           JudgedInv, RecordedInv, NoDropInv, [WatchedNext]_watchedVars
    PROVE  NoDropInv'
  <1>1. ~ctxDone => tickLastStart <= LongestHang
    BY HangingEnds
  <1>2. LongestHang \in Nat
    BY LongestHangIsNat
  <1> USE TickLoopAssumption, WatchdogAssumption
      DEF WatchedTypeOK, TypeOK, None, Age, PollsInTime, PromptScheduling, NoDropInv, SinceFire
  <1>3. CASE Prober
    <2> USE <1>3 DEF Prober
    <2>1. CASE FirstTick
      <3>1. buffered = None /\ SinceFire = dwell /\ dwell <= Latency
        BY <2>1 DEF FirstTick, LoopInv, StartInv, ClockBounds
      <3>2. UNCHANGED <<buffered, untilFire>> /\ tickLastStart' = 0
        BY <2>1 DEF FirstTick, Recorded
      <3>3. buffered' = None /\ SinceFire' = dwell /\ dwell \in Nat
        BY <3>1, <3>2
      <3> QED
        BY <3>1, <3>2, <3>3
    <2>2. CASE NextTick
      BY <2>2 DEF NextTick, Recorded, LoopInv, StartInv
    <2>3. CASE EndTick \/ Return
      BY <2>3 DEF EndTick, Return
    <2>4. CASE Fire
      <3>1. CASE buffered = None
        BY <2>4, <3>1 DEF Fire
      <3>2. CASE buffered # None /\ ~ctxDone
        BY <1>1, <1>2, <2>4, <3>2 DEF Fire, RestartsInTime, LoopInv, GridInv
      <3> QED
        BY <2>4, <3>1, <3>2 DEF Fire
    <2>5. CASE Cancel
      BY <2>5 DEF Cancel
    <2> QED
      BY <2>1, <2>2, <2>3, <2>4, <2>5 DEF Scrape
  <1>4. CASE Poll \/ Reply
    BY <1>4 DEF Poll, Reply, HealthzRead, HealthzReply, loopVars
  <1>5. CASE Restart
    BY <1>5 DEF Restart
  <1>6. CASE WatchedElapse
    BY <1>6 DEF WatchedElapse, Elapse, Aged
  <1>7. CASE UNCHANGED watchedVars
    BY <1>7 DEF watchedVars, vars, loopVars
  <1> QED
    BY <1>3, <1>4, <1>5, <1>6, <1>7 DEF WatchedNext

-------------------------------------------------------------------------------
(* The invariant of the loop under the kubelet holds throughout: the       *)
(* strengthening of the properties of Watchdog.                            *)
THEOREM WatchedInvariance == WatchedSpec => []WatchedInv
  <1>1. WatchedInit => WatchedInv
    <2> SUFFICES ASSUME WatchedInit PROVE WatchedInv
      OBVIOUS
    <2> USE TickLoopAssumption, WatchdogAssumption DEF WatchedInit, Init, None
    <2>1. WatchedTypeOK
      <3>1. untilFire \in 0..Interval /\ untilPoll \in 0..InitialDelay /\ failed \in 0..Threshold
        OBVIOUS
      <3> QED
        BY <3>1 DEF WatchedTypeOK, TypeOK, Age
    <2>2. PollInv
      BY DEF PollInv
    <2>3. LoopInv
      BY DEF LoopInv, ClockBounds, StartInv, GridInv, PendingInv, HandlerInv, SinceFire
    <2>4. PollsInTime => JudgedInv /\ RecordedInv
      BY MaxTickWaitMargin, PollingOnce DEF JudgedInv, RecordedInv, PollsInTime
    <2>5. NoDropInv
      BY DEF NoDropInv
    <2> QED
      BY <2>1, <2>2, <2>3, <2>4, <2>5 DEF WatchedInv
  <1>2. WatchedInv /\ [WatchedNext]_watchedVars => WatchedInv'
    <2> SUFFICES ASSUME WatchedInv, [WatchedNext]_watchedVars PROVE WatchedInv'
      OBVIOUS
    <2>1. WatchedTypeOK' /\ PollInv'
      BY WatchedTypeInductive DEF WatchedInv
    <2>2. PromptScheduling => LoopInv'
      BY StepOrRestart, RestartIsFresh, LoopInductive DEF WatchedInv, WatchedTypeOK
    <2>3. PollsInTime => JudgedInv' /\ RecordedInv'
      BY JudgedInductive, RecordedInductive DEF WatchedInv, PollsInTime
    <2>4. PollsInTime /\ RestartsInTime => NoDropInv'
      BY NoDropInductive DEF WatchedInv, PollsInTime
    <2> QED
      BY <2>1, <2>2, <2>3, <2>4
      DEF WatchedInv, PromptScheduling, PollsInTime, RestartsInTime, LongestHang, MaxTickWait
  <1> QED
    BY <1>1, <1>2, PTL DEF WatchedSpec

(* Every reachable state has the declared types, and no more polls fail    *)
(* than it takes to restart.                                               *)
THEOREM WatchedTypeCorrect == WatchedSpec => []WatchedTypeOK
  <1>1. WatchedInv => WatchedTypeOK
    BY DEF WatchedInv
  <1> QED
    BY <1>1, WatchedInvariance, PTL

(* The instant pending in ticker.C was sent after the last tick began,     *)
(* across restarts.                                                        *)
THEOREM PendingStaysRecent == WatchedSpec => []PendingTickIsRecent
  <1>1. WatchedInv => PendingTickIsRecent
    BY DEF WatchedInv, LoopInv, PendingInv, PendingTickIsRecent
  <1> QED
    BY <1>1, WatchedInvariance, PTL

(* A tick that hangs is ended by the kubelet within a bound.               *)
THEOREM HangsEnd == WatchedSpec => []HangBounded
  <1>1. WatchedInv => HangBounded
    <2> SUFFICES ASSUME WatchedInv, PollsInTime, loop = "tick", ~ctxDone
                 PROVE  dwell <= LongestHang
      BY DEF HangBounded
    <2>1. tickLastStart <= LongestHang
      BY HangingEnds DEF WatchedInv, PollsInTime
    <2>2. dwell <= tickLastStart
      BY DEF WatchedInv, PollsInTime, LoopInv, GridInv
    <2> QED
      BY <2>1, <2>2, LongestHangIsNat DEF WatchedInv, WatchedTypeOK, TypeOK, Age, None
  <1> QED
    BY <1>1, WatchedInvariance, PTL

(* A prober that is restarted in time reports an unfinished tick only when *)
(* one is unfinished or due, although tickLastStart is never cleared.      *)
THEOREM OverdueIsUnfinished == WatchedSpec => []OverdueIsTrue
  <1>1. WatchedInv => OverdueIsTrue
    BY TickLoopAssumption, MaxTickWaitMargin
    DEF WatchedInv, WatchedTypeOK, TypeOK, Age, None, PollInv, PollsInTime, LoopInv, StartInv,
        NoDropInv, SinceFire, OverdueIsTrue, OverdueTickIsUnfinished, Runnable
  <1> QED
    BY <1>1, WatchedInvariance, PTL

(* Every answer given to the kubelet while a tick has run for more than    *)
(* 1.5 intervals reports it, across restarts.                              *)
THEOREM HangsStayReported == WatchedSpec => HangReported
  <1>1. WatchedInv /\ [WatchedNext]_watchedVars =>
          [PromptScheduling /\ HealthzReply /\ loop = "tick" /\ dwell > MaxTickWait
             => response' = "unavailable"]_vars
    BY TickLoopAssumption, MaxTickWaitMargin
    DEF WatchedInv, WatchedTypeOK, TypeOK, None, Age, LoopInv, ClockBounds, HandlerInv,
        HealthzReply, Overdue, PromptScheduling
  <1> QED
    BY <1>1, WatchedInvariance, PTL DEF WatchedSpec, HangReported
===============================================================================
