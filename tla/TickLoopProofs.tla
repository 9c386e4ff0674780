----------------------------- MODULE TickLoopProofs -----------------------------
(***************************************************************************)
(* Proofs about TickLoop, for every report interval, tick duration and     *)
(* scheduling latency.                                                     *)
(***************************************************************************)
EXTENDS TickLoop, TLAPS

(* The liveness handler's limit leaves half an interval beyond a tick's    *)
(* own, which covers the age of a start and of a copy (server.go:186).     *)
LEMMA MaxTickWaitMargin ==
    /\ MaxTickWait \in Nat
    /\ 2 * MaxTickWait <= 3 * Interval
    /\ 3 * Interval <= 2 * MaxTickWait + 1
  BY TickLoopAssumption DEF MaxTickWait

(* A prober that keeps up is scheduled promptly. *)
LEMMA BudgetIsPrompt == WithinBudget => PromptScheduling
  BY TickLoopAssumption DEF WithinBudget, PromptScheduling

-------------------------------------------------------------------------------
(* Every step keeps the types. *)
LEMMA TypeInductive ==
    ASSUME TypeOK, [Next]_vars
    PROVE  TypeOK'
  <1> USE TickLoopAssumption DEF TypeOK, None, Age, vars, loopVars, handlerVars
  <1>1. CASE FirstTick
    BY <1>1 DEF FirstTick, Recorded
  <1>2. CASE NextTick
    BY <1>2 DEF NextTick, Recorded
  <1>3. CASE EndTick
    BY <1>3 DEF EndTick, AfterTick
  <1>4. CASE Return
    BY <1>4 DEF Return, MayReturn
  <1>5. CASE HealthzRead
    BY <1>5 DEF HealthzRead
  <1>6. CASE HealthzReply
    BY <1>6 DEF HealthzReply, Overdue
  <1>7. CASE Fire
    BY <1>7 DEF Fire
  <1>8. CASE Cancel
    BY <1>8 DEF Cancel
  <1>9. CASE Elapse
    BY <1>9 DEF Elapse, Aged, Runnable
  <1>10. CASE UNCHANGED vars
    BY <1>10
  <1> QED
    BY <1>1, <1>2, <1>3, <1>4, <1>5, <1>6, <1>7, <1>8, <1>9, <1>10 DEF Next, Scrape, Healthz

(* With prompt scheduling every step keeps the loop's invariant. *)
LEMMA LoopInductive ==
    ASSUME TypeOK, PromptScheduling, LoopInv, [Next]_vars
    PROVE  LoopInv'
  <1> USE TickLoopAssumption DEF TypeOK, None, Age, vars, loopVars, handlerVars, PromptScheduling,
             LoopInv, ClockBounds, StartInv, GridInv, PendingInv, HandlerInv, SinceFire
  <1>1. CASE FirstTick
    BY <1>1 DEF FirstTick, Recorded
  <1>2. CASE NextTick
    BY <1>2 DEF NextTick, Recorded
  <1>3. CASE EndTick
    BY <1>3 DEF EndTick, AfterTick
  <1>4. CASE Return
    BY <1>4 DEF Return, MayReturn
  <1>5. CASE HealthzRead
    BY <1>5 DEF HealthzRead
  <1>6. CASE HealthzReply
    BY <1>6 DEF HealthzReply, Overdue
  <1>7. CASE Fire
    BY <1>7 DEF Fire
  <1>8. CASE Cancel
    BY <1>8 DEF Cancel
  <1>9. CASE Elapse
    BY <1>9 DEF Elapse, Aged, Runnable
  <1>10. CASE UNCHANGED vars
    BY <1>10
  <1> QED
    BY <1>1, <1>2, <1>3, <1>4, <1>5, <1>6, <1>7, <1>8, <1>9, <1>10 DEF Next, Scrape, Healthz

(* Within budget every step keeps the budget's invariant. *)
LEMMA BudgetInductive ==
    ASSUME TypeOK, WithinBudget, LoopInv, BudgetInv, [Next]_vars
    PROVE  BudgetInv'
  <1> USE TickLoopAssumption, MaxTickWaitMargin DEF TypeOK, None, Age, vars, loopVars, handlerVars, WithinBudget, BudgetInv,
             LoopInv, ClockBounds, StartInv, GridInv, PendingInv, HandlerInv, SinceFire
  <1>1. CASE FirstTick
    BY <1>1 DEF FirstTick, Recorded
  <1>2. CASE NextTick
    BY <1>2 DEF NextTick, Recorded
  <1>3. CASE EndTick
    BY <1>3 DEF EndTick, AfterTick
  <1>4. CASE Return
    BY <1>4 DEF Return, MayReturn
  <1>5. CASE HealthzRead
    BY <1>5 DEF HealthzRead
  <1>6. CASE HealthzReply
    BY <1>6 DEF HealthzReply, Overdue
  <1>7. CASE Fire
    BY <1>7 DEF Fire
  <1>8. CASE Cancel
    BY <1>8 DEF Cancel
  <1>9. CASE Elapse
    BY <1>9 DEF Elapse, Aged, Runnable
  <1>10. CASE UNCHANGED vars
    BY <1>10
  <1> QED
    BY <1>1, <1>2, <1>3, <1>4, <1>5, <1>6, <1>7, <1>8, <1>9, <1>10 DEF Next, Scrape, Healthz

-------------------------------------------------------------------------------
(* The loop's invariant, and within budget the budget's, hold throughout:  *)
(* the strengthening of the properties of TickLoop.                        *)
THEOREM Invariance == Spec => []IInv
  <1>1. Init => IInv
    <2> SUFFICES ASSUME Init PROVE IInv
      OBVIOUS
    <2> USE TickLoopAssumption DEF Init, None
    <2>1. TypeOK
      <3>1. untilFire \in 0..Interval
        OBVIOUS
      <3>2. 0 \in Nat /\ None \in Age
        BY DEF Age
      <3> QED
        BY <3>1, <3>2 DEF TypeOK
    <2>2. LoopInv
      BY DEF LoopInv, ClockBounds, StartInv, GridInv, PendingInv, HandlerInv, SinceFire
    <2>3. BudgetInv
      BY DEF BudgetInv
    <2> QED
      BY <2>1, <2>2, <2>3 DEF IInv
  <1>2. IInv /\ [Next]_vars => IInv'
    <2> SUFFICES ASSUME IInv, [Next]_vars PROVE IInv'
      OBVIOUS
    <2>1. TypeOK'
      BY TypeInductive DEF IInv
    <2>2. PromptScheduling => LoopInv'
      BY LoopInductive DEF IInv
    <2>3. WithinBudget => BudgetInv'
      BY BudgetInductive, BudgetIsPrompt DEF IInv
    <2> QED
      BY <2>1, <2>2, <2>3 DEF IInv, PromptScheduling, WithinBudget
  <1> QED
    BY <1>1, <1>2, PTL DEF Spec

(* Every reachable state has the declared types. *)
THEOREM TypeCorrect == Spec => []TypeOK
  <1>1. IInv => TypeOK
    BY DEF IInv
  <1> QED
    BY <1>1, Invariance, PTL

(* A prober that keeps up with its interval is never reported dead. *)
THEOREM NeverFalselyReported == Spec => []NoFalseAlarm
  <1>1. IInv => NoFalseAlarm
    BY DEF IInv, BudgetInv, NoFalseAlarm
  <1> QED
    BY <1>1, Invariance, PTL

(* The instant pending in ticker.C was sent after the last tick began. *)
THEOREM PendingIsRecent == Spec => []PendingTickIsRecent
  <1>1. IInv => PendingTickIsRecent
    BY DEF IInv, LoopInv, PendingInv, PendingTickIsRecent
  <1> QED
    BY <1>1, Invariance, PTL

(* Every liveness reply given while a tick has run for more than 1.5       *)
(* intervals reports it, even when it judges a copy read before that tick. *)
THEOREM HangsAreReported == Spec => HangReported
  <1>1. IInv /\ [Next]_vars =>
          [PromptScheduling /\ HealthzReply /\ loop = "tick" /\ dwell > MaxTickWait
             => response' = "unavailable"]_vars
    BY TickLoopAssumption, MaxTickWaitMargin
    DEF IInv, TypeOK, None, Age, LoopInv, ClockBounds, HandlerInv, HealthzReply, Overdue,
        PromptScheduling
  <1> QED
    BY <1>1, Invariance, PTL DEF Spec, HangReported

(* Recorded start times move forward. *)
THEOREM StartsMoveForward == Spec => StartTimesAdvance
  <1>1. IInv /\ [Next]_vars =>
          [PromptScheduling /\ loop = "select" /\ loop' = "tick"
             => tickLastStart' < tickLastStart]_vars
    BY DEF IInv, TypeOK, None, Age, LoopInv, GridInv, Next, Scrape, Healthz, FirstTick,
           NextTick, Recorded, EndTick, Return, HealthzRead, HealthzReply, Fire, Cancel, Elapse,
           vars, loopVars, handlerVars
  <1> QED
    BY <1>1, Invariance, PTL DEF Spec, StartTimesAdvance
===============================================================================
