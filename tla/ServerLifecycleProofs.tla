-------------------------- MODULE ServerLifecycleProofs --------------------------
(***************************************************************************)
(* Proofs about ServerLifecycle, for any number of signals.                *)
(***************************************************************************)
EXTENDS ServerLifecycle, TLAPS

(* GetConfig gives every environment a configuration. *)
LEMMA ConfigType == ASSUME TypeOK PROVE Config \in Configs
  <1>1. env.mode \in {"", "cluster", "node", "other"} /\ env.clusterProbes \in BOOLEAN
        /\ env.interval \in {"unset", "unparsable", "zero", "positive", "negative"}
    BY DEF TypeOK, Environments
  <1> QED
    BY <1>1 DEF Config, GetConfig, ReportInterval, Configs

(* In every mode, a tick uses what RunUntil has prepared for it. *)
LEMMA UsedIsAssigned == ASSUME TypeOK PROVE Used = Assigned
  <1>1. Config.clusterProbes \in BOOLEAN
    BY ConfigType DEF Configs
  <1> QED
    BY <1>1 DEF Used, Assigned, IsNodeProber

(* Every step keeps the invariant. *)
LEMMA Inductive ==
    ASSUME IInv, [Next]_vars
    PROVE  IInv'
  <1> USE LifecycleAssumption
      DEF IInv, TypeOK, ProviderInv, CancelInv, ScrapeInv, SignalInv, InShutdown,
          Capacity, Running, vars, scrapeVars, signalVars, Config, Assigned, IsNodeProber,
          Listed, Usable
  <1>1. CASE SpawnShutdown
    BY <1>1 DEF SpawnShutdown
  <1>2. CASE StartupFails
    BY <1>2 DEF StartupFails
  <1>3. CASE StartGCM
    BY <1>3 DEF StartGCM, Providers
  <1>4. CASE ServeReturns
    BY <1>4 DEF ServeReturns
  <1>5. CASE CancelOnReturn
    BY <1>5 DEF CancelOnReturn
  <1>6. CASE Exit
    BY <1>6 DEF Exit
  <1>7. CASE Signal
    BY <1>7 DEF Signal, Buffered
  <1>8. CASE Receive
    <2>1. queued \in 1..2 /\ received \in 0..1
      BY <1>8 DEF Receive
    <2>2. CASE received = 0
      BY <1>8, <2>1, <2>2 DEF Receive, FirstSignal
    <2>3. CASE received = 1
      BY <1>8, <2>1, <2>3 DEF Receive, SecondSignal
    <2> QED
      BY <2>1, <2>2, <2>3
  <1>9. CASE ShutdownWakes
    BY <1>9 DEF ShutdownWakes
  <1>10. CASE CloseProvider
    BY <1>10 DEF CloseProvider
  <1>11. CASE StopServer
    BY <1>11 DEF StopServer
  <1>12. CASE StartScrape
    BY <1>12 DEF StartScrape
  <1>13. CASE Tick
    <2>1. scrape # "none" /\ Used \subseteq prepared
      BY <1>13, UsedIsAssigned DEF Tick
    <2> QED
      BY <1>13, <2>1 DEF Tick, TickPanics
  <1>14. CASE Inform
    BY <1>14 DEF Inform
  <1>15. CASE UNCHANGED vars
    BY <1>15
  <1> QED
    BY <1>1, <1>2, <1>3, <1>4, <1>5, <1>6, <1>7, <1>8, <1>9, <1>10, <1>11, <1>12,
       <1>13, <1>14, <1>15
    DEF Next, Main, Scrape, GraceShutdown

-------------------------------------------------------------------------------
(* The provider is assigned before the prober serves, and closed after the *)
(* context is cancelled and before the server is shut down.                *)
THEOREM Invariance == Spec => []IInv
  <1>1. Init => IInv
    <2> SUFFICES ASSUME Init PROVE IInv
      OBVIOUS
    <2>1. sent \in 0..MaxSignals /\ queued \in 0..Capacity /\ received \in 0..2
      BY LifecycleAssumption DEF Init, Capacity
    <2>2. TypeOK
      BY <2>1 DEF Init, TypeOK, Listed
    <2>3. ProviderInv /\ CancelInv /\ ScrapeInv
      BY DEF Init, ProviderInv, CancelInv, ScrapeInv, InShutdown
    <2>4. SignalInv
      BY DEF Init, SignalInv
    <2> QED
      BY <2>2, <2>3, <2>4 DEF IInv
  <1>2. IInv /\ [Next]_vars => IInv'
    BY Inductive
  <1> QED
    BY <1>1, <1>2, PTL DEF Spec

(* Every reachable state has the declared types. *)
THEOREM TypeCorrect == Spec => []TypeOK
  <1>1. IInv => TypeOK
    BY DEF IInv
  <1> QED
    BY <1>1, Invariance, PTL

(* A prober that was shut down has closed its provider when it exits. *)
THEOREM ExitsCleanly == Spec => []CleanExit
  <1>1. IInv => CleanExit
    BY DEF IInv, ProviderInv, CancelInv, InShutdown, CleanExit
  <1> QED
    BY <1>1, Invariance, PTL

(* A prober that serves crashes only when its interval is negative or, if  *)
(* it is not the cluster's, when its caches hold no node or a pod whose    *)
(* owner has no Controller; no signal does it.                             *)
THEOREM PanicsAreAccountedFor == Spec => []PanicsAccountedFor
  <1>1. IInv => PanicsAccountedFor
    <2> SUFFICES ASSUME IInv, process = "panic" PROVE PanicsAccountedFor
      BY DEF PanicsAccountedFor
    <2>1. CASE provider = "nil" /\ shutdown = "closing"
      BY <2>1 DEF IInv, ProviderInv, CancelInv, PanicsAccountedFor
    <2>2. CASE scrape = "starting" /\ Config.interval = "negative"
      BY <2>2 DEF Config, GetConfig, ReportInterval, PanicsAccountedFor
    <2>3. CASE scrape = "ticking" /\ IsNodeProber /\ listed \notin Usable
      BY <2>3 DEF IInv, TypeOK, Listed, Usable, IsNodeProber, Config, GetConfig, PanicsAccountedFor
    <2> QED
      BY <2>1, <2>2, <2>3 DEF IInv, CancelInv
  <1> QED
    BY <1>1, Invariance, PTL
=================================================================================
