---------------------------- MODULE ServerLifecycle ----------------------------
(***************************************************************************)
(* Starting and stopping the prober process: the main goroutine            *)
(* (cmd/gke-prober.go, Server.RunUntil), the goroutine that receives       *)
(* signals (SetupSignalContext) and the one that shuts the server down     *)
(* (graceshutdown).  They share the context, the provider and the HTTP     *)
(* server; main waits for neither of the others, nor for the scraping loop *)
(* (module TickLoop), and its return ends them all.  How the prober is     *)
(* configured decides what RunUntil prepares and what the loop uses.       *)
(***************************************************************************)
EXTENDS Naturals, Configuration

CONSTANT MaxSignals     \* bound: signals sent to the process

ASSUME LifecycleAssumption == MaxSignals \in Nat

VARIABLES
    env,        \* what GetConfig reads
    prepared,   \* the watchers and recorders that RunUntil has assigned
    scrape,     \* where the scraping loop is
    listed,     \* what the caches of a node prober hold
    process,    \* is the process running, or how did it end?
    main,       \* where the main goroutine is
    provider,   \* Server.provider
    ctxDone,    \* is RunUntil's context cancelled?
    shutdown,   \* where graceshutdown is
    sent,       \* signals sent to the process
    queued,     \* signals in the channel shutdownHandler
    received    \* signals its goroutine has received

signalVars == <<sent, queued, received>>
scrapeVars == <<env, prepared, scrape, listed>>
vars == <<scrapeVars, process, main, provider, ctxDone, shutdown, signalVars>>

(* Server.Config *)
Config == GetConfig(env)

(* The channel's capacity. *)
Capacity == 2

(* Lists that RecordNodeMetrics goes through to the end.  The others are   *)
(* an empty one of nodes, and one of pods of which one has an owner whose  *)
(* Controller is not set.                                                  *)
Usable == {"unsynced", "usable"}
Listed == {"unsynced", "usable", "no_node", "no_controller"}

(* The types of the variables, and how many signals the channel holds. *)
TypeOK ==
    /\ env \in Environments
    /\ prepared \subseteq {"cr", "cw", "pr", "nr", "nw"}
    /\ scrape \in {"none", "starting", "ticking"}
    /\ listed \in Listed
    /\ process \in {"running", "exit0", "exit1", "fatal", "panic"}
    /\ main \in {"setup", "connecting", "serving", "failed", "closed"}
    /\ provider \in {"nil", "open", "closed"}
    /\ ctxDone \in BOOLEAN
    /\ shutdown \in {"none", "waiting", "closing", "stopping", "draining", "done"}
    /\ sent \in 0..MaxSignals
    /\ queued \in 0..Capacity
    /\ received \in 0..2

(* SetupSignalContext has returned: signals now go to the channel. *)
Init ==
    /\ env \in Environments
    /\ prepared = {}
    /\ scrape = "none"
    /\ listed = "unsynced"
    /\ process = "running"
    /\ main = "setup"
    /\ provider = "nil"
    /\ ctxDone = FALSE
    /\ shutdown = "none"
    /\ sent = 0 /\ queued = 0 /\ received = 0

-------------------------------------------------------------------------------
(* Nothing runs once the process has ended. *)
Running == process = "running"

(* NewServer, then RunUntil up to go s.graceshutdown(ctx). *)
SpawnShutdown ==
    /\ Running /\ main = "setup"
    /\ ~Panics(env)
    /\ main' = "connecting"
    /\ shutdown' = "waiting"
    /\ UNCHANGED <<scrapeVars, process, provider, ctxDone, signalVars>>

(* GetConfig or ClientOrDie panics, or StartGCM calls log.Fatalf. *)
StartupFails ==
    /\ Running
    /\ main = "connecting" \/ (main = "setup" /\ Panics(env))
    /\ process' = "fatal"
    /\ UNCHANGED <<scrapeVars, main, provider, ctxDone, shutdown, signalVars>>

(* Mutant: a mode that is not known has no watcher. *)
AssignedIfKnown ==
    CASE Config.mode = "cluster" -> {"cr", "cw"}
      [] Config.mode = "node"    -> {"nr", "nw"}
      [] OTHER                   -> {}

(* Every mode but "cluster" is taken for "node". *)
Assigned ==
    IF Config.mode = "cluster"
    THEN {"cr", "cw"} \cup (IF Config.clusterProbes THEN {"pr"} ELSE {})
    ELSE {"nr", "nw"}

(* Mutant: StartGCM's error is not looked at, and leaves no provider. *)
ProviderUnchecked == {"nil", "open"}

(* What StartGCM returns, if it returns. *)
Providers == {"open"}

(* s.provider is assigned; then the watches and the scraping loop are      *)
(* started and ListenAndServe is called, whatever the context.             *)
StartGCM ==
    /\ Running /\ main = "connecting"
    /\ main' = "serving"
    /\ provider' \in Providers
    /\ prepared' = Assigned
    /\ scrape' = "starting"
    /\ UNCHANGED <<env, listed, process, ctxDone, shutdown, signalVars>>

(* NewTicker panics when the interval is not positive. *)
StartScrape ==
    /\ Running /\ scrape = "starting"
    /\ IF Config.interval = "negative"
       THEN process' = "panic" /\ UNCHANGED scrape
       ELSE scrape' = "ticking" /\ UNCHANGED process
    /\ UNCHANGED <<env, prepared, listed, main, provider, ctxDone, shutdown, signalVars>>

IsNodeProber == Config.mode # "cluster"

(* The informers of a node prober: the node and its pods come and go. *)
Inform ==
    /\ Running /\ scrape # "none" /\ IsNodeProber
    /\ listed' \in Listed \ {"unsynced"}
    /\ UNCHANGED <<env, prepared, scrape, process, main, provider, ctxDone, shutdown, signalVars>>

(* What tick uses. *)
Used ==
    IF IsNodeProber THEN {"nr", "nw"}
    ELSE IF Config.clusterProbes THEN {"cr", "cw", "pr"} ELSE {"cr", "cw"}

(* A tick panics when it uses what has not been assigned, takes nodes[0]   *)
(* of an empty list, or follows an owner's Controller that is nil.         *)
TickPanics == ~(Used \subseteq prepared) \/ (IsNodeProber /\ listed \notin Usable)

Tick ==
    /\ Running /\ scrape = "ticking"
    /\ process' = IF TickPanics THEN "panic" ELSE process
    /\ UNCHANGED <<scrapeVars, main, provider, ctxDone, shutdown, signalVars>>

(* Shutdown has been called on the HTTP server. *)
InShutdown == shutdown \in {"draining", "done"}

(* ListenAndServe returns: an error of its own, or ErrServerClosed as soon *)
(* as Shutdown is called (before it, or while serving), not when it ends.  *)
ServeReturns ==
    /\ Running /\ main = "serving"
    /\ main' = IF InShutdown THEN "closed" ELSE "failed"
    /\ UNCHANGED <<scrapeVars, process, provider, ctxDone, shutdown, signalVars>>

(* RunUntil's deferred cancel(). *)
CancelOnReturn ==
    /\ Running /\ main \in {"failed", "closed"}
    /\ ~ctxDone
    /\ ctxDone' = TRUE
    /\ UNCHANGED <<scrapeVars, process, main, provider, shutdown, signalVars>>

(* main drops RunUntil's error and returns. *)
Exit ==
    /\ Running /\ main \in {"failed", "closed"}
    /\ ctxDone
    /\ process' = "exit0"
    /\ UNCHANGED <<scrapeVars, main, provider, ctxDone, shutdown, signalVars>>

-------------------------------------------------------------------------------
(* Mutant: a channel for one signal. *)
BufferedOne == 1

(* Mutant: nothing is ever dropped. *)
BufferedAll == queued + 1

(* The signals in the channel after another has come. *)
Buffered == IF queued < Capacity THEN queued + 1 ELSE queued

(* The runtime does not wait for a full channel: it drops the signal. *)
Signal ==
    /\ Running /\ sent < MaxSignals
    /\ sent' = sent + 1
    /\ queued' = Buffered
    /\ UNCHANGED <<scrapeVars, process, main, provider, ctxDone, shutdown, received>>

(* Mutant: the first signal cancels nothing. *)
FirstSignalIgnored == UNCHANGED <<process, ctxDone>>

FirstSignal  == ctxDone' = TRUE /\ UNCHANGED process
SecondSignal == process' = "exit1" /\ UNCHANGED ctxDone

(* The first signal cancels the context, the second exits directly. *)
Receive ==
    /\ Running /\ queued > 0
    /\ queued' = queued - 1
    /\ received' = received + 1
    /\ IF received = 0 THEN FirstSignal ELSE SecondSignal
    /\ UNCHANGED <<scrapeVars, main, provider, shutdown, sent>>

-------------------------------------------------------------------------------
(* <-ctx.Done() *)
ShutdownWakes ==
    /\ Running /\ shutdown = "waiting"
    /\ ctxDone
    /\ shutdown' = "closing"
    /\ UNCHANGED <<scrapeVars, process, main, provider, ctxDone, signalVars>>

(* Mutant: the server is stopped first and the provider closed last. *)
StopServerFirst ==
    \/ /\ Running /\ shutdown = "closing"
       /\ shutdown' = "draining"
       /\ UNCHANGED <<scrapeVars, process, main, provider, ctxDone, signalVars>>
    \/ /\ Running /\ shutdown = "draining"
       /\ shutdown' = "done"
       /\ provider' = "closed"
       /\ UNCHANGED <<scrapeVars, process, main, ctxDone, signalVars>>

(* s.provider.Close() dereferences nil, which ends the process, as long as *)
(* RunUntil has not assigned the provider.                                 *)
CloseProvider ==
    /\ Running /\ shutdown = "closing"
    /\ IF provider = "nil"
       THEN process' = "panic" /\ UNCHANGED <<provider, shutdown>>
       ELSE provider' = "closed" /\ shutdown' = "stopping" /\ UNCHANGED process
    /\ UNCHANGED <<scrapeVars, main, ctxDone, signalVars>>

(* Shutdown closes the listener, then waits for the requests being served, *)
(* for 30 seconds at most.                                                 *)
StopServer ==
    /\ Running /\ shutdown \in {"stopping", "draining"}
    /\ shutdown' = IF shutdown = "stopping" THEN "draining" ELSE "done"
    /\ UNCHANGED <<scrapeVars, process, main, provider, ctxDone, signalVars>>

-------------------------------------------------------------------------------
Main == SpawnShutdown \/ StartupFails \/ StartGCM \/ ServeReturns \/ CancelOnReturn \/ Exit
GraceShutdown == ShutdownWakes \/ CloseProvider \/ StopServer

Scrape == StartScrape \/ Tick \/ Inform

Next == Main \/ Scrape \/ Signal \/ Receive \/ GraceShutdown

Spec == Init /\ [][Next]_vars

(* The goroutine that receives signals does nothing that could block it.   *)
SignalFairness == WF_vars(Receive)

(* The others are run by the Go scheduler.  No fairness makes startup or   *)
(* ListenAndServe fail: the latter returns because it was shut down.       *)
MainFairness ==
    /\ WF_vars(SpawnShutdown \/ StartGCM \/ (StartupFails /\ Panics(env)))
    /\ WF_vars(InShutdown /\ ServeReturns)
    /\ WF_vars(CancelOnReturn \/ Exit)
    /\ WF_vars(GraceShutdown)

-------------------------------------------------------------------------------
(***************************************************************************)
(* Properties.                                                             *)
(***************************************************************************)

(* A prober that stopped because it was shut down has closed its           *)
(* connection to the monitoring API first (server.go:161-165), although    *)
(* main waits for the HTTP server only.                                    *)
CleanExit == process = "exit0" /\ main = "closed" => provider = "closed"

(* No signal, at whatever moment, and no choice of mode and probes crashes *)
(* a prober that serves: what shutting down and ticking use has been       *)
(* assigned.  What crashes one is a negative interval or, of a prober that *)
(* is not the cluster's, a list of its caches (scheduler.go:127,           *)
(* config.go:82).  While it connects, a signal does too (server.go:161).   *)
PanicsAccountedFor ==
    process = "panic" =>
        \/ main = "connecting" /\ received > 0
        \/ scrape = "starting" /\ env.interval = "negative"
        \/ /\ scrape = "ticking" /\ env.mode \notin {"", "cluster"}
           /\ listed \in {"no_node", "no_controller"}

(* Whatever the other goroutines are blocked in, a second signal ends the  *)
(* process, even one that arrives before the first has been received: the  *)
(* signal goroutine alone is assumed to run.                               *)
SecondSignalExits == SignalFairness => (sent >= 2 ~> ~Running)

(* When every goroutine runs, one signal is enough to end the process,     *)
(* whenever it arrives.                                                    *)
SignalEndsProcess == SignalFairness /\ MainFairness => (sent > 0 ~> ~Running)

(* "second signal. Exit directly." (signal.go:40): a first signal does not *)
(* end the process abruptly, whatever it is doing; to fail to start or to  *)
(* start ticking is another matter.                                        *)
OnlySecondSignalExitsDirectly ==
    process = "exit1" \/ (process = "panic" /\ main = "connecting") => received = 2

-------------------------------------------------------------------------------
(* The inductive invariant: the order in which the provider is assigned,   *)
(* the context cancelled, the provider closed and the server shut down.    *)
ProviderInv ==
    /\ provider = "nil" <=> main \in {"setup", "connecting"}
    /\ main = "setup" <=> shutdown = "none"
    /\ shutdown \in {"stopping", "draining", "done"} => provider = "closed"
    /\ provider = "closed" => shutdown \in {"stopping", "draining", "done"}

CancelInv ==
    /\ shutdown \notin {"none", "waiting"} => ctxDone
    /\ main = "closed" => InShutdown
    /\ process = "panic" =>
         \/ provider = "nil" /\ shutdown = "closing"
         \/ scrape = "starting" /\ Config.interval = "negative"
         \/ scrape = "ticking" /\ IsNodeProber /\ listed \notin Usable
    /\ ctxDone => received > 0 \/ main \in {"failed", "closed"}

(* What RunUntil prepares before it starts the loop stays as it is. *)
ScrapeInv ==
    /\ scrape = "none" <=> main \in {"setup", "connecting"}
    /\ scrape # "none" => prepared = Assigned

SignalInv == received + queued <= sent /\ (process = "running" => received <= 1)

(* The inductive invariant of startup, signals and shutdown. *)
IInv == TypeOK /\ ProviderInv /\ CancelInv /\ ScrapeInv /\ SignalInv
===============================================================================
