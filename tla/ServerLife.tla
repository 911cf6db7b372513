----------------------------- MODULE ServerLife -----------------------------
(***************************************************************************)
(* The HTTP server from start to exit (index.ts): main() comes up step by  *)
(* step, sessions come and go while it serves, and the first SIGINT or     *)
(* SIGTERM -- at any moment, also while main() is still on its way --      *)
(* flushes the telemetry, destroys the EVM providers and exits.  Nothing   *)
(* stops the requests meanwhile: every await of the shutdown lets them run *)
(* on.  The process keeps no state, so a restart is Init again, and ids of *)
(* its sessions are unknown to the next one.                               *)
(***************************************************************************)
EXTENDS Sessions

VARIABLES
  main,         \* how far main() came
  shutdown,     \* what the handler of the first signal does
  exitCode,     \* -1 while the process runs
  unexported,   \* an instrument moved since the last export
  owed,         \* the same, of what was recorded before the signal
  flushFailed   \* history: sdk.shutdown() failed, which is only logged

process == <<main, shutdown, exitCode>>
export == <<unexported, owed, flushFailed>>
lifeVars == <<vars, process, export>>

Stages == {"configuring", "connecting", "loading", "binding", "serving", "failed"}

LifeInit ==
  /\ Init
  /\ main = "configuring"
  /\ shutdown = "none"
  /\ exitCode = -1
  /\ unexported = FALSE /\ owed = FALSE /\ flushFailed = FALSE

Running == exitCode = -1

-----------------------------------------------------------------------------
(***************************************************************************)
(* main(): initEvmProviderRegistryFromEnv, setupP2P, createServerContext,  *)
(* app.listen.                                                             *)
(***************************************************************************)
After == [configuring |-> "connecting", connecting |-> "loading",
          loading |-> "binding", binding |-> "serving"]

MainAdvances ==
  /\ Running /\ main \in DOMAIN After
  /\ main' = After[main]
  /\ UNCHANGED <<vars, shutdown, exitCode, export>>

\* Whatever rejects ends in main().catch: exit at once, also past a shutdown.
MainFails ==
  /\ Running /\ main \in DOMAIN After
  /\ main' = "failed" /\ exitCode' = 1
  /\ UNCHANGED <<vars, shutdown, export>>

\* The tracker's step, while the server listens.
Serve ==
  /\ Running /\ main = "serving"
  /\ Next
  /\ unexported' = (unexported \/ metrics' # metrics \/ rejected' # rejected)
  /\ UNCHANGED <<process, owed, flushFailed>>

\* The clock is the world's, and passes midnight once per day of the model.
DayPasses ==
  /\ Running /\ main = "serving"
  /\ Midnight
  /\ UNCHANGED <<web, tracker, evicted, process, export>>

-----------------------------------------------------------------------------
(***************************************************************************)
(* shutdown(), and the exporter it waits for (external).                   *)
(***************************************************************************)
\* PeriodicExportingMetricReader, until sdk.shutdown() stops it.  Collecting
\* asks the gauges.
PeriodicExport ==
  /\ Running /\ shutdown \in {"none", "flushing"}
  /\ unexported' = FALSE /\ owed' = FALSE
  /\ observeGauge
  /\ UNCHANGED <<web, tracker, evicted, process, flushFailed>>

\* The first signal.  isShuttingDown swallows the others.
Signal ==
  /\ Running /\ shutdown = "none"
  /\ shutdown' = "flushing"
  /\ owed' = unexported
  /\ UNCHANGED <<vars, main, exitCode, unexported, flushFailed>>

\* Faulty variant: the flush is started, and nobody waits for it.
FlushUnawaited ==
  /\ Running /\ shutdown = "flushing"
  /\ shutdown' = "destroying"
  /\ UNCHANGED <<vars, main, exitCode, export>>

\* await shutdownTelemetry(): the last batch is out, or an error was logged.
Flush ==
  /\ Running /\ shutdown = "flushing"
  /\ shutdown' = "destroying"
  /\ \/ /\ unexported' = FALSE /\ owed' = FALSE
        /\ UNCHANGED flushFailed
     \/ /\ flushFailed' = TRUE
        /\ UNCHANGED <<unexported, owed>>
  /\ observeGauge
  /\ UNCHANGED <<web, tracker, evicted, main, exitCode>>

\* Faulty variant: process.exit(0) stands behind the await, not in finally;
\* before main() made a registry there is none to destroy.
DestroyOrThrow ==
  /\ Running /\ shutdown = "destroying"
  /\ shutdown' = "done"
  /\ exitCode' = IF main = "configuring" THEN -1 ELSE 0
  /\ UNCHANGED <<vars, main, export>>

\* getEvmProviderRegistry().destroy(), and the exit in its finally.
Destroy ==
  /\ Running /\ shutdown = "destroying"
  /\ shutdown' = "done"
  /\ exitCode' = 0
  /\ UNCHANGED <<vars, main, export>>

LifeNext ==
  \/ MainAdvances \/ MainFails \/ Serve \/ DayPasses
  \/ PeriodicExport \/ Signal \/ Flush \/ Destroy

\* The shutdown's own awaits end: the exporter has a timeout, and destroying a
\* provider waits for nothing.
LifeSpec == LifeInit /\ [][LifeNext]_lifeVars /\ WF_lifeVars(Flush) /\ WF_lifeVars(Destroy)

-----------------------------------------------------------------------------
(***************************************************************************)
(* Properties.                                                             *)
(***************************************************************************)
\* Every variable of server and sessions holds a value of its kind.
LifeTypeOK ==
  /\ TypeOK
  /\ main \in Stages
  /\ shutdown \in {"none", "flushing", "destroying", "done"}
  /\ exitCode \in {-1, 0, 1}
  /\ unexported \in BOOLEAN /\ owed \in BOOLEAN /\ flushFailed \in BOOLEAN

\* An exit loses nothing it could have kept: what the instruments had recorded
\* by the time of the signal has reached the collector before exit 0, unless
\* the flush itself failed, and exit 1 never takes a session with it.
ExitLosesNothing ==
  /\ exitCode = 0 /\ ~flushFailed => ~owed
  /\ exitCode = 1 => transports = {} /\ ~unexported

\* A signal ends the process, whatever main() is doing and whatever fails.
SignalEndsInExit == shutdown # "none" ~> exitCode # -1
=============================================================================
