------------------------------- MODULE Agent -------------------------------
(***************************************************************************)
(* The agent's process: main, wire.Build, StartFullFor with its two        *)
(* goroutines, and the session pool that they share with the requests.     *)
(*                                                                         *)
(* One goroutine serves HTTP, the other sweeps the pool; main waits for    *)
(* either to end, cancels the context of both, and leaves.  The pool is    *)
(* closed by the second goroutine when its context ends, and once more by  *)
(* main on its way out.  When main returns, the process is gone, whatever  *)
(* its other goroutines were doing.                                        *)
(***************************************************************************)
EXTENDS SessionPool

ASSUME BothClose == Closers = {"run", "app"}

VARIABLES
  main,       \* run: building the app, in the select, past it, gone
  serve,      \* serve's goroutine: not started, serving, serveErr sent
  cancelled   \* the context that Run and serve were given is done

processVars == <<main, serve, cancelled>>
avars == <<vars, processVars>>

AInit ==
  /\ Init
  /\ main = "building"
  /\ serve = "off"
  /\ cancelled = FALSE

Started == serve # "off"
Exited == main = "exited"

\* The cache goroutine has sent its nil: Run is back from Close.
RunReturned == "run" \in shut /\ closing["run"] = {}
AppClosed == "app" \in shut /\ closing["app"] = {}

(***************************************************************************)
(* main and its goroutines.                                                *)
(***************************************************************************)

\* SIGINT or SIGTERM, which may come at any time.
Signal ==
  /\ ~cancelled /\ ~Exited
  /\ cancelled' = TRUE
  /\ UNCHANGED <<vars, main, serve>>

\* Build with the server's catalog, and with it the two goroutines; or
\* without, and then the app is closed at once.
Build ==
  /\ main = "building"
  /\ \/ main' = "select" /\ serve' = "on"
     \/ main' = "leaving" /\ UNCHANGED serve
  /\ UNCHANGED <<vars, cancelled>>

\* The port is taken, or Serve fails later on.
ServeFails ==
  /\ serve = "on" /\ ~Exited
  /\ serve' = "ended"
  /\ UNCHANGED <<vars, main, cancelled>>

\* Variant: nothing closes the HTTP server when the context ends.
ServeStops_Never == FALSE /\ UNCHANGED avars

\* The context ends, srv.Close with it, and Serve returns.
ServeStops ==
  /\ serve = "on" /\ cancelled /\ ~Exited
  /\ serve' = "ended"
  /\ UNCHANGED <<vars, main, cancelled>>

\* The select receives from serveErr: cancel, and return.
SelectServe ==
  /\ main = "select" /\ serve = "ended"
  /\ main' = "leaving" /\ cancelled' = TRUE
  /\ UNCHANGED <<vars, serve>>

\* The select receives from cacheErr: cancel, and wait for serveErr.
SelectRun ==
  /\ main = "select" /\ RunReturned
  /\ main' = "wait serve" /\ cancelled' = TRUE
  /\ UNCHANGED <<vars, serve>>

AwaitServe ==
  /\ main = "wait serve" /\ serve = "ended"
  /\ main' = "leaving"
  /\ UNCHANGED <<vars, serve, cancelled>>

\* Run sees its context end between two sweeps, and closes the pool.
RunCloses ==
  /\ Started /\ cancelled /\ ~Exited
  /\ CloseBegin("run")
  /\ UNCHANGED processVars

\* The deferred App.Close.
AppCloses ==
  /\ main = "leaving"
  /\ CloseBegin("app")
  /\ UNCHANGED processVars

Exit ==
  /\ main = "leaving" /\ AppClosed
  /\ main' = "exited"
  /\ UNCHANGED <<vars, serve, cancelled>>

(***************************************************************************)
(* Requests and the pool, for as long as there is a process; and the       *)
(* remote server, which may still run what it was sent.                    *)
(***************************************************************************)
Alive == Started /\ ~Exited /\ UNCHANGED processVars

Requested(c) == Alive /\ Arrive(c)
CallGoesOn(c) == Alive /\ CallStep(c)
Sweeping == Alive /\ SweepStep
Ticking == Alive /\ (SweepBegin \/ \E k \in Keys : Age(k))
Closing(p) == ~Exited /\ UNCHANGED processVars /\ CloseStep(p)
Remote == UNCHANGED processVars /\ (Restart \/ \E m \in sent : Execute(m))

Gone == Exited /\ UNCHANGED avars

MainStep == SelectServe \/ SelectRun \/ AwaitServe \/ AppCloses \/ Exit

ANext ==
  \/ Signal \/ Build \/ MainStep
  \/ ServeFails \/ ServeStops \/ RunCloses
  \/ \E c \in Calls : Requested(c) \/ CallGoesOn(c)
  \/ Ticking \/ Sweeping
  \/ \E p \in Closers : Closing(p)
  \/ Remote \/ Gone

ASpec == AInit /\ [][ANext]_avars

\* As in SessionPool: goroutines run, mutexes do not starve a waiter, and a tool
\* call ends at its timeout.  A dial and a close have none, and are not fair; nor
\* is Build, whose CheckCatalog closes the session it read the catalog on.
\* Signals, failures and requests need not come.
AFairness ==
  /\ SF_avars(MainStep)
  /\ WF_avars(ServeStops) /\ SF_avars(RunCloses)
  /\ \A c \in Calls : SF_avars(CallGoesOn(c) /\ ~Talking(c))
  /\ SF_avars(Sweeping /\ ~Busy("run"))
  /\ \A p \in Closers : SF_avars(Closing(p) /\ ~Busy(p))

AFairSpec == ASpec /\ AFairness

(***************************************************************************)
(* What holds.                                                             *)
(***************************************************************************)

\* Every variable stays in its type, the pool's too.
ATypeOK ==
  /\ TypeOK
  /\ main \in {"building", "select", "wait serve", "leaving", "exited"}
  /\ serve \in {"off", "on", "ended"} /\ cancelled \in BOOLEAN

\* The assumption of the two properties below, which nothing in the code gives:
\* the server answers every dial and every close of a session, or the connection
\* fails, for as long as there is a process.
ExchangesEnd ==
  /\ []<>(main # "building")
  /\ \A c \in Calls : []<>(Exited \/ ~Talking(c))
  /\ \A g \in Closers : []<>(Exited \/ ~Busy(g))

\* StartFullFor: "either half failing takes the whole agent down".  After a
\* signal or the end of the HTTP server the process ends, whatever its calls and
\* its sweep are doing, provided that no exchange with the server hangs.
ExitComes == ExchangesEnd => (cancelled \/ serve = "ended" ~> Exited)

\* Every tool call returns, with an answer or an error, unless the process
\* ends under it, whatever the sweep and the other calls do meanwhile, provided
\* that no exchange with the server hangs: no lock is kept for ever by one whose
\* exchange is over.
CallsReturn == ExchangesEnd => \A c \in Calls : pc[c] # "idle" ~> Returned(c) \/ Exited

=============================================================================
