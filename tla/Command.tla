------------------------------ MODULE Command ------------------------------
(***************************************************************************)
(* The process around a run: cmdRun, cmdValidate and startMetrics in       *)
(* main.go, with the configuration they load and the loop of RunLoop.      *)
(*                                                                         *)
(* The command goes through its stages in order.  What it opens it defers  *)
(* to close, so that every way out unwinds a stack: the evidence log, the  *)
(* signal handler, the metrics server.  The server and its scrapes run     *)
(* beside everything; a signal arrives at any time, and kills a process    *)
(* that has no handler for it.                                             *)
(***************************************************************************)
EXTENDS RunLoop, Configuration, SequencesExt

CONSTANTS Files,  \* the files --config may name
          Env     \* the environment: variable -> its value, "" if unset

ASSUME FilesAssumption == Files \subseteq DecodedFile

VARIABLES command,   \* run or validate
          stage,     \* how far the command has come
          file,      \* history: the file it was given
          cfg,       \* its configuration, <<>> before there is one
          deferred,  \* what has been opened, to be closed in reverse
          server,    \* the goroutine of the metrics server
          scraping,  \* a scrape is being answered
          status     \* the exit status, once it is known

commandVars == <<command, stage, file, cfg, deferred, server, scraping, status>>
vars == <<loopVars, commandVars>>

Stage == {"flags", "loaded", "opened", "built", "watching", "measuring",
          "unwinding", "exited", "killed"}
Resource == {"log", "signals", "server"}

Open(r) == r \in ToSet(deferred)
Up == stage \notin {"exited", "killed"}

-----------------------------------------------------------------------------
Init ==
  /\ LoopInit
  /\ command \in {"run", "validate"}
  /\ stage = "flags"
  /\ file = <<>> /\ cfg = <<>>
  /\ deferred = <<>>
  /\ server = "none" /\ scraping = FALSE
  /\ status = "none"

\* The command returns, before it has opened anything.
ExitWith(result) ==
  /\ stage' = "exited" /\ status' = result
  /\ UNCHANGED <<loopVars, command, file, cfg, deferred, server, scraping>>

\* --help; a bad flag, or a file that cannot be read or decoded.
Usage ==
  /\ stage = "flags"
  /\ \E result \in {"ok", "error"} : ExitWith(result)

LoadFile(f) ==
  /\ stage = "flags"
  /\ IF ~Accepted(f, Env) \/ command = "validate"
     THEN ExitWith(IF Accepted(f, Env) THEN "ok" ELSE "error")
     ELSE /\ stage' = "loaded" /\ file' = f
          \* --evidence and --metrics-addr override what the file says
          /\ \E evidence, metrics \in BOOLEAN :
               cfg' = [Load(f, Env) EXCEPT !.evidence = @ \/ evidence,
                                           !.metrics = @ \/ metrics]
          /\ UNCHANGED <<loopVars, command, deferred, server, scraping, status>>

OpenLog ==
  /\ stage = "loaded"
  /\ IF ~cfg.evidence
     THEN stage' = "opened" /\ UNCHANGED <<deferred, status>>
     ELSE \/ stage' = "opened" /\ deferred' = <<"log">> /\ UNCHANGED status
          \/ stage' = "exited" /\ status' = "error" /\ UNCHANGED deferred
  /\ UNCHANGED <<loopVars, command, file, cfg, server, scraping>>

\* probe.New validates once more; overrides change nothing it looks at.
New ==
  /\ stage = "opened"
  /\ IF Validate(cfg)
     THEN stage' = "built" /\ UNCHANGED status
     ELSE stage' = "unwinding" /\ status' = "error"
  /\ UNCHANGED <<loopVars, command, file, cfg, deferred, server, scraping>>

NotifyContext ==
  /\ stage = "built"
  /\ stage' = "watching"
  /\ deferred' = Append(deferred, "signals")
  /\ UNCHANGED <<loopVars, command, file, cfg, server, scraping, status>>

\* startMetrics does not wait for its goroutine to listen.
StartMetrics ==
  /\ stage = "watching"
  /\ stage' = "measuring"
  /\ IF cfg.metrics
     THEN server' = "starting" /\ deferred' = Append(deferred, "server")
     ELSE UNCHANGED <<server, deferred>>
  /\ UNCHANGED <<loopVars, command, file, cfg, scraping, status>>

-----------------------------------------------------------------------------
(* Measuring: the steps of the loop.  Without a webhook nothing is posted. *)

Measuring ==
  /\ stage = "measuring"
  /\ cfg.webhook = "" => pc' \notin {"posting", "escalating"}
  /\ UNCHANGED commandVars

Work == MainStep /\ Measuring
Answer(e) == Return(e) /\ Measuring
Select == (SelectTicker \/ SelectDone) /\ Measuring
Ticks == TickerFires /\ Measuring

\* Run returns nil; the result of --once may fail to print.
FinishAtOnce ==
  /\ stage = "measuring" /\ pc = "stopped"
  /\ status' \in {"ok"} \cup (IF once THEN {"error"} ELSE {})
  /\ stage' = IF status' = "ok" THEN "unwinding" ELSE "exited"
  /\ UNCHANGED <<loopVars, command, file, cfg, deferred, server, scraping>>

Finish ==
  /\ stage = "measuring" /\ pc = "stopped"
  /\ status' \in {"ok"} \cup (IF once THEN {"error"} ELSE {})
  /\ stage' = "unwinding"
  /\ UNCHANGED <<loopVars, command, file, cfg, deferred, server, scraping>>

\* The last deferred call runs.  Shutdown stops the listener at once and
\* waits for a scrape, but for two seconds at most.
Unwind ==
  /\ stage = "unwinding" /\ deferred # <<>>
  /\ deferred' = Front(deferred)
  /\ server' = IF Last(deferred) = "server" THEN "down" ELSE server
  /\ UNCHANGED <<loopVars, command, stage, file, cfg, scraping, status>>

Exit ==
  /\ stage = "unwinding" /\ deferred = <<>>
  /\ stage' = "exited"
  /\ UNCHANGED <<loopVars, command, file, cfg, deferred, server, scraping, status>>

-----------------------------------------------------------------------------
(* Beside the command.                                                     *)

\* ListenAndServe: a port that is taken is logged, and that is all.  After
\* Shutdown it returns at once.
Listen ==
  /\ Up /\ server = "starting"
  /\ server' \in {"listening", "failed"}
  /\ UNCHANGED <<loopVars, command, stage, file, cfg, deferred, scraping, status>>

Scrape ==
  /\ Up
  /\ ~scraping => server = "listening"
  /\ scraping' = ~scraping
  /\ UNCHANGED <<loopVars, command, stage, file, cfg, deferred, server, status>>

\* SIGINT, SIGTERM or the end of --duration.  A handler that is installed
\* turns every signal into the cancellation of the context; otherwise the
\* process dies.
InterruptOnce ==
  /\ Up /\ Open("signals") /\ Cancel
  /\ deferred' = SelectSeq(deferred, LAMBDA r : r # "signals")
  /\ UNCHANGED <<command, stage, file, cfg, server, scraping, status>>

InterruptAborts ==
  /\ Up /\ Open("signals")
  /\ pc' = "stopped" /\ inflight' = {} /\ cancelled' = TRUE
  /\ UNCHANGED <<once, chain, reported, ticker, commandVars>>

Interrupt ==
  /\ Up /\ Open("signals") /\ Cancel
  /\ UNCHANGED commandVars

Kill ==
  /\ Up /\ ~Open("signals")
  /\ stage' = "killed"
  /\ UNCHANGED <<loopVars, command, file, cfg, deferred, server, scraping, status>>

-----------------------------------------------------------------------------
Startup ==
  \/ Usage
  \/ \E f \in Files : LoadFile(f)
  \/ OpenLog \/ New \/ NotifyContext \/ StartMetrics

Next ==
  \/ Startup
  \/ Work
  \/ \E e \in Endpoint : Answer(e)
  \/ Select
  \/ Ticks
  \/ Finish \/ Unwind \/ Exit
  \/ Listen \/ Scrape
  \/ Interrupt \/ Kill

(***************************************************************************)
(* Every request runs under context.WithTimeout and every post under the   *)
(* client's timeout, so they return; the main goroutine runs; the ticker   *)
(* fires every interval.  A select with two ready cases picks one at       *)
(* random, so it does not pick the ticker for ever: strong fairness.  The  *)
(* command itself runs; Shutdown returns after two seconds.                *)
(***************************************************************************)
Fairness ==
  /\ WF_vars(Startup)
  /\ WF_vars(Work)
  /\ \A e \in Endpoint : WF_vars(Answer(e))
  /\ WF_vars(Select)
  /\ SF_vars(SelectDone /\ Measuring)
  /\ WF_vars(Ticks)
  /\ WF_vars(Finish \/ Unwind \/ Exit)

SafetySpec == Init /\ [][Next]_vars
Spec == SafetySpec /\ Fairness

-----------------------------------------------------------------------------
TypeOK ==
  /\ LoopTypeOK
  /\ command \in {"run", "validate"}
  /\ stage \in Stage
  /\ stage \notin {"flags", "exited", "killed"} => file \in Files
  /\ deferred \in Seq(Resource) /\ IsInjective(deferred)
  /\ server \in {"none", "starting", "listening", "failed", "down"}
  /\ scraping \in BOOLEAN
  /\ status \in {"none", "ok", "error"}

(***************************************************************************)
(* README.md:126, what is refused is refused before the first request:     *)
(* whenever the loop has begun, a round of requests fits into an interval, *)
(* comparisons of hashes are no more frequent than polls and far enough    *)
(* from the head, names tell the endpoints apart, every endpoint has a     *)
(* peer on its chain, and of the placeholders none is left in what is sent *)
(* out: one that is there is the value of a variable.                      *)
(* So what a file may leave out depends on what it says: the default       *)
(* timeout does not fit into the default interval, nor the default         *)
(* interval of hash checks into a long one, and a file that leaves out     *)
(* both the interval and the timeout is never used.                        *)
(***************************************************************************)
MeasuresOnlyWhatFits ==
  pc # "starting" =>
    /\ cfg.timeout \in 1 .. cfg.interval
    /\ cfg.interval <= cfg.hashCheckInterval
    /\ cfg.finalityDepth >= 2
    /\ \A i, j \in DOMAIN cfg.endpoints :
         i # j => cfg.endpoints[i].name # cfg.endpoints[j].name
    /\ \A i \in DOMAIN cfg.endpoints : \E j \in DOMAIN cfg.endpoints \ {i} :
         cfg.endpoints[i].chain = cfg.endpoints[j].chain
    /\ Texts(cfg) \cap DOMAIN Env \subseteq {Env[v] : v \in DOMAIN Env}
    /\ file.timeout = 0 => file.interval >= 3
    /\ file.interval = 0 => file.timeout \in 1 .. 2
    /\ file.hashCheckInterval = 0 => file.interval <= 30

(***************************************************************************)
(* The log is open for as long as the loop may write to it, and whatever   *)
(* was opened is closed again on every way out but a kill: refused by      *)
(* probe.New, cancelled, done, or with a result that could not be printed. *)
(***************************************************************************)
LogOpenWhileMeasuring ==
  /\ pc \notin {"starting", "stopped"} /\ cfg.evidence => Open("log")
  /\ stage = "exited" => deferred = <<>> /\ pc \in {"starting", "stopped"}

(***************************************************************************)
(* No SIGINT or SIGTERM, however many arrive, ends a measurement half-way: *)
(* the loop has not begun, or has recorded run_finished, when one of them  *)
(* kills the process.  Other signals have no handler at any time.          *)
(***************************************************************************)
SignalsAreOrderly == stage = "killed" => pc \in {"starting", "stopped"}

(***************************************************************************)
(* A cancelled run, and the single tick of --once, come to an end and so   *)
(* does the process, whatever the endpoints, the webhook, the ticker and   *)
(* the scrapes do, even when no endpoint answers.                          *)
(***************************************************************************)
StopsWhenDue ==
  cancelled \/ (once /\ pc = "polling") ~> pc = "stopped" /\ ~Up

(***************************************************************************)
(* An uncancelled run polls for ever.                                      *)
(***************************************************************************)
KeepsPolling ==
  []((pc = "polling" /\ ~once) => (([]<>(pc = "polling")) \/ (<>cancelled)))

=============================================================================
