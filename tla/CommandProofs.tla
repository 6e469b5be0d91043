--------------------------- MODULE CommandProofs ---------------------------
(***************************************************************************)
(* The process around a run: whatever the files, the environment and the   *)
(* scheduling, what the command does to the loop are steps of the loop,    *)
(* signals, exits and the evidence log are in order, and nothing is        *)
(* measured with a configuration that does not fit.  No fairness is used.  *)
(***************************************************************************)
EXTENDS Command, RunLoopProofs, FiniteSetTheorems

\* What is deferred at each stage; a way out unwinds it from the end.
Stacks ==
  {<<>>, <<"log">>, <<"signals">>, <<"log", "signals">>,
   <<"signals", "server">>, <<"log", "signals", "server">>}

Logs == IF cfg.evidence THEN <<"log">> ELSE <<>>

StackInv ==
  /\ deferred \in Stacks
  /\ stage \in {"flags", "loaded", "exited"} => deferred = <<>>
  /\ stage \in {"opened", "built"} => deferred = Logs
  /\ stage = "watching" => deferred = Append(Logs, "signals")
  /\ stage = "measuring" =>
       deferred \in {Append(Logs, "signals"), Append(Append(Logs, "signals"), "server")}

\* The loop has not begun before the command measures, and is over after.
LoopInPlace ==
  /\ stage \in {"flags", "loaded", "opened", "built", "watching"} => pc = "starting"
  /\ stage \in {"unwinding", "exited", "killed"} => pc \in {"starting", "stopped"}

CommandTypeOK ==
  /\ command \in {"run", "validate"}
  /\ stage \in Stage
  /\ stage \notin {"flags", "exited", "killed"} => file \in Files
  /\ server \in {"none", "starting", "listening", "failed", "down"}
  /\ scraping \in BOOLEAN
  /\ status \in {"none", "ok", "error"}

CommandInv == CommandTypeOK /\ StackInv /\ LoopInPlace

-----------------------------------------------------------------------------
(* Facts about the few stacks there are.                                   *)

\* A stack is a sequence of distinct resources.
LEMMA StacksAreStacks ==
  ASSUME NEW s \in Stacks
  PROVE  s \in Seq(Resource) /\ IsInjective(s)
<1>1. CASE s = <<>>
  BY <1>1 DEF IsInjective
<1>2. CASE s = <<"log">>
  BY <1>2 DEF IsInjective, Resource
<1>3. CASE s = <<"signals">>
  BY <1>3 DEF IsInjective, Resource
<1>4. CASE s = <<"log", "signals">>
  BY <1>4 DEF IsInjective, Resource
<1>5. CASE s = <<"signals", "server">>
  BY <1>5 DEF IsInjective, Resource
<1>6. CASE s = <<"log", "signals", "server">>
  BY <1>6 DEF IsInjective, Resource
<1> QED BY <1>1, <1>2, <1>3, <1>4, <1>5, <1>6 DEF Stacks

\* A sequence is the tuple of its elements.
LEMMA Tuples ==
  ASSUME NEW s \in Seq(Resource)
  PROVE  /\ Len(s) = 1 => s = <<s[1]>>
         /\ Len(s) = 2 => s = <<s[1], s[2]>>
         /\ Len(s) = 3 => s = <<s[1], s[2], s[3]>>
<1>1. Len(s) = 1 => s = <<s[1]>>
  OBVIOUS
<1>2. Len(s) = 2 => s = <<s[1], s[2]>>
  OBVIOUS
<1>3. Len(s) = 3 => s = <<s[1], s[2], s[3]>>
  OBVIOUS
<1> QED BY <1>1, <1>2, <1>3

\* Without its last element a stack is still one.
LEMMA FrontOfStack ==
  ASSUME NEW s \in Stacks, s # <<>>
  PROVE  Front(s) \in Stacks
<1>1. s \in Seq(Resource)
  BY StacksAreStacks
<1>2. Len(s) \in 1 .. 3
  BY DEF Stacks
<1>3. /\ Front(s) \in Seq(Resource) /\ Len(Front(s)) = Len(s) - 1
      /\ \A i \in 1 .. Len(s) - 1 : Front(s)[i] = s[i]
  <2>1. CASE Len(s) = 1
    BY <1>1, <2>1 DEF Front
  <2>2. CASE Len(s) = 2
    BY <1>1, <2>2 DEF Front
  <2>3. CASE Len(s) = 3
    BY <1>1, <2>3 DEF Front
  <2> QED BY <1>2, <2>1, <2>2, <2>3
<1>4. CASE s = <<"log">> \/ s = <<"signals">>
  <2>1. Front(s) = <<>>
    BY <1>3, <1>4
  <2> QED BY <2>1 DEF Stacks
<1>5. CASE s = <<"log", "signals">> \/ s = <<"signals", "server">>
  <2>1. Len(s) = 2 /\ s[1] \in {"log", "signals"}
    BY <1>5
  <2>2. Front(s) = <<s[1]>>
    BY <1>3, <2>1, Tuples
  <2> QED BY <2>1, <2>2 DEF Stacks
<1>6. CASE s = <<"log", "signals", "server">>
  <2>1. Len(s) = 3 /\ s[1] = "log" /\ s[2] = "signals"
    BY <1>6
  <2>2. Front(s) = <<s[1], s[2]>>
    BY <1>3, <2>1, Tuples
  <2> QED BY <2>1, <2>2 DEF Stacks
<1> QED BY <1>4, <1>5, <1>6 DEF Stacks

\* The command's own pushes.
LEMMA Pushes ==
  /\ cfg.evidence => Append(Logs, "signals") = <<"log", "signals">>
  /\ ~cfg.evidence => Append(Logs, "signals") = <<"signals">>
  /\ cfg.evidence =>
       Append(Append(Logs, "signals"), "server") = <<"log", "signals", "server">>
  /\ ~cfg.evidence =>
       Append(Append(Logs, "signals"), "server") = <<"signals", "server">>
<1>1. ASSUME NEW s \in Seq(Resource), NEW r \in Resource
      PROVE  /\ Append(s, r) \in Seq(Resource) /\ Len(Append(s, r)) = Len(s) + 1
             /\ \A i \in 1 .. Len(s) : Append(s, r)[i] = s[i]
             /\ Append(s, r)[Len(s) + 1] = r
  OBVIOUS
<1>2. /\ <<>> \in Seq(Resource) /\ <<"log">> \in Seq(Resource)
      /\ "signals" \in Resource /\ "server" \in Resource
  BY DEF Resource
<1>3. Append(<<>>, "signals") = <<"signals">>
  BY <1>1, <1>2, Tuples
<1>4. ASSUME NEW a \in Resource, NEW r \in Resource
      PROVE  Append(<<a>>, r) = <<a, r>>
  <2>1. <<a>> \in Seq(Resource) /\ Len(<<a>>) = 1 /\ <<a>>[1] = a
    OBVIOUS
  <2>2. /\ Append(<<a>>, r) \in Seq(Resource) /\ Len(Append(<<a>>, r)) = 2
        /\ Append(<<a>>, r)[1] = a /\ Append(<<a>>, r)[2] = r
    BY <1>1, <2>1
  <2> QED BY <2>2, Tuples
<1>5. <<"log", "signals">> \in Seq(Resource)
  BY DEF Resource
<1>6. "log" \in Resource
  BY DEF Resource
<1>7. Append(<<"log", "signals">>, "server") = <<"log", "signals", "server">>
  <2> DEFINE t == Append(<<"log", "signals">>, "server")
  <2>1. t \in Seq(Resource) /\ Len(t) = 3 /\ t[1] = "log" /\ t[2] = "signals" /\ t[3] = "server"
    BY <1>1, <1>2, <1>5
  <2> HIDE DEF t
  <2>2. t = <<"log", "signals", "server">>
    BY <2>1, Tuples
  <2> QED BY <2>2 DEF t
<1>8. /\ Append(<<"log">>, "signals") = <<"log", "signals">>
      /\ Append(<<"signals">>, "server") = <<"signals", "server">>
  BY <1>2, <1>4, <1>6
<1> QED BY <1>3, <1>7, <1>8 DEF Logs

\* They make stacks.
LEMMA PushesAreStacks ==
  /\ Append(Logs, "signals") \in Stacks
  /\ Append(Append(Logs, "signals"), "server") \in Stacks
BY Pushes DEF Stacks

\* While it measures, the handler is installed, and the log open if any.
LEMMA MeasuringOpen ==
  ASSUME StackInv, stage = "measuring"
  PROVE  Open("signals") /\ (cfg.evidence => Open("log"))
<1>1. CASE cfg.evidence
  <2>1. deferred \in {<<"log", "signals">>, <<"log", "signals", "server">>}
    BY <1>1, Pushes DEF StackInv
  <2>2. DOMAIN deferred = 1 .. Len(deferred) /\ 1 \in DOMAIN deferred /\ 2 \in DOMAIN deferred
    BY <2>1
  <2>3. deferred[1] = "log" /\ deferred[2] = "signals"
    BY <2>1
  <2> QED BY <2>2, <2>3 DEF Open, ToSet
<1>2. CASE ~cfg.evidence
  <2>1. deferred \in {<<"signals">>, <<"signals", "server">>}
    BY <1>2, Pushes DEF StackInv
  <2>2. 1 \in DOMAIN deferred /\ deferred[1] = "signals"
    BY <2>1
  <2> QED BY <1>2, <2>2 DEF Open, ToSet
<1> QED BY <1>1, <1>2

-----------------------------------------------------------------------------
LEMMA CommandInitInv == Init => CommandInv
BY DEF Init, LoopInit, CommandInv, CommandTypeOK, StackInv, LoopInPlace, Stacks, Stage

\* What the command does before it measures.
LEMMA StartupKeepsInv ==
  ASSUME CommandInv, Startup
  PROVE  CommandInv'
<1> USE DEF CommandInv, CommandTypeOK, Stage
<1>1. ASSUME NEW result \in {"ok", "error"}, stage \in {"flags", "loaded"}, ExitWith(result)
      PROVE  CommandInv'
  BY <1>1 DEF ExitWith, StackInv, LoopInPlace, loopVars, Stacks
<1>2. CASE Usage
  BY <1>1, <1>2 DEF Usage
<1>3. ASSUME NEW f \in Files, LoadFile(f)
      PROVE  CommandInv'
  <2>1. CASE ~Accepted(f, Env) \/ command = "validate"
    BY <1>1, <1>3, <2>1 DEF LoadFile
  <2>2. CASE ~(~Accepted(f, Env) \/ command = "validate")
    BY <1>3, <2>2 DEF LoadFile, StackInv, LoopInPlace, loopVars
  <2> QED BY <2>1, <2>2
<1>4. CASE OpenLog
  <2>1. CASE ~cfg.evidence
    BY <1>4, <2>1 DEF OpenLog, StackInv, Logs, LoopInPlace, loopVars
  <2>2. CASE cfg.evidence
    BY <1>4, <2>2 DEF OpenLog, StackInv, Logs, LoopInPlace, loopVars, Stacks
  <2> QED BY <2>1, <2>2
<1>5. CASE New
  BY <1>5 DEF New, StackInv, Logs, LoopInPlace, loopVars
<1>6. CASE NotifyContext
  <2>1. deferred' = Append(Logs, "signals") /\ Logs' = Logs
    BY <1>6 DEF NotifyContext, StackInv, Logs
  <2> QED BY <1>6, <2>1, PushesAreStacks DEF NotifyContext, StackInv, LoopInPlace, loopVars
<1>7. CASE StartMetrics
  <2>1. /\ deferred' \in {Append(Logs, "signals"), Append(Append(Logs, "signals"), "server")}
        /\ Logs' = Logs
    BY <1>7 DEF StartMetrics, StackInv, Logs
  <2>2. deferred' \in Stacks
    BY <2>1, PushesAreStacks
  <2>3. StackInv'
    BY <1>7, <2>1, <2>2 DEF StartMetrics, StackInv
  <2> QED BY <1>7, <2>3 DEF StartMetrics, LoopInPlace, loopVars
<1> QED BY <1>2, <1>3, <1>4, <1>5, <1>6, <1>7 DEF Startup

\* The steps of the loop leave the command alone.
LEMMA MeasuringKeepsInv ==
  ASSUME CommandInv, Measuring
  PROVE  CommandInv'
BY DEF CommandInv, CommandTypeOK, Stage, Measuring, commandVars, StackInv, Logs, LoopInPlace

\* The ways out, and what runs beside the command.
LEMMA EndKeepsInv ==
  ASSUME CommandInv, Finish \/ Unwind \/ Exit \/ Listen \/ Scrape \/ Interrupt \/ Kill
  PROVE  CommandInv'
<1> USE DEF CommandInv, CommandTypeOK, Stage
<1>1. CASE Finish
  <2>1. status' \in {"ok", "error"}
    BY <1>1 DEF Finish
  <2> QED BY <1>1, <2>1 DEF Finish, StackInv, LoopInPlace, loopVars
<1>2. CASE Unwind
  <2>1. deferred' \in Stacks
    BY <1>2, FrontOfStack DEF Unwind, StackInv
  <2>2. server' \in {"none", "starting", "listening", "failed", "down"}
    BY <1>2 DEF Unwind
  <2>3. StackInv' /\ LoopInPlace'
    BY <1>2, <2>1 DEF Unwind, StackInv, LoopInPlace, loopVars
  <2> QED BY <1>2, <2>2, <2>3 DEF Unwind
<1>3. CASE Exit
  BY <1>3 DEF Exit, StackInv, LoopInPlace, loopVars
<1>4. CASE Listen
  BY <1>4 DEF Listen, StackInv, Logs, LoopInPlace, loopVars
<1>5. CASE Scrape
  BY <1>5 DEF Scrape, StackInv, Logs, LoopInPlace, loopVars
<1>6. CASE Interrupt
  BY <1>6 DEF Interrupt, Cancel, commandVars, StackInv, Logs, LoopInPlace
<1>7. CASE Kill
  <2>1. stage # "measuring"
    BY <1>7, MeasuringOpen DEF Kill
  <2>2. pc \in {"starting", "stopped"} /\ pc' = pc
    BY <1>7, <2>1 DEF Kill, Up, LoopInPlace, loopVars
  <2> QED BY <1>7, <2>2 DEF Kill, StackInv, LoopInPlace
<1> QED BY <1>1, <1>2, <1>3, <1>4, <1>5, <1>6, <1>7

LEMMA CommandNextKeepsInv == CommandInv /\ [Next]_vars => CommandInv'
<1> SUFFICES ASSUME CommandInv, [Next]_vars PROVE CommandInv'
  OBVIOUS
<1>1. CASE Startup
  BY <1>1, StartupKeepsInv
<1>2. CASE Measuring
  BY <1>2, MeasuringKeepsInv
<1>3. CASE Finish \/ Unwind \/ Exit \/ Listen \/ Scrape \/ Interrupt \/ Kill
  BY <1>3, EndKeepsInv
<1>4. CASE UNCHANGED vars
  BY <1>4 DEF vars, commandVars, loopVars, CommandInv, CommandTypeOK, StackInv, Logs,
              LoopInPlace
<1> QED BY <1>1, <1>2, <1>3, <1>4 DEF Next, Work, Answer, Select, Ticks

LEMMA CommandInvariance == SafetySpec => []CommandInv
<1> QED BY CommandInitInv, CommandNextKeepsInv, PTL DEF SafetySpec

-----------------------------------------------------------------------------
(***************************************************************************)
(* Whatever the command does, the loop only makes its own steps: it is     *)
(* neither cut short nor restarted.                                        *)
(***************************************************************************)
THEOREM CommandImplementsLoop == SafetySpec => LoopSafetySpec
<1>1. Init => LoopInit
  BY DEF Init
<1>2. ASSUME [Next]_vars PROVE [LoopNext]_loopVars
  <2>1. CASE Startup
    BY <2>1 DEF Startup, Usage, LoadFile, ExitWith, OpenLog, New, NotifyContext, StartMetrics
  <2>2. CASE Work \/ (\E e \in Endpoint : Answer(e)) \/ Select \/ Ticks
    BY <2>2 DEF Work, Answer, Select, Ticks, LoopNext
  <2>3. CASE Finish \/ Unwind \/ Exit \/ Listen \/ Scrape \/ Kill
    BY <2>3 DEF Finish, Unwind, Exit, Listen, Scrape, Kill
  <2>4. CASE Interrupt
    BY <2>4 DEF Interrupt, LoopNext
  <2>5. CASE UNCHANGED vars
    BY <2>5 DEF vars
  <2> QED BY <1>2, <2>1, <2>2, <2>3, <2>4, <2>5 DEF Next
<1> QED BY <1>1, <1>2, PTL DEF SafetySpec, LoopSafetySpec

(***************************************************************************)
(* Type correctness of the process, the loop included.                     *)
(***************************************************************************)
THEOREM TypeCorrect == SafetySpec => []TypeOK
<1>1. CommandInv /\ LoopTypeOK => TypeOK
  BY StacksAreStacks DEF CommandInv, CommandTypeOK, StackInv, TypeOK
<1> QED BY <1>1, CommandInvariance, CommandImplementsLoop, LoopTypeCorrect, PTL

(***************************************************************************)
(* No SIGINT or SIGTERM ends a measurement half-way.                       *)
(***************************************************************************)
THEOREM SignalsEndRunsInOrder == SafetySpec => []SignalsAreOrderly
<1>1. CommandInv => SignalsAreOrderly
  BY DEF CommandInv, LoopInPlace, SignalsAreOrderly
<1> QED BY <1>1, CommandInvariance, PTL

(***************************************************************************)
(* The log is open as long as the loop may write to it, and every way out  *)
(* closes what was opened.                                                 *)
(***************************************************************************)
THEOREM LogIsOpenForTheLoop == SafetySpec => []LogOpenWhileMeasuring
<1>1. CommandInv => LogOpenWhileMeasuring
  <2> SUFFICES ASSUME CommandInv PROVE LogOpenWhileMeasuring
    OBVIOUS
  <2>1. pc \notin {"starting", "stopped"} => stage = "measuring"
    BY DEF CommandInv, CommandTypeOK, Stage, LoopInPlace
  <2> QED BY <2>1, MeasuringOpen DEF CommandInv, StackInv, LoopInPlace, LogOpenWhileMeasuring
<1> QED BY <1>1, CommandInvariance, PTL

-----------------------------------------------------------------------------
(* What a file that is accepted becomes.                                   *)

\* What MeasuresOnlyWhatFits says of a configuration and its file.
Fits(c, f) ==
  /\ c.timeout \in 1 .. c.interval
  /\ c.interval <= c.hashCheckInterval
  /\ c.finalityDepth >= 2
  /\ \A i, j \in DOMAIN c.endpoints :
       i # j => c.endpoints[i].name # c.endpoints[j].name
  /\ \A i \in DOMAIN c.endpoints : \E j \in DOMAIN c.endpoints \ {i} :
       c.endpoints[i].chain = c.endpoints[j].chain
  /\ Texts(c) \cap DOMAIN Env \subseteq {Env[v] : v \in DOMAIN Env}
  /\ f.timeout = 0 => f.interval >= 3
  /\ f.interval = 0 => f.timeout \in 1 .. 2
  /\ f.hashCheckInterval = 0 => f.interval <= 30

\* The overrides of --evidence and --metrics-addr.
Overridden(c, evidence, metrics) ==
  [c EXCEPT !.evidence = @ \/ evidence, !.metrics = @ \/ metrics]

\* Defaults, expansion and overrides, field by field.
LEMMA LoadedFields ==
  ASSUME NEW f \in DecodedFile, NEW ev, NEW me
  PROVE  LET d == ApplyDefaults(f)
             l == Load(f, Env)
             c == Overridden(l, ev, me)
         IN  /\ d.interval = (IF f.interval = 0 THEN 2 ELSE f.interval)
             /\ d.timeout = (IF f.timeout = 0 THEN 3 ELSE f.timeout)
             /\ d.hashCheckInterval =
                  (IF f.hashCheckInterval = 0 THEN 30 ELSE f.hashCheckInterval)
             /\ l.interval = d.interval /\ c.interval = d.interval
             /\ l.timeout = d.timeout /\ c.timeout = d.timeout
             /\ l.hashCheckInterval = d.hashCheckInterval
             /\ c.hashCheckInterval = d.hashCheckInterval
             /\ l.finalityDepth \in Nat /\ c.finalityDepth = l.finalityDepth
             /\ c.endpoints = l.endpoints /\ c.webhook = l.webhook
BY DEF DecodedFile, ApplyDefaults, Load, Expand, Overridden, DefaultInterval,
       DefaultTimeout, DefaultHashCheckInterval, DefaultFinalityDepth

\* A text as expand leaves it.
Substituted(t) == IF t \in DOMAIN Env /\ Env[t] # "" THEN Env[t] ELSE t

\* The endpoints keep their places and their chains, and texts are expanded.
LEMMA LoadedEndpoints ==
  ASSUME NEW f \in DecodedFile
  PROVE  LET d == ApplyDefaults(f)
             l == Load(f, Env)
         IN  /\ DOMAIN d.endpoints = 1 .. Len(f.endpoints)
             /\ DOMAIN l.endpoints = 1 .. Len(f.endpoints)
             /\ \A i \in 1 .. Len(f.endpoints) :
                  /\ l.endpoints[i].url = Substituted(d.endpoints[i].url)
                  /\ l.endpoints[i].header = Substituted(d.endpoints[i].header)
             /\ l.webhook = Substituted(d.webhook)
<1> DEFINE d == ApplyDefaults(f)
           l == Load(f, Env)
<1>1. /\ f.endpoints \in Seq(DecodedEndpoint)
      /\ DOMAIN f.endpoints = 1 .. Len(f.endpoints)
  BY DEF DecodedFile
<1>2. \A i \in DOMAIN f.endpoints : f.endpoints[i] \in DecodedEndpoint
  BY <1>1
<1>3. d.endpoints = [i \in DOMAIN f.endpoints |->
         [f.endpoints[i] EXCEPT !.region = IF @ = "" THEN f.region ELSE @]]
  BY DEF ApplyDefaults, DecodedFile
<1>4. \A i \in DOMAIN f.endpoints :
        /\ DOMAIN d.endpoints = DOMAIN f.endpoints
        /\ DOMAIN d.endpoints[i] = {"name", "chain", "region", "url", "header"}
  <2> TAKE i \in DOMAIN f.endpoints
  <2> DEFINE e == f.endpoints[i]
  <2>1. e \in DecodedEndpoint
    BY <1>2
  <2>2. d.endpoints[i] = [e EXCEPT !.region = IF @ = "" THEN f.region ELSE @]
    BY <1>3
  <2>3. DOMAIN e = {"name", "chain", "region", "url", "header"}
    BY <2>1 DEF DecodedEndpoint
  <2> HIDE DEF e, d
  <2>4. DOMAIN d.endpoints[i] = {"name", "chain", "region", "url", "header"}
    BY <2>2, <2>3
  <2> QED BY <1>3, <2>4 DEF e
<1>5. /\ DOMAIN d.endpoints = DOMAIN f.endpoints
      /\ "endpoints" \in DOMAIN d /\ "webhook" \in DOMAIN d
  BY <1>3 DEF ApplyDefaults, DecodedFile
<1>6. /\ l.endpoints = [i \in DOMAIN d.endpoints |->
            [d.endpoints[i] EXCEPT !.url = Substituted(@), !.header = Substituted(@)]]
      /\ l.webhook = Substituted(d.webhook)
  BY <1>5 DEF Load, Expand, Substituted
<1> HIDE DEF d, l
<1>7. ASSUME NEW i \in DOMAIN f.endpoints
      PROVE  /\ l.endpoints[i].url = Substituted(d.endpoints[i].url)
             /\ l.endpoints[i].header = Substituted(d.endpoints[i].header)
  <2>1. l.endpoints[i] =
          [d.endpoints[i] EXCEPT !.url = Substituted(@), !.header = Substituted(@)]
    BY <1>5, <1>6
  <2> QED BY <1>4, <2>1
<1> QED BY <1>1, <1>5, <1>6, <1>7 DEF d, l

\* The texts of a configuration, one by one.
LEMMA TextsOneByOne ==
  ASSUME NEW c, NEW t
  PROVE  t \in Texts(c) <=>
           \/ t = c.webhook
           \/ \E i \in DOMAIN c.endpoints : t \in {c.endpoints[i].url, c.endpoints[i].header}
<1> DEFINE of(i) == {c.endpoints[i].url, c.endpoints[i].header}
           Pairs == {of(i) : i \in DOMAIN c.endpoints}
<1>1. Texts(c) = {c.webhook} \cup UNION Pairs
  BY DEF Texts
<1>2. t \in Texts(c) <=> t = c.webhook \/ \E p \in Pairs : t \in p
  <2> HIDE DEF Pairs
  <2> QED BY <1>1
<1>3. (\E p \in Pairs : t \in p) <=> \E i \in DOMAIN c.endpoints : t \in of(i)
  OBVIOUS
<1> HIDE DEF Pairs, of
<1>4. t \in Texts(c) <=> t = c.webhook \/ \E i \in DOMAIN c.endpoints : t \in of(i)
  BY <1>2, <1>3
<1> QED BY <1>4 DEF of

\* No variable that is needed is unset, so a placeholder that is left came in
\* as a value.
LEMMA LoadedTexts ==
  ASSUME NEW f \in DecodedFile, Missing(ApplyDefaults(f), Env) = {}
  PROVE  Texts(Load(f, Env)) \cap DOMAIN Env \subseteq {Env[v] : v \in DOMAIN Env}
<1> DEFINE d == ApplyDefaults(f)
           l == Load(f, Env)
<1>1. Texts(l) \subseteq {Substituted(t) : t \in Texts(d)}
  <2> SUFFICES ASSUME NEW t \in Texts(l)
               PROVE  \E u \in Texts(d) : t = Substituted(u)
    OBVIOUS
  <2>1. CASE t = l.webhook
    <3>1. d.webhook \in Texts(d)
      BY TextsOneByOne
    <3> QED BY <2>1, <3>1, LoadedEndpoints
  <2>2. CASE t # l.webhook
    <3>1. PICK i \in DOMAIN l.endpoints : t \in {l.endpoints[i].url, l.endpoints[i].header}
      <4> HIDE DEF l
      <4> QED BY <2>2, TextsOneByOne
    <3>2. /\ i \in DOMAIN d.endpoints
          /\ t \in {Substituted(d.endpoints[i].url), Substituted(d.endpoints[i].header)}
      BY <3>1, LoadedEndpoints
    <3>3. d.endpoints[i].url \in Texts(d) /\ d.endpoints[i].header \in Texts(d)
      <4> HIDE DEF d
      <4> QED BY <3>2, TextsOneByOne
    <3> HIDE DEF d, l
    <3> QED BY <3>2, <3>3
  <2> QED BY <2>1, <2>2
<1> HIDE DEF l
<1>2. ASSUME NEW u \in Texts(d), Substituted(u) \in DOMAIN Env
      PROVE  Substituted(u) \in {Env[v] : v \in DOMAIN Env}
  <2>1. CASE u \in DOMAIN Env
    <3>1. Env[u] # ""
      BY <2>1 DEF Missing
    <3> QED BY <2>1, <3>1 DEF Substituted
  <2>2. CASE u \notin DOMAIN Env
    BY <1>2, <2>2 DEF Substituted
  <2> QED BY <2>1, <2>2
<1> HIDE DEF d
<1> QED BY <1>1, <1>2 DEF l

\* Overrides change nothing that is validated.
LEMMA OverridesKeepFields ==
  ASSUME NEW f \in DecodedFile, NEW ev, NEW me
  PROVE  LET l == Load(f, Env)
             c == Overridden(l, ev, me)
         IN  Texts(c) = Texts(l)
BY LoadedFields DEF Texts

\* In a valid configuration every endpoint has its own name, and a peer.
LEMMA ValidPeers ==
  ASSUME NEW c, NEW n \in Nat, DOMAIN c.endpoints = 1 .. n, Validate(c)
  PROVE  /\ \A i, j \in DOMAIN c.endpoints :
              i # j => c.endpoints[i].name # c.endpoints[j].name
         /\ \A i \in DOMAIN c.endpoints : \E j \in DOMAIN c.endpoints \ {i} :
              c.endpoints[i].chain = c.endpoints[j].chain
<1>1. ASSUME NEW i \in 1 .. n, NEW j \in 1 .. n, i < j
      PROVE  c.endpoints[i].name # c.endpoints[j].name
  <2>1. ValidEndpoint(c, j) /\ i \in 1 .. j - 1
    BY <1>1 DEF Validate
  <2> QED BY <2>1 DEF ValidEndpoint
<1>2. ASSUME NEW i \in 1 .. n
      PROVE  \E j \in (1 .. n) \ {i} : c.endpoints[i].chain = c.endpoints[j].chain
  <2> DEFINE ch == c.endpoints[i].chain
             Peers == {j \in 1 .. n : c.endpoints[j].chain = ch}
  <2>1. ch \in Chains(c)
    BY DEF Chains
  <2>2. Cardinality(Peers) >= 2
    BY <2>1 DEF Validate, countChain
  <2>3. i \in Peers
    OBVIOUS
  <2>4. Peers # {i}
    <3>1. Cardinality({i}) = 1
      BY FS_Singleton
    <3>2. Peers = {i} => Cardinality(Peers) = Cardinality({i})
      OBVIOUS
    <3> HIDE DEF Peers
    <3>3. Cardinality(Peers) = 1 => FALSE
      BY <2>2
    <3> QED BY <3>1, <3>2, <3>3
  <2>5. PICK j \in Peers : j # i
    BY <2>3, <2>4
  <2> QED BY <2>5
<1>3. ASSUME NEW i \in 1 .. n, NEW j \in 1 .. n, i # j
      PROVE  c.endpoints[i].name # c.endpoints[j].name
  <2>1. i < j \/ j < i
    BY <1>3
  <2> QED BY <1>1, <2>1
<1> QED BY <1>2, <1>3

\* What probe.New is given fits.
LEMMA AcceptedFits ==
  ASSUME NEW f \in Files, Accepted(f, Env), NEW ev, NEW me
  PROVE  Fits(Overridden(Load(f, Env), ev, me), f)
<1> DEFINE l == Load(f, Env)
           c == Overridden(l, ev, me)
<1>1. f \in DecodedFile
  BY FilesAssumption
<1>2. f.interval \in Int /\ f.timeout \in Int /\ f.hashCheckInterval \in Int
      /\ Len(f.endpoints) \in Nat
  BY <1>1 DEF DecodedFile
<1>3. Validate(l) /\ Missing(ApplyDefaults(f), Env) = {}
  BY DEF Accepted, Load
<1>4. /\ l.interval = (IF f.interval = 0 THEN 2 ELSE f.interval)
      /\ l.timeout = (IF f.timeout = 0 THEN 3 ELSE f.timeout)
      /\ l.hashCheckInterval = (IF f.hashCheckInterval = 0 THEN 30 ELSE f.hashCheckInterval)
      /\ l.finalityDepth \in Nat
      /\ c.interval = l.interval /\ c.timeout = l.timeout
      /\ c.hashCheckInterval = l.hashCheckInterval /\ c.finalityDepth = l.finalityDepth
      /\ c.endpoints = l.endpoints
  BY <1>1, LoadedFields
<1>5. Texts(c) \cap DOMAIN Env \subseteq {Env[v] : v \in DOMAIN Env}
  BY <1>1, <1>3, LoadedTexts, OverridesKeepFields
<1>6. DOMAIN l.endpoints = 1 .. Len(f.endpoints)
  BY <1>1, LoadedEndpoints
<1> HIDE DEF l, c
<1>7. /\ \A i, j \in DOMAIN c.endpoints :
           i # j => c.endpoints[i].name # c.endpoints[j].name
      /\ \A i \in DOMAIN c.endpoints : \E j \in DOMAIN c.endpoints \ {i} :
           c.endpoints[i].chain = c.endpoints[j].chain
  <2>1. /\ \A i, j \in DOMAIN l.endpoints :
             i # j => l.endpoints[i].name # l.endpoints[j].name
        /\ \A i \in DOMAIN l.endpoints : \E j \in DOMAIN l.endpoints \ {i} :
             l.endpoints[i].chain = l.endpoints[j].chain
    BY <1>2, <1>3, <1>6, ValidPeers, Zenon
  <2>2. c.endpoints = l.endpoints
    BY <1>4
  <2> QED BY <2>1, <2>2, Zenon
<1>8. /\ l.interval > 0 /\ l.timeout > 0 /\ l.timeout <= l.interval
      /\ l.hashCheckInterval >= l.interval /\ l.finalityDepth >= 2
  BY <1>3 DEF Validate
<1>9. /\ c.timeout \in 1 .. c.interval /\ c.interval <= c.hashCheckInterval
      /\ c.finalityDepth >= 2
      /\ f.timeout = 0 => f.interval >= 3
      /\ f.interval = 0 => f.timeout \in 1 .. 2
      /\ f.hashCheckInterval = 0 => f.interval <= 30
  BY <1>2, <1>4, <1>8
<1> QED BY <1>5, <1>7, <1>9 DEF Fits, c, l

-----------------------------------------------------------------------------
(* The loop begins with a configuration that fits, and nothing changes it. *)

Configured ==
  /\ stage \in {"loaded", "opened", "built", "watching", "measuring"} => Fits(cfg, file)
  /\ pc # "starting" => Fits(cfg, file)

LEMMA InitConfigured == Init => Configured
BY DEF Init, LoopInit, Configured

LEMMA NextKeepsConfigured == CommandInv /\ Configured /\ [Next]_vars => Configured'
<1> SUFFICES ASSUME CommandInv, Configured, [Next]_vars PROVE Configured'
  OBVIOUS
<1>1. ASSUME NEW f \in Files, LoadFile(f)
      PROVE  Configured'
  <2>1. CASE ~Accepted(f, Env) \/ command = "validate"
    BY <1>1, <2>1 DEF LoadFile, ExitWith, loopVars, Configured
  <2>2. CASE Accepted(f, Env) /\ command # "validate"
    <3>1. PICK ev, me \in BOOLEAN : cfg' = Overridden(Load(f, Env), ev, me)
      BY <1>1, <2>2 DEF LoadFile, Overridden
    <3>2. Fits(cfg', file')
      BY <1>1, <2>2, <3>1, AcceptedFits DEF LoadFile
    <3> QED BY <3>2 DEF Configured
  <2> QED BY <2>1, <2>2
<1>2. CASE Usage \/ OpenLog \/ New \/ NotifyContext \/ StartMetrics
  BY <1>2 DEF Usage, ExitWith, OpenLog, New, NotifyContext, StartMetrics, loopVars,
              Configured
<1>3. CASE Measuring
  BY <1>3 DEF Measuring, commandVars, Configured
<1>4. CASE Finish \/ Unwind \/ Exit \/ Listen \/ Scrape \/ Interrupt \/ Kill
  BY <1>4 DEF Finish, Unwind, Exit, Listen, Scrape, Interrupt, Cancel, Kill, loopVars,
              commandVars, Configured
<1>5. CASE UNCHANGED vars
  BY <1>5 DEF vars, loopVars, commandVars, Configured
<1> QED BY <1>1, <1>2, <1>3, <1>4, <1>5 DEF Next, Startup, Work, Answer, Select, Ticks

(***************************************************************************)
(* Whatever the files and the environment say, the loop only ever runs     *)
(* with a configuration whose rounds fit its intervals, whose endpoints    *)
(* can be told apart and compared, and whose placeholders are filled in.   *)
(***************************************************************************)
THEOREM OnlyWhatFitsIsMeasured == SafetySpec => []MeasuresOnlyWhatFits
<1>1. Configured => MeasuresOnlyWhatFits
  BY DEF Configured, Fits, MeasuresOnlyWhatFits
<1> QED BY <1>1, InitConfigured, NextKeepsConfigured, CommandInvariance, PTL DEF SafetySpec

-----------------------------------------------------------------------------
(***************************************************************************)
(* Around the whole process too, no request outlives its round.            *)
(***************************************************************************)
THEOREM CommandJoinsRequests == SafetySpec => []RequestsAreJoined
BY CommandImplementsLoop, GoroutinesAreJoined

=============================================================================
