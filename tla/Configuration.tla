--------------------------- MODULE Configuration ---------------------------
(***************************************************************************)
(* What a configuration file becomes, and which ones are accepted:         *)
(* applyDefaults, expand, Validate and the queries on chains in            *)
(* internal/config/config.go.                                              *)
(*                                                                         *)
(* A file is a record of the fields some decision depends on; a field that *)
(* is left out is 0 or "", as in Go.  Durations are in seconds.  A text is *)
(* a placeholder when it is in the domain of the environment, which gives  *)
(* every variable its value, "" for an unset one.                          *)
(***************************************************************************)
EXTENDS Integers, Sequences, FiniteSets

DefaultInterval == 2
DefaultTimeout == 3
DefaultFinalityDepth == 64
DefaultHashCheckInterval == 30
DefaultCooldown == 300

SupportedChains == {"base", "ethereum"}
ValidURLs == {"url"}    \* http or https, with a host

\* What the decoder makes of a file: anything of the right types.
DecodedEndpoint ==
  [name : STRING, chain : STRING, region : STRING, url : STRING, header : STRING]
DecodedFile ==
  [interval : Int, timeout : Int, finalityDepth : Nat, hashCheckInterval : Int,
   cooldown : Int, region : STRING, webhook : STRING, evidence : BOOLEAN,
   metrics : BOOLEAN, endpoints : Seq(DecodedEndpoint)]

-----------------------------------------------------------------------------
(* Parse: the defaults, then the placeholders, then the checks.            *)

ApplyDefaults(f) ==
  [f EXCEPT !.interval = IF @ = 0 THEN DefaultInterval ELSE @,
            !.timeout = IF @ = 0 THEN DefaultTimeout ELSE @,
            !.finalityDepth = IF @ = 0 THEN DefaultFinalityDepth ELSE @,
            !.hashCheckInterval = IF @ = 0 THEN DefaultHashCheckInterval ELSE @,
            !.cooldown = IF @ = 0 THEN DefaultCooldown ELSE @,
            !.endpoints = [i \in DOMAIN f.endpoints |->
               [f.endpoints[i] EXCEPT !.region = IF @ = "" THEN f.region ELSE @]]]

\* The texts that are expanded: endpoint URLs, header values, the webhook.
Texts(f) ==
  {f.webhook} \cup
    UNION {{f.endpoints[i].url, f.endpoints[i].header} : i \in DOMAIN f.endpoints}

Missing(f, env) == {t \in Texts(f) \cap DOMAIN env : env[t] = ""}

Expand(f, env) ==
  LET sub(t) == IF t \in DOMAIN env /\ env[t] # "" THEN env[t] ELSE t
  IN  [f EXCEPT !.webhook = sub(@),
                !.endpoints = [i \in DOMAIN f.endpoints |->
                   [f.endpoints[i] EXCEPT !.url = sub(@), !.header = sub(@)]]]

Chains(f) == {f.endpoints[i].chain : i \in DOMAIN f.endpoints}
countChain(f, ch) == Cardinality({i \in DOMAIN f.endpoints : f.endpoints[i].chain = ch})

ValidEndpoint(f, i) ==
  LET e == f.endpoints[i]
  IN  /\ e.name # ""
      /\ \A j \in 1 .. i - 1 : f.endpoints[j].name # e.name
      /\ e.chain \in SupportedChains
      /\ e.url \in ValidURLs
      /\ e.region # ""

ValidateTimesApart(f) ==
  /\ f.endpoints # <<>>
  /\ f.interval > 0 /\ f.timeout > 0
  /\ f.hashCheckInterval >= f.interval
  /\ f.finalityDepth >= 2
  /\ \A i \in DOMAIN f.endpoints : ValidEndpoint(f, i)
  /\ \A ch \in Chains(f) : countChain(f, ch) >= 2

Validate(f) ==
  /\ f.endpoints # <<>>
  /\ f.interval > 0 /\ f.timeout > 0
  /\ f.timeout <= f.interval
  /\ f.hashCheckInterval >= f.interval
  /\ f.finalityDepth >= 2
  /\ \A i \in DOMAIN f.endpoints : ValidEndpoint(f, i)
  /\ \A ch \in Chains(f) : countChain(f, ch) >= 2

\* Load refuses a file with an unset variable, or one that is not valid.
Accepted(f, env) ==
  /\ Missing(ApplyDefaults(f), env) = {}
  /\ Validate(Expand(ApplyDefaults(f), env))

Load(f, env) == Expand(ApplyDefaults(f), env)

=============================================================================
