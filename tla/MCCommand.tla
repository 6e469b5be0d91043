----------------------------- MODULE MCCommand -----------------------------
(* Files for Command: one that uses every feature, and what differs from it *)
(* in its times, its endpoints, its texts or what it switches on.           *)
EXTENDS Command

MCEnv == [URL_SET |-> "url", KEY_SET |-> "key", KEY_UNSET |-> ""]

Named(name, ch) ==
  [name |-> name, chain |-> ch, region |-> "", url |-> "URL_SET", header |-> ""]

\* N endpoints of each of the two chains.
Endpoints ==
  [i \in 1 .. 2 * N |-> Named(ToString(i), IF i <= N THEN "base" ELSE "ethereum")]

Full ==
  [interval |-> 4, timeout |-> 3, finalityDepth |-> 0, hashCheckInterval |-> 0,
   cooldown |-> 0, region |-> "eu", webhook |-> "KEY_SET", evidence |-> TRUE,
   metrics |-> TRUE, endpoints |-> Endpoints]

Quiet == [Full EXCEPT !.webhook = "", !.evidence = FALSE, !.metrics = FALSE]

Timings ==
  {[Quiet EXCEPT !.interval = i, !.timeout = t, !.hashCheckInterval = h] :
     i \in {-1, 0, 3, 60}, t \in {-1, 0, 1, 4}, h \in {0, 2, 60}}

WithEndpoint(e) == [Quiet EXCEPT !.endpoints = Append(Endpoints, e)]

Others ==
  {WithEndpoint(e) : e \in
     {Named("x", "solana"), Named("1", "base"), Named("", "base"),
      [Named("x", "base") EXCEPT !.url = "ftp"],
      [Named("x", "base") EXCEPT !.header = "KEY_UNSET"]}}
  \cup {[Quiet EXCEPT !.endpoints = SubSeq(Endpoints, 1, N + 1)],
        [Quiet EXCEPT !.endpoints = <<>>], [Quiet EXCEPT !.region = ""],
        [Quiet EXCEPT !.finalityDepth = 1], [Quiet EXCEPT !.webhook = "KEY_UNSET"]}

MCFiles == {Full} \cup Timings \cup Others

=============================================================================
