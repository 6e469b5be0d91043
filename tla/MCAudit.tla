------------------------------ MODULE MCAudit ------------------------------
(***************************************************************************)
(* Evidence for Audit: every log of up to three polls of two endpoints at  *)
(* two instants, every one of four polls of one endpoint, and a few long   *)
(* logs of three endpoints whose percentiles differ from their extremes.   *)
(***************************************************************************)
EXTENDS Audit

\* Polls of a chain whose best height is far above any lag.
Best == 20
Poll(e, t, blocks, seconds, latency) ==
  [endpoint |-> e, at |-> t, class |-> OK, best |-> Best, lag |-> <<blocks, seconds>>,
   latency |-> latency]
Failure(e, t, class, latency) ==
  [endpoint |-> e, at |-> t, class |-> class, best |-> Best, lag |-> <<0, 0>>,
   latency |-> latency]

\* Current; breaching either threshold; and the two classes of failure.
PollsOf(e) ==
  UNION {{Poll(e, t, 0, 0, 4), Poll(e, t, 2, 1, 30), Poll(e, t, 1, 3, 60),
          Failure(e, t, "timeout", 300), Failure(e, t, "rate_limited", 2)} : t \in 1 .. 2}

ShortLogs ==
  UNION {[1 .. n -> PollsOf(1) \cup PollsOf(2)] : n \in 0 .. 3}
    \cup [1 .. 4 -> PollsOf(1)]

\* n polls at the instants 1 to n.
Log(n, PollAt(_)) == [t \in 1 .. n |-> PollAt(t)]

\* One bad poll in 101, two in 101, two in a hundred; distinct lags to 10.
OneBad(e) == Log(101, LAMBDA t : IF t = 50 THEN Poll(e, t, 7, 20, 90) ELSE Poll(e, t, 0, 0, 10))
TwoBad(e) == Log(101, LAMBDA t : IF t % 50 = 0 THEN Poll(e, t, 7, 20, 90) ELSE Poll(e, t, 0, 0, 10))
Flaky(e) == Log(100, LAMBDA t : IF t % 50 = 0 THEN Failure(e, t, "timeout", 300) ELSE Poll(e, t, 0, 0, 10))
Drifting(e) == Log(11, LAMBDA t : Poll(e, t, t - 1, 2 * (t - 1), 20 * t))
Dead(e) == Log(11, LAMBDA t : Failure(e, t, "timeout", 300))
Behind(e) == Log(5, LAMBDA t : Poll(e, t, 1, 2, 4))
Hanging(e) == Log(10, LAMBDA t : Poll(e, t, 0, 0, IF t <= 4 THEN 1200 ELSE 3500))
Tailed(e) == Log(10, LAMBDA t : Poll(e, t, 0, 0, IF t <= 8 THEN 10 ELSE 2000))

\* No block yet, in all polls or in the first ones.
Empty(e) == Log(3, LAMBDA t : [Poll(e, t, 0, 0, 4) EXCEPT !.best = 0])
Starting(e) == Log(5, LAMBDA t : [Poll(e, t, 0, 0, 4) EXCEPT !.best = IF t <= 3 THEN 0 ELSE t])

LongLogs ==
  {Empty(1) \o Starting(2) \o Behind(3),
   OneBad(1) \o Dead(2) \o Tailed(3), TwoBad(2) \o Flaky(1), Drifting(1) \o Dead(2) \o Behind(3),
   Behind(1) \o Hanging(2) \o Tailed(3), Hanging(1) \o Behind(2) \o Drifting(3)}

MCEvidence == ShortLogs \cup LongLogs
MCChainOf == <<"ethereum", "ethereum", "base">>

\* Two events at one instant, the later one without a majority.
MCDivergences ==
  {<<>>, <<[at |-> 2, minority |-> <<2>>], [at |-> 2, minority |-> <<1, 3>>]>>}

MCFlags ==
  {[blocks |-> 2, seconds |-> 3, samples |-> 2], [blocks |-> 2, seconds |-> 0, samples |-> 1],
   [blocks |-> 0, seconds |-> 0, samples |-> 0]}

=============================================================================
