---------------------------- MODULE MCWorkerAgent ----------------------------
(* WorkerAgent for TLC: the slices of the kinds the code tells apart.      *)
EXTENDS WorkerAgent

Slice(e, g, s, b, r) ==
    [engine |-> e, gated |-> g, sweep |-> s, bounded |-> b, released |-> r]

(* A warmed and watched run, a sweep, an unwarmed replay that rejoins, a   *)
(* metrics backfill, and an engine-paced run.                              *)
MCSlices == {Slice("eventgen", TRUE, FALSE, TRUE, FALSE),
             Slice("eventgen", TRUE, TRUE, TRUE, FALSE),
             Slice("rawreplay", TRUE, FALSE, FALSE, TRUE),
             Slice("metrics", TRUE, FALSE, TRUE, FALSE),
             Slice("metrics", FALSE, FALSE, FALSE, FALSE)}
=============================================================================
