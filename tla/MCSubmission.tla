---------------------------- MODULE MCSubmission ----------------------------
(* The two halves of submitting a run, for TLC: the judgement and sizing   *)
(* of its fleet (FleetSizing) and its provisioning (Launch).  They share   *)
(* no state, so a behaviour is one of either and not an interleaving.      *)
EXTENDS FleetSizing, Launch, TLC

VARIABLE half

Init == SizingInit /\ LaunchInit /\ half \in {"sizing", "launch"}
Next ==
    \/ half = "sizing" /\ SizingNext /\ UNCHANGED <<LaunchVars, half>>
    \/ half = "launch" /\ LaunchNext /\ UNCHANGED <<SizingVars, half>>
Spec == Init /\ [][Next]_<<SizingVars, LaunchVars, half>>

OneOfEach == [r \in Runs |-> IF r % 2 = 1 THEN "k8s" ELSE "swarm"]
Submitters == Permutations(Clients)

Basic == [engine |-> "eventgen", mode |-> "eps", rate |-> 12, workers |-> 2, bpe |-> 2,
         counts |-> <<3, NoCount>>, series |-> 0, cap |-> Unset, lints |-> TRUE,
         pack |-> "eventgen", extras |-> "none", inprocess |-> FALSE, code |-> FALSE,
         rotates |-> FALSE, red |-> FALSE]

(* Every rate mode, engine and stanza shape, at rates around the ceilings. *)
Sized ==
    {[Basic EXCEPT !.rate = r, !.workers = n, !.bpe = b] :
        r \in {7, 12, 20, 40}, n \in 1 .. 3, b \in {0, 2, 4}}
    \cup {[Basic EXCEPT !.mode = "per_day_gb", !.rate = r, !.workers = n, !.bpe = b] :
            r \in {12, 40}, n \in 1 .. 3, b \in {0, 2, 4}}
    \cup {[Basic EXCEPT !.mode = "count_interval", !.rate = r, !.workers = n, !.counts = c] :
            r \in {0, 5}, n \in 1 .. 4,
            c \in {<<>>, <<0>>, <<2>>, <<5, 1>>, <<3, 3>>, <<1, -1>>, <<1, NoCount>>}}
    \cup {[Basic EXCEPT !.engine = "metrics", !.pack = p, !.mode = m, !.rate = 0,
                       !.counts = <<>>, !.series = k, !.workers = n] :
            p \in {"metrics", "eventgen"}, m \in {"count_interval"}, k \in 1 .. 4, n \in 1 .. 4}
    \cup {[Basic EXCEPT !.cap = k, !.workers = n, !.bpe = b] :
            k \in {-5, 0, 5, 30}, n \in 1 .. 3, b \in {0, 2}}

(* One of each remaining refusal.                                          *)
Refused ==
    {[Basic EXCEPT !.lints = FALSE], [Basic EXCEPT !.red = TRUE],
     [Basic EXCEPT !.pack = "metrics"], [Basic EXCEPT !.pack = "replaying"],
     [Basic EXCEPT !.extras = "unmergeable"], [Basic EXCEPT !.extras = "mergeable"],
     [Basic EXCEPT !.inprocess = TRUE, !.workers = 3], [Basic EXCEPT !.inprocess = TRUE, !.code = TRUE],
     [Basic EXCEPT !.engine = "rawreplay"], [Basic EXCEPT !.rotates = TRUE],
     [Basic EXCEPT !.engine = "metrics", !.pack = "metrics", !.series = 1],
     [Basic EXCEPT !.engine = "rawreplay", !.pack = "rawreplay", !.workers = 1]}

AllSpecs == Sized \cup Refused

MCTable == [e \in {"eventgen", "rawreplay"} |->
              IF e = "eventgen" THEN [eps |-> 10, gb |-> 25] ELSE [eps |-> 12, gb |-> 0]]
MCOverrides == << [eps |-> Unset, gb |-> 30], [eps |-> 15, gb |-> Unset] >>

AllOps == {"scale", "rescale", "replace"}
=============================================================================
