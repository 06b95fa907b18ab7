---------------------------- MODULE MCAccounting ----------------------------
(* How events are counted, for TLC: inside a worker, from the engine to    *)
(* the summary of its drain (DataPath: an eps run with either envelope and *)
(* a cadence replay), and in the control plane, from heartbeats and finals *)
(* to the totals of the run (RunTotals).  Before both, the engines that    *)
(* make the events (Generators).  They share no state, so a behaviour is   *)
(* one of the three.                                                       *)
EXTENDS DataPath, RunTotals, Generators, TLC

VARIABLE part

(* The parts that stay put start in one state only.                        *)
OneMode == mode = CHOOSE m \in RunModes : TRUE
OneJob == job = (CHOOSE j \in Jobs : TRUE) /\ fleet = 1
Init ==
    /\ PathInit /\ TotalsInit /\ GenInit
    /\ \/ part = "path" /\ OneJob
       \/ part = "totals" /\ OneMode /\ OneJob
       \/ part = "engines" /\ OneMode
Next ==
    \/ part = "path" /\ PathNext /\ UNCHANGED <<TotalsVars, GenVars, part>>
    \/ part = "totals" /\ TotalsNext /\ UNCHANGED <<PathVars, GenVars, part>>
    \/ part = "engines" /\ GenNext /\ UNCHANGED <<PathVars, TotalsVars, part>>
Spec == Init /\ [][Next]_<<PathVars, TotalsVars, GenVars, part>>

Run(engine, envelope, gated, bounded) ==
    [engine |-> engine, envelope |-> envelope, gated |-> gated, bounded |-> bounded]

SomeModes == {Run("eventgen", "stoker", TRUE, FALSE), Run("eventgen", "hec", TRUE, FALSE),
              Run("replay", "stoker", FALSE, TRUE)}

Lines == <<"ok", "odd", "ok">>

(* A window of the past that does not start on its grid.                   *)
Past == [start |-> 1, end |-> 4, res |-> 2]
(* Lines by what a reader of times finds in them.                          *)
Blank == [blank |-> TRUE]
Line(shapes, match, group, strp) ==
    [blank |-> FALSE, shapes |-> shapes, match |-> match, group |-> group, strp |-> strp]
Stamped(t) == Line(<<-1, t, -1>>, TRUE, <<t, -1, t + 1>>, t)
Mute == Line(<<-1, -1, -1>>, FALSE, <<>>, -1)
Matrix(m, n) == [mode |-> m, series |-> n, regex |-> "none", data |-> <<>>]
Replay(m, regex, data) == [mode |-> m, series |-> 1, regex |-> regex, data |-> data]
SomeJobs ==
    {Matrix("grid", 1), Matrix("grid", 3), Matrix("backfill", 3),
     Replay("rate", "none", <<Blank>>), Replay("rate", "none", <<Stamped(1), Blank, Mute>>),
     Replay("cadence", "none", <<Stamped(1), Blank, Stamped(2), Stamped(1)>>),
     Replay("cadence", "shapes", <<Stamped(1), Mute, Stamped(2)>>),
     Replay("cadence", "strptime", <<Mute, Stamped(1), Mute>>)}

(* Neither connections nor slots are told apart.                           *)
Unordered == Permutations(Conns) \cup Permutations(Slots)
=============================================================================
