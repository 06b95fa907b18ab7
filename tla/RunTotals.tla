------------------------------ MODULE RunTotals ------------------------------
(***************************************************************************)
(* How many events a run is said to have delivered: the counters workers   *)
(* report (server/lifecycle.py record_heartbeat, record_final, stop_run,   *)
(* scale_run, fold_totals, live_totals) and the maintenance that thins     *)
(* them out (server/metrics_lifecycle.py roll_up_and_prune).               *)
(*                                                                         *)
(* One cumulative counter stands for the seven.  A handler loads the run   *)
(* in its own session and commits a whole new totals_json later: the two   *)
(* ends are separate steps.                                                *)
(***************************************************************************)
EXTENDS Integers, FiniteSets, Functions

CONSTANTS
    Slots,        \* the slots of the run
    MaxSend,      \* bound: events delivered
    MaxTime,      \* bound: the clock
    MaxSamples,   \* bound: rows of metric_samples
    MaxChanges,   \* bound: lapses and removals of slots
    Bucket,       \* metric_rollup_bucket_s
    RollAfter,    \* metric_rollup_after_h
    PruneAfter    \* metric_prune_after_d

ASSUME TotalsAssumption ==
    /\ IsFiniteSet(Slots)
    /\ {MaxSend, MaxTime, MaxSamples, MaxChanges, RollAfter, PruneAfter} \subseteq Nat
    /\ Bucket \in Nat \ {0} /\ RollAfter < PruneAfter

VARIABLES
    now,       \* the clock
    lease,     \* per slot: the state of its lease row, "none" without one,
               \* "vacant" a lost one nobody ever held
    count,     \* per slot: events its current worker has had accepted
    before,    \* per slot: events of the workers it had before
    samples,   \* per slot: its metric_samples, as [ts, n]
    totals,    \* runs.totals_json
    final,     \* per slot: the final report being handled
    stop,      \* the forced stop being handled
    changes,   \* lapses and removals so far (the bound)
    acked,     \* history, per slot: the last counter its worker had accepted
    trail      \* history: what excuses a wrong total

TotalsVars == <<now, lease, count, before, samples, totals, final, stop, changes, acked, trail>>

NoRequest == [pc |-> "idle", base |-> 0]

TotalsInit ==
    /\ now = 0
    /\ lease = [s \in Slots |-> "held"]
    /\ count = [s \in Slots |-> 0]
    /\ before = [s \in Slots |-> 0]
    /\ samples = [s \in Slots |-> {}]
    /\ totals = 0
    /\ final = [s \in Slots |-> NoRequest]
    /\ stop = NoRequest
    /\ changes = 0
    /\ acked = [s \in Slots |-> 0]
    /\ trail = [overlap |-> FALSE, refolded |-> FALSE, dropped |-> {}]

Stopped == stop.pc = "done"

(* The counter of the newest sample (_latest_sample).                      *)
Newest(set) == IF set = {} THEN 0 ELSE (CHOOSE x \in set : \A y \in set : y.ts <= x.ts).n

(* Every slot with a row that is not done adds its newest sample.          *)
live_totals(base) ==
    base + SumFunction([s \in {t \in Slots : lease[t] \notin {"none", "done"}} |-> Newest(samples[s])])

Shown == live_totals(totals)
Sent == SumFunction([s \in Slots |-> before[s] + count[s]])

fold_totals(base, n) == base + n

-----------------------------------------------------------------------------
TimePasses ==
    /\ now < MaxTime
    /\ now' = now + 1
    /\ UNCHANGED <<lease, count, before, samples, totals, final, stop, changes, acked, trail>>

(* The HEC client of the slot's worker has one more event accepted.  A     *)
(* worker whose lease lapsed, or whose run was stopped under it, goes on.  *)
deliver(s) ==
    /\ lease[s] \in {"held", "lost", "done"} /\ final[s].pc = "idle"
    /\ lease[s] = "done" => Stopped
    /\ Sent < MaxSend
    /\ count' = [count EXCEPT ![s] = @ + 1]
    /\ UNCHANGED <<now, lease, before, samples, totals, final, stop, changes, acked, trail>>

(* record_heartbeat: the holder's counters become a sample, whatever state *)
(* its lease is in.                                                        *)
record_heartbeat(s) ==
    /\ lease[s] \in {"held", "lost", "done"} /\ final[s].pc = "idle"
    /\ lease[s] = "done" => Stopped
    /\ \A x \in samples[s] : x.ts # now
    /\ SumFunction([t \in Slots |-> Cardinality(samples[t])]) < MaxSamples
    /\ samples' = [samples EXCEPT ![s] = @ \cup {[ts |-> now, n |-> count[s]]}]
    /\ acked' = IF lease[s] = "done" THEN acked ELSE [acked EXCEPT ![s] = count[s]]
    /\ UNCHANGED <<now, lease, count, before, totals, final, stop, changes, trail>>

lapse(s) ==
    /\ lease[s] = "held"
    /\ changes < MaxChanges /\ changes' = changes + 1
    /\ lease' = [lease EXCEPT ![s] = "lost"]
    /\ UNCHANGED <<now, count, before, samples, totals, final, stop, acked, trail>>

(* A new worker takes the slot and counts from zero; the old one is fenced *)
(* off, its final ignored.                                                 *)
claim(s) ==
    /\ lease[s] \in {"free", "lost"} /\ ~Stopped
    /\ lease' = [lease EXCEPT ![s] = "held"]
    /\ before' = [before EXCEPT ![s] = @ + count[s]]
    /\ count' = [count EXCEPT ![s] = 0]
    /\ acked' = [acked EXCEPT ![s] = 0]
    /\ final' = [final EXCEPT ![s] = NoRequest]
    /\ UNCHANGED <<now, samples, totals, stop, changes, trail>>

(* The final report arrives and its session loads the run.                 *)
final_loads(s) ==
    /\ lease[s] \in {"held", "lost", "done"} /\ final[s].pc = "idle"
    /\ final' = [final EXCEPT ![s] = [pc |-> "open", base |-> totals]]
    /\ UNCHANGED <<now, lease, count, before, samples, totals, stop, changes, acked, trail>>

record_final_Again(s) ==
    /\ final[s].pc = "open" /\ lease[s] # "none"
    /\ totals' = fold_totals(final[s].base, count[s])
    /\ lease' = [lease EXCEPT ![s] = "done"]
    /\ acked' = [acked EXCEPT ![s] = count[s]]
    /\ trail' = [trail EXCEPT !.overlap = @ \/ final[s].base # totals]
    /\ final' = [final EXCEPT ![s] = NoRequest]
    /\ UNCHANGED <<now, count, before, samples, stop, changes>>

(* It folds its count into what it loaded, once: a retry, or a final after *)
(* a forced stop, finds the lease done.                                    *)
record_final(s) ==
    /\ final[s].pc = "open"
    /\ IF lease[s] \notin {"held", "lost"} THEN UNCHANGED <<totals, lease, acked, trail>>
       ELSE /\ totals' = fold_totals(final[s].base, count[s])
            /\ lease' = [lease EXCEPT ![s] = "done"]
            /\ acked' = [acked EXCEPT ![s] = count[s]]
            /\ trail' = [trail EXCEPT !.overlap = @ \/ final[s].base # totals]
    /\ final' = [final EXCEPT ![s] = NoRequest]
    /\ UNCHANGED <<now, count, before, samples, stop, changes>>

(* A forced stop loads the run, and calls the driver before it goes on.    *)
stop_loads ==
    /\ stop.pc = "idle"
    /\ stop' = [pc |-> "open", base |-> totals]
    /\ UNCHANGED <<now, lease, count, before, samples, totals, final, changes, acked, trail>>

(* Only leases with a worker are finalised; the fold covers all not done.  *)
Finalised == {s \in Slots : lease[s] = "held"}
Refolded == {s \in Slots : lease[s] \in {"free", "lost"} /\ Newest(samples[s]) > 0}

_fold_heartbeat_totals(base) == live_totals(base)

stop_run ==
    /\ stop.pc = "open"
    /\ totals' = _fold_heartbeat_totals(stop.base)
    /\ lease' = [s \in Slots |-> IF s \in Finalised THEN "done"
                                 ELSE IF lease[s] = "free" THEN "vacant" ELSE lease[s]]
    /\ stop' = [pc |-> "done", base |-> 0]
    /\ trail' = [trail EXCEPT !.overlap = @ \/ stop.base # totals,
                              !.refolded = @ \/ Refolded # {}]
    /\ UNCHANGED <<now, count, before, samples, final, changes, acked>>

(* Scaling removes a slot's row whatever its state, its worker is told it  *)
(* is superseded, and a later scale may bring the slot back.               *)
scale_down(s) ==
    /\ lease[s] # "none" /\ ~Stopped
    /\ \E t \in Slots \ {s} : lease[t] # "none"
    /\ changes < MaxChanges /\ changes' = changes + 1
    /\ lease' = [lease EXCEPT ![s] = "none"]
    /\ before' = [before EXCEPT ![s] = @ + count[s]]
    /\ count' = [count EXCEPT ![s] = 0]
    /\ acked' = [acked EXCEPT ![s] = 0]
    /\ final' = [final EXCEPT ![s] = NoRequest]
    /\ trail' = [trail EXCEPT !.dropped = @ \cup {s}]
    /\ UNCHANGED <<now, samples, totals, stop>>

scale_up(s) ==
    /\ lease[s] = "none" /\ ~Stopped
    /\ lease' = [lease EXCEPT ![s] = "free"]
    /\ trail' = [trail EXCEPT !.refolded = @ \/ Newest(samples[s]) > 0]
    /\ UNCHANGED <<now, count, before, samples, totals, final, stop, changes, acked>>

-----------------------------------------------------------------------------
(* Maintenance.                                                            *)

Old(set, age) == {x \in set : x.ts + age < now}
Members(set, b) == {x \in set : x.ts \div Bucket = b}

(* A bucket's samples become one, at the bucket's floor, with the last     *)
(* counter.                                                                *)
_aggregate_bucket_Summed(set, b) == {[ts |-> b * Bucket, n |-> SumFunction([x \in set |-> x.n])]}

_aggregate_bucket(set, b) == {[ts |-> b * Bucket, n |-> Newest(set)]}

_roll_up(set) ==
    LET old == Old(set, RollAfter)
        buckets == {b \in 0 .. MaxTime : Cardinality(Members(old, b)) > 1}
    IN  (set \ UNION {Members(old, b) : b \in buckets})
            \cup UNION {_aggregate_bucket(Members(old, b), b) : b \in buckets}

roll_up ==
    /\ \E s \in Slots : _roll_up(samples[s]) # samples[s]
    /\ samples' = [s \in Slots |-> _roll_up(samples[s])]
    /\ UNCHANGED <<now, lease, count, before, totals, final, stop, changes, acked, trail>>

_prune ==
    /\ \E s \in Slots : Old(samples[s], PruneAfter) # {}
    /\ samples' = [s \in Slots |-> samples[s] \ Old(samples[s], PruneAfter)]
    /\ trail' = [trail EXCEPT !.dropped = @ \cup
                   {s \in Slots : samples[s] # {} /\ samples[s] = Old(samples[s], PruneAfter)}]
    /\ UNCHANGED <<now, lease, count, before, totals, final, stop, changes, acked>>

TotalsNext ==
    \/ TimePasses \/ stop_loads \/ stop_run \/ roll_up \/ _prune
    \/ \E s \in Slots : \/ deliver(s) \/ record_heartbeat(s) \/ lapse(s) \/ claim(s)
                        \/ final_loads(s) \/ record_final(s)
                        \/ scale_down(s) \/ scale_up(s)

TotalsSpec == TotalsInit /\ [][TotalsNext]_TotalsVars

-----------------------------------------------------------------------------
(* "Nothing is counted twice": a run never shows more events than its      *)
(* workers had accepted, through lapses, takeovers, finals sent twice and  *)
(* a forced stop.  Left out: a forced stop that folds a slot it does not   *)
(* finalise, and a slot that scaling brings back with its old samples.     *)
NothingCountedTwice == ~trail.refolded => Shown <= Sent

(* What the control plane accepted from the worker that holds a slot stays *)
(* in the total, by heartbeat, final or forced stop.  Left out: a fold     *)
(* committed over another, and slots scaled away or pruned.                *)
NothingForgotten ==
    ~trail.overlap =>
        Shown >= SumFunction([s \in Slots \ trail.dropped |-> acked[s]])

(* Rolling samples up changes no total that is shown.                      *)
RollUpNeutral ==
    [][roll_up => Shown' = Shown]_TotalsVars

(* What is in the total stays in it, also when samples are rolled up.      *)
TotalsKept == []NothingForgotten /\ RollUpNeutral

(* "Sums numeric keys across workers": with every slot final, the total is *)
(* what the workers reported.                                              *)
FinalsSummed ==
    (\A s \in Slots : lease[s] = "done") /\ stop.pc = "idle" /\ trail.dropped = {} =>
        totals = SumFunction(acked)

=============================================================================
