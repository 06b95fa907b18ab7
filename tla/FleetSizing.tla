----------------------------- MODULE FleetSizing -----------------------------
(***************************************************************************)
(* How much each worker of a run is given, from the submit gates to the    *)
(* engine configuration the worker writes for itself.                      *)
(*                                                                         *)
(* The control plane judges a spec (server/routes/api.py run_spec, with    *)
(* server/engines), apportions its rate, and hands each slot a share.  The *)
(* worker (stoker_agent/agent.py, confrewrite.py) turns its share into the *)
(* engine's counts when it claims and again, or only partly, when a scale  *)
(* or rescale retargets it.  The two sides keep their own copy of the      *)
(* fleet size and of the share; the properties compare them.               *)
(*                                                                         *)
(* Rates are exact: a share is the fraction rate/workers.  GB/day is       *)
(* eps * bytes-per-event in a unit where the constant factor is one.       *)
(***************************************************************************)
EXTENDS Integers, Sequences, FiniteSets, FiniteSetsExt, Functions

CONSTANTS
    Specs,          \* the specs an operator may submit
    Table,          \* built-in per-worker ceilings by engine, 0 is no bound
    Overrides,      \* the layers above it, weakest first: env, engine, fleet
    DefaultCap,     \* delivery rate of a backfill that names none
    InprocessMax,   \* worker cap of the in-process fleet
    OverNum, OverDen, \* STOKER_OVERDRIVE as a fraction
    BandNum, BandDen, \* RETARGET_IN_PLACE_BAND as a fraction
    MaxWorkers,     \* bound: the largest fleet a scale asks for
    Rates,          \* rates an operator may rescale to
    MaxChanges,     \* bound: scales, rescales and worker replacements
    Ops             \* which of "scale", "rescale", "replace" are explored

Engines == {"eventgen", "rawreplay", "metrics"}
Modes == {"eps", "per_day_gb", "count_interval"}
Unset == -1      \* a ceiling layer that says nothing
NoCount == -2    \* a stanza that declares no count
NoRate == 0

(* cap: delivery rate asked for with a backfill, 0 for none named, Unset   *)
(* for a live run.  extras: the other packs of a multi-pack spec.          *)
SpecType == [engine: Engines, mode: Modes, rate: Nat, workers: Nat \ {0}, bpe: Nat,
             counts: Seq(Int), series: Nat, cap: Int, lints: BOOLEAN,
             pack: {"eventgen", "rawreplay", "replaying", "metrics"},
             extras: {"none", "mergeable", "unmergeable"},
             inprocess: BOOLEAN, code: BOOLEAN, rotates: BOOLEAN, red: BOOLEAN]

Layer == [eps: Int, gb: Int]

ASSUME SizingAssumption ==
    /\ Specs \subseteq SpecType
    /\ \A s \in Specs : /\ s.mode # "count_interval" => s.rate > 0
                        /\ s.engine = "metrics" => s.series > 0
    /\ Table \in [{"eventgen", "rawreplay"} -> [eps: Nat, gb: Nat]]
    /\ Overrides \in Seq(Layer)
    /\ {DefaultCap, InprocessMax, OverNum, OverDen, BandNum, BandDen, MaxWorkers}
         \subseteq Nat \ {0}
    /\ Rates \subseteq Nat \ {0}
    /\ MaxChanges \in Nat
    /\ Ops \subseteq {"scale", "rescale", "replace"}

Slots == 0 .. MaxWorkers - 1

VARIABLES
    spec,      \* the spec submitted, and what became of it
    run,       \* the run's snapshot: its rate mode, rate and worker count
    lease,     \* per slot: present, held, the share and whether to retarget
    worker,    \* per slot: the slice its worker holds and the conf it wrote
    changes    \* changes so far (the bound)

SizingVars == <<spec, run, lease, worker, changes>>

-----------------------------------------------------------------------------
(* server/engines: apportionment, ceilings, sharding.                      *)

Equal(n) == [i \in 1 .. n |-> 1]

RoundDiv(a, b) ==
    LET q == a \div b
        twice == 2 * (a % b)
    IN  IF twice < b \/ (twice = b /\ q % 2 = 0) THEN q ELSE q + 1

CeilDiv(a, b) == -((-a) \div b)

largest_remainder_Floors(total, weights) ==
    LET sum == SumFunction(weights)
    IN  [i \in DOMAIN weights |-> (total * weights[i]) \div sum]

(* Integer parts of total in proportion to weights: the floors, and one    *)
(* more for the largest remainders, ties to the lower index.               *)
largest_remainder(total, weights) ==
    LET sum == SumFunction(weights)
        Rem(i) == (total * weights[i]) % sum
        floors == largest_remainder_Floors(total, weights)
        Ahead(i) == {j \in DOMAIN weights : Rem(j) > Rem(i) \/ (Rem(j) = Rem(i) /\ j < i)}
    IN  [i \in DOMAIN weights |->
            floors[i] + IF Cardinality(Ahead(i)) < total - SumFunction(floors) THEN 1 ELSE 0]

(* Gated rates are split evenly, as fractions.                             *)
Share(rate, n) == [num |-> rate, den |-> n]
NoShare == Share(NoRate, 1)

apportion_shares(mode, rate, n) ==
    IF mode = "count_interval"
      THEN [i \in 0 .. n - 1 |-> Share(largest_remainder(rate, Equal(n))[i + 1], 1)]
      ELSE [i \in 0 .. n - 1 |-> Share(rate, n)]

effective_workers(engine, n) == IF engine = "rawreplay" THEN 1 ELSE n

_normalise_bound(v) == IF v > 0 THEN v ELSE 0
Over(bound, v) == IF v = Unset THEN bound ELSE _normalise_bound(v)

(* The strongest layer that says something wins; 0 disables a bound, and   *)
(* an engine with no table has no ceiling at all.                          *)
resolve_ceilings(engine) ==
    IF engine \notin DOMAIN Table THEN [eps |-> 0, gb |-> 0]
    ELSE LET Last(f) == {i \in DOMAIN Overrides : Overrides[i][f] # Unset}
             Bound(f) == IF Last(f) = {} THEN Table[engine][f]
                         ELSE Over(0, Overrides[Max(Last(f))][f])
         IN  [eps |-> Bound("eps"), gb |-> Bound("gb")]

eps_to_gb_day(eps, bpe) == eps * bpe

Exceeds(num, den, bound) == bound # 0 /\ num > bound * den

(* A share against the ceilings, as <<binding ceiling, numerator, bound>>. *)
Limits(mode, sh, bpe, c) ==
    IF mode = "eps"
      THEN << <<"eps", sh.num, c.eps>>, <<"gb_day", eps_to_gb_day(sh.num, bpe), c.gb>> >>
      ELSE << <<"gb_day", sh.num, c.gb>>, <<"eps", sh.num, c.eps * bpe>> >>

(* A conversion with unknown bytes per event (0) checks nothing.           *)
check_slice(mode, sh, bpe, c) ==
    \/ mode = "count_interval"
    \/ \A i \in 1 .. 2 : LET l == Limits(mode, sh, bpe, c)[i]
                         IN  ~Exceeds(l[2], sh.den, l[3])

(* suggested_workers, computed from the share.                             *)
_exceeded(mode, sh, bpe, c) ==
    LET ls == Limits(mode, sh, bpe, c)
        l == IF Exceeds(ls[1][2], sh.den, ls[1][3]) THEN ls[1] ELSE ls[2]
    IN  Max({2, CeilDiv(l[2], l[3] * sh.den)})

count_interval_active_workers(counts, n) ==
    IF \E i \in DOMAIN counts : counts[i] < 0 THEN n
    ELSE Cardinality({k \in 1 .. n : \E i \in DOMAIN counts :
                        largest_remainder(counts[i], Equal(n))[k] > 0})

metrics_active_workers(series, n) == Min({series, n})

(* Will every requested worker receive work?                               *)
check_sharding(s, n) ==
    \/ n = 1
    \/ /\ s.engine = "metrics"
       /\ metrics_active_workers(s.series, n) >= n
    \/ /\ s.engine # "metrics"
       /\ \/ s.engine = "rawreplay"
          \/ s.mode # "count_interval"
          \/ s.counts = <<>>
          \/ count_interval_active_workers(s.counts, n) >= n

-----------------------------------------------------------------------------
(* The submit gates of run_spec, in order: <<refusal, refused>>.           *)

_per_worker_share(mode, rate, n) == Share(rate, n)

_is_replay_run(s) == s.engine = "rawreplay" \/ s.pack \in {"rawreplay", "replaying"}

_multi_pack_guard(s) == s.extras = "unmergeable" \/ s.engine # "eventgen"

(* The rate a backfill delivers at.                                        *)
plan_backfill(s) == IF s.cap > 0 THEN s.cap ELSE DefaultCap
Backfill(s) == s.cap # Unset

(* The run-wide rate the route checks for a backfill.                      *)
CheckedCap(s) == IF s.cap # 0 THEN s.cap ELSE DefaultCap

EffMode(s) == IF Backfill(s) THEN "eps" ELSE s.mode
EffRate(s) == IF Backfill(s) THEN plan_backfill(s) ELSE s.rate

Ceil(s) == resolve_ceilings(s.engine)
OverCeiling(s) == ~check_slice(s.mode, _per_worker_share(s.mode, s.rate, s.workers), s.bpe, Ceil(s))
OverBackfill(s) ==
    Backfill(s) /\ ~check_slice("eps", _per_worker_share("eps", CheckedCap(s), s.workers), s.bpe, Ceil(s))

Gates(s) ==
    << <<"pack_lint_failed", ~s.lints>>,
       <<"engine_pack_mismatch", \/ s.engine = "rawreplay" /\ s.pack # "rawreplay"
                                 \/ (s.engine = "metrics") # (s.pack = "metrics")>>,
       <<"metrics_rate_mode", s.engine = "metrics" /\ s.mode # "count_interval">>,
       <<"multi_pack_engine_unsupported", s.extras # "none" /\ _multi_pack_guard(s)>>,
       <<"inprocess_worker_cap", s.inprocess /\ s.workers > InprocessMax>>,
       <<"inprocess_custom_code_denied", s.inprocess /\ s.code>>,
       <<"replay_single_worker", _is_replay_run(s) /\ s.workers # 1>>,
       <<"slice_exceeds_ceiling", OverCeiling(s)>>,
       <<"workers_exceed_shardable_work", ~check_sharding(s, s.workers)>>,
       <<"target_unhealthy", s.red>>,
       <<"backfill_exceeds_ceiling", OverBackfill(s)>> >>

Verdict(s) ==
    LET failed == {i \in DOMAIN Gates(s) : Gates(s)[i][2]}
    IN  IF failed = {} THEN "admitted" ELSE Gates(s)[Min(failed)][1]

-----------------------------------------------------------------------------
(* The worker: its slice and the conf it writes.                           *)

(* declared_eps_weights: a stanza without a usable count takes the mean of *)
(* the declared ones (here: of equal intervals, so the counts themselves). *)
declared_eps_weights(counts) ==
    LET known == {i \in DOMAIN counts : counts[i] > 0}
        mean == SumFunction([i \in known |-> counts[i]])
        n == IF known = {} THEN 1 ELSE Cardinality(known)
    IN  [i \in DOMAIN counts |-> IF i \in known THEN n * counts[i]
                                 ELSE IF known = {} THEN 1 ELSE mean]

_rewrite_eps(counts, sh) ==
    LET split == largest_remainder(RoundDiv(sh.num * OverNum, sh.den * OverDen),
                                   declared_eps_weights(counts))
    IN  [i \in DOMAIN counts |-> Max({1, split[i]})]

_rewrite_count_interval(counts, slot, total) ==
    [i \in DOMAIN counts |->
        IF counts[i] < 0 THEN counts[i]
        ELSE largest_remainder(counts[i], Equal(total))[slot + 1]]

(* The conf of an eventgen worker: the counts of its stanzas, and whether  *)
(* the historical window of a backfill is in it.  per_day_gb scales the    *)
(* volumes to share * overdrive and leaves the counts alone.               *)
rewrite(s, mode, slice, history) ==
    [counts |-> CASE mode = "eps" -> _rewrite_eps(s.counts, slice.share)
                  [] mode = "count_interval" ->
                        _rewrite_count_interval(s.counts, slice.slot, slice.total)
                  [] OTHER -> s.counts,
     history |-> history, share |-> slice.share]

(* How much work a slot holds, by the worker's own reckoning.              *)
assigned_stanza_count(mode, counts) ==
    Cardinality({i \in DOMAIN counts : mode # "count_interval" \/ counts[i] # 0})

(* series[slot::total]                                                     *)
OwnedSeries(s, slice) == Cardinality({k \in 0 .. s.series - 1 : k % slice.total = slice.slot})

Assigned(s, mode, w) ==
    CASE s.engine = "metrics" -> OwnedSeries(s, w)
      [] s.engine = "rawreplay" -> 1
      [] OTHER -> assigned_stanza_count(mode, w.conf.counts)

NoConf == [counts |-> <<>>, history |-> FALSE, share |-> NoShare]
NoWorker == [slot |-> 0, total |-> 1, share |-> NoShare, conf |-> NoConf]
NoLease == [row |-> FALSE, held |-> FALSE, share |-> NoShare, retarget |-> FALSE]
NoRun == [mode |-> "eps", rate |-> NoRate, workers |-> 0]

SizingInit ==
    /\ spec = [s \in {} |-> 0]
    /\ run = NoRun
    /\ lease = [i \in Slots |-> NoLease]
    /\ worker = [i \in Slots |-> NoWorker]
    /\ changes = 0

Running == run.workers > 0

(* Submit: every gate, then the leases of provision_run.                   *)
insert_run(s) ==
    /\ DOMAIN spec = {}
    /\ LET n == effective_workers(s.engine, s.workers)
           v == Verdict(s)
           shares == apportion_shares(EffMode(s), EffRate(s), n)
       IN  /\ spec' = [s |-> s, verdict |-> v]
           /\ IF v = "admitted"
                THEN /\ run' = [mode |-> EffMode(s), rate |-> EffRate(s), workers |-> n]
                     /\ lease' = [i \in Slots |-> IF i < n THEN [NoLease EXCEPT !.row = TRUE,
                                                                !.share = shares[i]]
                                                  ELSE NoLease]
                ELSE UNCHANGED <<run, lease>>
    /\ UNCHANGED <<worker, changes>>

(* A worker claims a slot and writes its conf.  Only the first write knows *)
(* of a backfill's window.                                                 *)
claim(i) ==
    /\ lease[i].row /\ ~lease[i].held
    /\ LET slice == [slot |-> i, total |-> run.workers, share |-> lease[i].share]
       IN  worker' = [worker EXCEPT ![i] =
             [slot |-> i, total |-> run.workers, share |-> lease[i].share,
              conf |-> IF spec.s.engine = "eventgen"
                         THEN rewrite(spec.s, run.mode, slice, Backfill(spec.s))
                         ELSE [NoConf EXCEPT !.history = Backfill(spec.s)]]]
    /\ lease' = [lease EXCEPT ![i].held = TRUE]
    /\ UNCHANGED <<spec, run, changes>>

Change(op) ==
    /\ Running
    /\ op \in Ops
    /\ changes < MaxChanges
    /\ changes' = changes + 1

_guard_run_ceiling_Skipped(rate, n) == TRUE

(* The ceiling re-check of scale and rescale.                              *)
_guard_run_ceiling(rate, n) ==
    check_slice(run.mode, _per_worker_share(run.mode, rate, n), spec.s.bpe, Ceil(spec.s))

(* New shares: a held lease is marked for retarget, a free one just gets   *)
(* its share; rows past the fleet are deleted.                             *)
Reapportioned(rate, n) ==
    LET shares == apportion_shares(run.mode, rate, n)
    IN  [i \in Slots |->
          IF i >= n THEN NoLease
          ELSE [lease[i] EXCEPT !.row = TRUE, !.share = shares[i], !.retarget = lease[i].held]]

(* A live run is scaled without asking again whether the work shards.      *)
scale_run(n) ==
    /\ Change("scale")
    /\ effective_workers(spec.s.engine, n) = n
    /\ spec.s.rotates => n = run.workers
    /\ _guard_run_ceiling(run.rate, n)
    /\ run' = [run EXCEPT !.workers = n]
    /\ lease' = Reapportioned(run.rate, n)
    /\ worker' = [i \in Slots |-> IF i < n THEN worker[i] ELSE NoWorker]
    /\ UNCHANGED spec

rescale_run(rate) ==
    /\ Change("rescale")
    /\ _guard_run_ceiling(rate, run.workers)
    /\ run' = [run EXCEPT !.rate = rate]
    /\ lease' = Reapportioned(rate, run.workers)
    /\ UNCHANGED <<spec, worker>>

(* A worker is lost and its slot offered again.                            *)
replace(i) ==
    /\ Change("replace")
    /\ lease[i].held
    /\ lease' = [lease EXCEPT ![i].held = FALSE, ![i].retarget = FALSE]
    /\ worker' = [worker EXCEPT ![i] = NoWorker]
    /\ UNCHANGED <<spec, run>>

(* Within the in-place band of the share the worker holds now, a gated     *)
(* worker only re-aims its bucket.                                         *)
InPlace(old, new) ==
    LET a == new.num * old.den
        b == old.num * new.den
        gap == IF a > b THEN a - b ELSE b - a
    IN  b > 0 /\ gap * BandDen <= BandNum * b

(* The retarget command reaches the worker.  Its fleet size stays what it  *)
(* was at the claim.  A share that is not positive is ignored.             *)
_retarget(i) ==
    /\ lease[i].held /\ lease[i].retarget
    /\ lease' = [lease EXCEPT ![i].retarget = FALSE]
    /\ LET w == worker[i]
           new == [w EXCEPT !.share = lease[i].share]
       IN  worker' = [worker EXCEPT ![i] =
             IF lease[i].share.num = 0 THEN w
             ELSE IF run.mode # "count_interval" /\ InPlace(w.share, lease[i].share) THEN new
             ELSE IF spec.s.engine = "eventgen"
               THEN [new EXCEPT !.conf = rewrite(spec.s, run.mode, new, FALSE)]
             ELSE new]
    /\ UNCHANGED <<spec, run, changes>>

SizingNext ==
    \/ \E s \in Specs : insert_run(s)
    \/ \E n \in 1 .. MaxWorkers : scale_run(n)
    \/ \E r \in Rates : rescale_run(r)
    \/ \E i \in Slots : claim(i) \/ replace(i) \/ _retarget(i)

SizingSpec == SizingInit /\ [][SizingNext]_SizingVars

-----------------------------------------------------------------------------
Held == {i \in Slots : lease[i].row /\ lease[i].held}
Fits(sh) == check_slice(run.mode, sh, spec.s.bpe, Ceil(spec.s))

(* No slot is ever asked for, and no worker ever paces itself at, more     *)
(* than one worker's ceiling: not at the launch, not while it backfills,   *)
(* not after any sequence of scales and rescales, whichever retargets have *)
(* arrived.  A negative backfill cap is checked as given and then replaced *)
(* by the default, so it is left out.                                      *)
SharesUnderCeiling ==
    Running /\ spec.s.cap >= Unset =>
        \A i \in Slots : /\ lease[i].row => Fits(lease[i].share)
                         /\ i \in Held => Fits(worker[i].share)

(* Every worker of a fleet nobody has scaled has something to generate, by *)
(* the worker's own count of its stanzas or series: the submit gate        *)
(* predicts what the workers compute.  A pack whose every count is 0 holds *)
(* no work for anyone, which a fleet of one is not refused for.            *)
EveryWorkerWorks ==
    Running /\ (\A i \in Held : worker[i].total = effective_workers(spec.s.engine, spec.s.workers)) =>
        \A i \in Held : \/ Assigned(spec.s, run.mode, worker[i]) > 0
                        \/ /\ spec.s.engine = "eventgen"
                           /\ \A k \in DOMAIN spec.s.counts : spec.s.counts[k] = 0

(* What the submit gates admit fits its workers, and its workers it.       *)
AdmittedFits == SharesUnderCeiling /\ EveryWorkerWorks

(* Workers that agree on the fleet size split every stanza's count exactly:*)
(* nothing twice, nothing lost, no two workers more than one apart.        *)
CountsPartitioned ==
    Running /\ run.mode = "count_interval" /\ spec.s.engine = "eventgen"
      /\ Held = 0 .. run.workers - 1 /\ (\A i \in Held : worker[i].total = run.workers) =>
        \A k \in DOMAIN spec.s.counts : spec.s.counts[k] >= 0 =>
            LET parts == [i \in Held |-> worker[i].conf.counts[k]]
            IN  /\ SumFunction(parts) = spec.s.counts[k]
                /\ \A i, j \in Held : parts[i] - parts[j] \in {-1, 0, 1}

(* The engine of a flat eps worker supplies at least the rate its bucket   *)
(* releases: "the conf is rewritten ~15 % hot; the agent releases events   *)
(* against the wall clock so the delivered rate hits the exact share".     *)
SupplyMeetsShare ==
    Running /\ run.mode = "eps" /\ spec.s.engine = "eventgen" /\ spec.s.counts # <<>> =>
        \A i \in Held : SumFunction(worker[i].conf.counts) * worker[i].share.den >= worker[i].share.num

(* A backfill's engine has its historical window for as long as it runs.   *)
HistoryKept ==
    Running /\ Backfill(spec.s) /\ spec.s.engine = "eventgen" =>
        \A i \in Held : worker[i].conf.history

(* A fleet refused for its share passes at the size the refusal suggests.  *)
SuggestionSuffices ==
    DOMAIN spec # {} /\ spec.verdict = "slice_exceeds_ceiling" =>
        LET s == spec.s
            n == _exceeded(s.mode, _per_worker_share(s.mode, s.rate, s.workers), s.bpe, Ceil(s))
        IN  ~OverCeiling([s EXCEPT !.workers = n])

=============================================================================
