---------------------------- MODULE RunLifecycle ----------------------------
(***************************************************************************)
(* One run of the Stoker control plane (server/lifecycle.py) together with *)
(* the worker agents that hold its leases (worker/stoker_agent/agent.py).  *)
(*                                                                         *)
(* A run has one lease row per worker slot.  A worker claims a slot, warms *)
(* its engine, reports ready, polls heartbeats until the control plane     *)
(* releases the fleet at a shared T0, generates, and reports a final       *)
(* summary.  The supervisor lapses silent leases, releases a partial       *)
(* fleet, aborts, drains, and completes the run.                           *)
(*                                                                         *)
(* Every request handler, operator endpoint and supervisor pass is one     *)
(* atomic step: it reads the rows, computes their successors and commits.  *)
(* Clock time appears only as the deadlines the code compares it with;     *)
(* each deadline is an environment step that makes it pass.                *)
(*                                                                         *)
(* A definition named X_Variant is a broken X: the mutation test of a      *)
(* property replaces X by it and the property must then fail.              *)
(***************************************************************************)
EXTENDS Integers, FiniteSets

CONSTANTS
    Workers,         \* worker processes; each process is its own holder name
    None,            \* a lease row's null holder, a claim's null hint
    MaxSlots,        \* bound: the largest worker count a run is scaled to
    InitialWorkers,  \* the spec's worker count
    Rates,           \* run rates an operator or the supervisor may set
    InitialRate,     \* the spec's rate
    MaxClaims,       \* bound: fencing tokens minted per slot
    StrictRelease,   \* the spec's strict_release flag
    Bounded,         \* the spec has a duration_s
    Backpressure,    \* STOKER_BACKPRESSURE_DRAIN with the step_down action
    ReplyLoss,       \* a processed request's HTTP reply may be lost
    Ops              \* which operator and boot events this instance explores

Slots == 0 .. MaxSlots - 1

AllOps == {"stop", "force", "pause", "scale", "rescale", "restart", "vanish",
           "auth", "crash"}

ASSUME ConstantsAssumption ==
    /\ None \notin Workers
    /\ MaxSlots \in Nat \ {0}
    /\ InitialWorkers \in 1 .. MaxSlots
    /\ Rates \subseteq Nat
    /\ InitialRate \in Rates
    /\ MaxClaims \in Nat
    /\ {StrictRelease, Bounded, Backpressure, ReplyLoss} \subseteq BOOLEAN
    /\ Ops \subseteq AllOps

VARIABLES
    run,     \* the runs row, with the deadlines that have passed for it
    lease,   \* the worker_leases rows by slot; state "absent" when deleted
    fleet,   \* the driver's workload and the fleet_destroyed audit event
    worker,  \* the worker processes
    booting  \* the control plane is inside BOOT_GRACE_S of a restart

vars == <<run, lease, fleet, worker, booting>>

-----------------------------------------------------------------------------
(* The rows.                                                               *)

Terminal == {"completed", "stopped", "failed"}
RunStates == {"provisioning", "releasing", "running", "paused", "draining"} \cup Terminal

Live == {"claimed", "ready", "running"}
LeaseStates == {"absent", "free", "lost", "done"} \cup Live

FailedReasons == {"provision-failed", "strict-release-timeout", "auto-abort-lost",
                  "auto-abort-auth", "all-workers-lost", "orphaned", "no-events"}
Reasons == FailedReasons \cup {"none", "operator-stop", "duration-complete",
               "backpressure-drain", "provision-timeout", "completed", "failed"}

(* t0: "unset", "ahead" (now + RELEASE_DELAY_S, not reached yet), "passed".*)
(* late / over / grace: PROVISION_TIMEOUT_S since creation, duration_s     *)
(* since T0, and STOP_GRACE_S since the last draining event have passed.   *)
RunRow == [state: RunStates, reason: Reasons, t0: {"unset", "ahead", "passed"},
           degraded: BOOLEAN, delivered: BOOLEAN, workers: Nat, rate: Nat,
           auth: SUBSET Slots, late: BOOLEAN, over: BOOLEAN, grace: BOOLEAN]

(* token stands for the uuid lease_id: minting one increments it, so a     *)
(* slot never sees the same token twice.  age is how long ago              *)
(* last_heartbeat_at is: null, within LEASE_LAPSE_S, past it, and past     *)
(* AUTO_ABORT_LOST_S.  retarget is the _retarget marker of share_json.     *)
LeaseRow == [state: LeaseStates, token: Nat, holder: Workers \cup {None},
             share: Nat, retarget: BOOLEAN, age: {"null", "fresh", "stale", "dead"}]

(* The workload as the driver reports it: tasks wanted; wanted no more but *)
(* some still exiting (driver.stop); absent.  reaped is the fleet_destroyed*)
(* event of the audit trail.                                               *)
FleetRow == [load: {"up", "stopping", "down"}, reaped: BOOLEAN]

Db == [run: RunRow, lease: [Slots -> LeaseRow], fleet: FleetRow]

(* A worker process.  "warming" holds an unreleased slice, "rejoining" one *)
(* with released = true; "released" has its T0 and waits for it.  held is  *)
(* _operator_paused, sent says the process has generated.                  *)
WorkerStates == {"boot", "warming", "rejoining", "awaiting", "released",
                 "generating", "draining", "gone"}
WorkerRow == [pc: WorkerStates, slot: Slots, token: Nat, share: Nat,
              held: BOOLEAN, sent: BOOLEAN]

Gone == [pc |-> "gone", slot |-> 0, token |-> 0, share |-> 0,
         held |-> FALSE, sent |-> FALSE]

(* Every row and every worker record stays within what its columns and     *)
(* enumerations can hold (server/models.py).                               *)
TypeOK ==
    /\ run \in RunRow
    /\ lease \in [Slots -> LeaseRow]
    /\ fleet \in FleetRow
    /\ worker \in [Workers -> WorkerRow]
    /\ booting \in BOOLEAN

(* The slots whose lease is in one of the states S.                        *)
In(L, S) == {s \in Slots : L[s].state \in S}
Rows(L) == {s \in Slots : L[s].state # "absent"}

(* An equal split of the run rate over n slots.  eps and per_day_gb shares *)
(* are real numbers; the instances use rates every worker count divides.   *)
build_share_list(rate, n) == rate \div n

NewLease(token, share) == [state |-> "free", token |-> token, holder |-> None,
                           share |-> share, retarget |-> FALSE, age |-> "null"]
NoLease(token) == [NewLease(token, 0) EXCEPT !.state = "absent"]

db == [run |-> run, lease |-> lease, fleet |-> fleet]

Commit(d) == run' = d.run /\ lease' = d.lease /\ fleet' = d.fleet

(* The run as provision_run leaves it: leases seeded, fleet asked for.     *)
Init ==
    /\ run = [state |-> "provisioning", reason |-> "none", t0 |-> "unset",
              degraded |-> FALSE, delivered |-> FALSE, workers |-> InitialWorkers,
              rate |-> InitialRate, auth |-> {}, late |-> FALSE, over |-> FALSE,
              grace |-> FALSE]
    /\ lease = [s \in Slots |->
                  IF s < InitialWorkers
                    THEN NewLease(0, build_share_list(InitialRate, InitialWorkers))
                    ELSE NoLease(0)]
    /\ fleet = [load |-> "up", reaped |-> FALSE]
    /\ worker = [w \in Workers |-> [Gone EXCEPT !.pc = "boot"]]
    /\ booting = FALSE

-----------------------------------------------------------------------------
(* Pieces of the handlers, as functions from rows to rows.                 *)

(* A draining event is written when the state or the end reason changes;   *)
(* the stop grace is measured from the latest one.                         *)
transition_run(d, state, reason) ==
    LET changed == d.run.state # state \/ (reason # "none" /\ d.run.reason # reason)
    IN [d EXCEPT !.run.state = state,
                 !.run.reason = IF reason = "none" THEN @ ELSE reason,
                 !.run.grace = IF state = "draining" /\ changed THEN FALSE ELSE @]

terminal_state_for_Delivered(d) ==
    IF d.run.reason \in FailedReasons \/ In(d.lease, {"done"}) = {} THEN "failed"
    ELSE "completed"

terminal_state_for(d) ==
    IF d.run.reason \in FailedReasons THEN "failed"
    ELSE IF d.run.reason = "operator-stop" THEN "stopped"
    ELSE IF In(d.lease, {"done"}) = {} \/ ~d.run.delivered THEN "failed"
    ELSE "completed"

default_end_reason(d, terminal) ==
    IF terminal = "completed" THEN "completed"
    ELSE IF terminal = "stopped" THEN "operator-stop"
    ELSE IF In(d.lease, {"done"}) = {} THEN "all-workers-lost"
    ELSE IF ~d.run.delivered THEN "no-events"
    ELSE "failed"

Completes_Live(d) ==
    /\ d.run.state \in {"running", "releasing", "paused", "draining"}
    /\ In(d.lease, {"done"}) # {}

(* No lease is live, one has resolved, and outside draining one is done.   *)
Completes(d) ==
    /\ d.run.state \in {"running", "releasing", "paused", "draining"}
    /\ In(d.lease, Live) = {}
    /\ In(d.lease, {"done", "lost"}) # {}
    /\ d.run.state # "draining" => In(d.lease, {"done"}) # {}

maybe_complete_run(d) ==
    LET terminal == terminal_state_for(d)
    IN IF Completes(d)
         THEN transition_run(d, terminal, IF d.run.reason = "none"
                                            THEN default_end_reason(d, terminal)
                                            ELSE d.run.reason)
         ELSE d

LoseUnfinished_Live(L) == [s \in Slots |->
    IF L[s].state \in Live THEN [L[s] EXCEPT !.state = "lost"] ELSE L[s]]

(* A non-final lease is declared lost: drain grace, or an absent workload. *)
LoseUnfinished(L) == [s \in Slots |->
    IF L[s].state \in Live \cup {"free"} THEN [L[s] EXCEPT !.state = "lost"] ELSE L[s]]

Pending_Free(L) == In(L, {"free"})

(* The slots whose worker has not reported ready yet.                      *)
Pending(L) == In(L, {"free", "claimed"})

MayRelease_Anytime(d, force_partial) ==
    /\ d.run.t0 = "unset"
    /\ In(d.lease, {"ready"}) # {}
    /\ Pending(d.lease) = {} \/ force_partial

(* T0 is set once every non-lost lease is ready, or when the provisioning  *)
(* timeout forces the ready subset out.                                    *)
MayRelease(d, force_partial) ==
    /\ d.run.t0 = "unset"
    /\ d.run.state \in {"provisioning", "releasing"}
    /\ In(d.lease, {"ready"}) # {}
    /\ Pending(d.lease) = {} \/ force_partial

PartialFails_Never(d) == FALSE

(* A strict run is failed rather than released in part.                    *)
PartialFails(d) == StrictRelease /\ Pending(d.lease) # {}

(* _reapportion_ready: the whole rate over the ready slots.                *)
reapportion_ready(d) ==
    LET ready == In(d.lease, {"ready"})
    IN [s \in Slots |->
          IF s \in ready
            THEN [d.lease[s] EXCEPT !.share = build_share_list(d.run.rate, Cardinality(ready)),
                                    !.retarget = TRUE]
            ELSE d.lease[s]]

LosePending(L) == [s \in Slots |->
    IF s \in Pending(L) THEN [L[s] EXCEPT !.state = "lost"] ELSE L[s]]

evaluate_release(d, force_partial) ==
    IF ~MayRelease(d, force_partial) THEN d
    ELSE IF PartialFails(d)
      THEN transition_run([d EXCEPT !.lease = LosePending(d.lease)],
                          "failed", "strict-release-timeout")
    ELSE IF Pending(d.lease) # {}
      THEN transition_run([d EXCEPT !.lease = LosePending(reapportion_ready(d)),
                                    !.run.t0 = "ahead", !.run.degraded = TRUE],
                          "releasing", "none")
    ELSE transition_run([d EXCEPT !.run.t0 = "ahead"], "releasing", "none")

destroy_fleet_Recorded(d, ok) ==
    [d EXCEPT !.fleet = [load |-> IF ok THEN "down" ELSE @.load, reaped |-> TRUE]]

(* driver.destroy: ok is whether the driver could be reached; the event is *)
(* written only when it was.                                               *)
destroy_fleet(d, ok) ==
    IF ok THEN [d EXCEPT !.fleet = [load |-> "down", reaped |-> TRUE]] ELSE d

Reshare_LiveOnly(L, share) == [s \in Slots |->
    IF L[s].state \in Live THEN [L[s] EXCEPT !.share = share, !.retarget = TRUE] ELSE L[s]]

(* A new rate for the current rows: live leases are flagged to retarget,   *)
(* the others are simply rewritten.                                        *)
Reshare(L, share) == [s \in Slots |->
    IF L[s].state = "absent" THEN L[s]
    ELSE [L[s] EXCEPT !.share = share, !.retarget = L[s].state \in Live]]

RescaleRows(d, rate) ==
    [d EXCEPT !.run.rate = rate,
              !.lease = Reshare(d.lease, build_share_list(rate, Cardinality(Rows(d.lease))))]

ScaleRows(d, n) ==
    LET share == build_share_list(d.run.rate, n)
        kept  == Reshare(d.lease, share)
    IN [d EXCEPT !.run.workers = n,
                 !.lease = [s \in Slots |->
                    IF s >= n THEN NoLease(d.lease[s].token)
                    ELSE IF d.lease[s].state = "absent"
                      THEN NewLease(d.lease[s].token + 1, share)
                    ELSE kept[s]]]

-----------------------------------------------------------------------------
(* The supervisor pass over one active run (_supervise_run), stage by      *)
(* stage in the order the code runs them.                                  *)

lapse_stale_leases(d) ==
    [d EXCEPT !.lease = [s \in Slots |->
        IF ~booting /\ d.lease[s].state \in Live /\ d.lease[s].age \in {"stale", "dead"}
          THEN [d.lease[s] EXCEPT !.state = "lost"] ELSE d.lease[s]]]

check_provision_timeout(d, ok) ==
    IF d.run.state # "provisioning" \/ d.run.t0 # "unset" \/ ~d.run.late THEN d
    ELSE IF In(d.lease, {"ready"}) # {} THEN evaluate_release(d, TRUE)
    ELSE IF Pending(d.lease) = {}
      THEN destroy_fleet(transition_run(d, "failed", "provision-timeout"), ok)
    ELSE d

check_duration_Running(d) ==
    IF d.run.state = "running" /\ d.run.over
      THEN transition_run(d, "draining", "duration-complete") ELSE d

check_duration(d) ==
    IF d.run.state \in {"running", "releasing"} /\ d.run.t0 # "unset" /\ d.run.over
      THEN transition_run(d, "draining", "duration-complete") ELSE d

(* Leases that were lost holding a heartbeat instant, and the abort window *)
(* measured from the latest of those instants.                             *)
LostRunning(d) == {s \in In(d.lease, {"lost"}) : d.lease[s].age # "null"}

check_auto_abort(d, ok) ==
    LET total == Cardinality(Rows(d.lease))
        lost  == LostRunning(d)
        need  == IF total \div 2 < 1 THEN 1 ELSE total \div 2
    IN IF d.run.state \in Terminal \cup {"draining"} \/ total < 1 THEN d
       ELSE IF /\ d.run.t0 # "unset"
               /\ 2 * Cardinality(lost) > total
               /\ \A s \in lost : d.lease[s].age = "dead"
         THEN destroy_fleet(transition_run(d, "failed", "auto-abort-lost"), ok)
       ELSE IF Cardinality(d.run.auth) >= need
         THEN destroy_fleet(transition_run(d, "failed", "auto-abort-auth"), ok)
       ELSE d

(* failing: the target has failed enough recent deliveries for long        *)
(* enough.  The rate is halved while the halved rate stays above the floor *)
(* (is one of Rates), else the run is drained.                             *)
check_backpressure(d, failing) ==
    IF \/ ~failing
       \/ d.run.state \notin {"running", "releasing"} \/ d.run.t0 = "unset"
       \/ In(d.lease, Live) = {}
      THEN d
    ELSE IF d.run.rate \div 2 \in Rates
      THEN [RescaleRows(d, d.run.rate \div 2) EXCEPT !.run.degraded = TRUE]
    ELSE transition_run(d, "draining", "backpressure-drain")

reap_draining(d, ok) ==
    IF d.run.state = "draining" /\ d.run.grace
      THEN [destroy_fleet(d, ok) EXCEPT !.lease = LoseUnfinished(d.lease)] ELSE d

(* The stages in order, each on the rows the one before it left.           *)
supervise_run(ok, failing) ==
    \E lapsed  \in {lapse_stale_leases(db)} :
    \E timed   \in {check_provision_timeout(lapsed, ok)} :
    \E bounded \in {check_duration(timed)} :
    \E aborted \in {check_auto_abort(bounded, ok)} :
    \E pressed \in {check_backpressure(aborted, failing)} :
    \E reaped  \in {reap_draining(pressed, ok)} :
        Commit(maybe_complete_run(reaped))

(* One supervisor tick over an active run.  ok: driver.destroy succeeds.   *)
SupervisorTick(ok, failing) ==
    /\ run.state \notin Terminal
    /\ failing => Backpressure
    /\ supervise_run(ok, failing)
    /\ UNCHANGED <<worker, booting>>

(* The tick's second half.  It selects runs by their committed state, so a *)
(* run that ended in this tick is reaped by the next one.                  *)
ReapTerminalFleet(ok) ==
    /\ run.state \in Terminal
    /\ ~fleet.reaped
    /\ Commit(destroy_fleet(db, ok))
    /\ UNCHANGED <<worker, booting>>

-----------------------------------------------------------------------------
(* The agent protocol.  A request is processed by the control plane in the *)
(* same step the worker sends it; got is whether the reply reached the     *)
(* worker, which otherwise retries or waits for its next heartbeat.        *)

Replied(got) == got \/ ReplyLoss

is_lease_holder(L, w) == /\ L[worker[w].slot].state # "absent"
                         /\ L[worker[w].slot].token = worker[w].token

Renewed(L, s) == [L EXCEPT ![s].age = "fresh"]

Lowest(S) == {s \in S : \A t \in S : s <= t}

(* The hinted slot if it is claimable, else the lowest free or lost one.   *)
next_claimable(L, hint) ==
    LET claimable == In(L, {"free", "lost"})
    IN IF hint \in claimable THEN {hint} ELSE Lowest(claimable)

Reapportions(d) == d.run.state \notin Terminal \cup {"draining"} /\ d.run.degraded

(* A lost slot re-claimed on a degraded, released run joins the current    *)
(* apportionment: the rate is split over every live slot, claimer included.*)
reapportion_on_takeover(d, slot) ==
    LET live  == In(d.lease, Live)
        share == build_share_list(d.run.rate, Cardinality(live))
    IN IF ~Reapportions(d) THEN d
       ELSE [d EXCEPT !.lease = [s \in Slots |->
               IF s \in live /\ d.lease[s].share # share
                 THEN [d.lease[s] EXCEPT !.share = share, !.retarget = @ \/ s # slot]
                 ELSE d.lease[s]]]

new_lease_id_FirstOnly(row) == IF row.state = "lost" THEN row.token ELSE row.token + 1

new_lease_id(row) == row.token + 1

(* A fresh claim of slot s by w: a new token fences every earlier holder.  *)
IssueLease(d, w, s) ==
    LET taken == [d EXCEPT !.lease[s] = [@ EXCEPT !.token = new_lease_id(d.lease[s]),
                                                  !.holder = w, !.state = "claimed",
                                                  !.age = "fresh"]]
    IN IF d.lease[s].state = "lost" /\ d.run.t0 # "unset"
         THEN reapportion_on_takeover(taken, s) ELSE taken

(* The slice of the claim reply (build_slice).                             *)
Slice(d, s) == [pc |-> IF d.run.t0 = "unset" THEN "warming" ELSE "rejoining",
                slot |-> s, token |-> d.lease[s].token, share |-> d.lease[s].share,
                held |-> FALSE, sent |-> FALSE]

(* POST claim: a holder of a live lease gets it back unchanged, otherwise  *)
(* the next claimable lease is issued; 409 when there is none or the run   *)
(* has ended.                                                              *)
Claim(w, hint, got) ==
    LET mine == {s \in In(lease, Live) : lease[s].holder = w}
    IN /\ worker[w].pc = "boot"
       /\ run.state \notin Terminal
       /\ Replied(got)
       /\ \E s \in IF mine # {} THEN Lowest(mine) ELSE next_claimable(lease, hint) :
            /\ mine = {} => lease[s].token < MaxClaims
            /\ \E d \in {IF mine # {} THEN [db EXCEPT !.lease = Renewed(lease, s)]
                                      ELSE IssueLease(db, w, s)} :
                 /\ Commit(d)
                 /\ worker' = IF got THEN [worker EXCEPT ![w] = Slice(d, s)] ELSE worker
       /\ UNCHANGED booting

mark_ready(d, s) ==
    LET L == Renewed(d.lease, s)
    IN evaluate_release([d EXCEPT !.lease =
           IF L[s].state \in {"claimed", "ready"} THEN [L EXCEPT ![s].state = "ready"] ELSE L],
           FALSE)

(* POST ready.  A superseded worker gets 409 and retries until its dead    *)
(* man, which is WorkerDrains.  A re-issued slice starts at once.          *)
Ready(w, got) ==
    /\ worker[w].pc \in {"warming", "rejoining"}
    /\ is_lease_holder(lease, w)
    /\ Replied(got)
    /\ Commit(mark_ready(db, worker[w].slot))
    /\ worker' = IF ~got THEN worker
                 ELSE IF worker[w].pc = "warming"
                   THEN [worker EXCEPT ![w].pc = "awaiting"]
                   ELSE [worker EXCEPT ![w].pc = "generating", ![w].sent = TRUE]
    /\ UNCHANGED booting

Restored_RunState(d, s) ==
    IF d.lease[s].state = "lost" THEN d.run.state ELSE d.lease[s].state

(* A lost lease whose holder heartbeats is restored before the answer.     *)
Restored(d, s) == IF d.lease[s].state # "lost" THEN d.lease[s].state
                  ELSE IF d.run.t0 = "unset" THEN "ready" ELSE "running"

heartbeat_command_NoPause(d, s) ==
    IF d.run.state \in Terminal \cup {"draining"} THEN "drain"
    ELSE IF d.run.t0 # "unset" /\ Restored(d, s) \in {"claimed", "ready"} THEN "release"
    ELSE IF d.lease[s].retarget THEN "retarget"
    ELSE "continue"

(* The command a heartbeat is answered with, in the code's precedence.     *)
heartbeat_command(d, s) ==
    IF d.run.state \in Terminal \cup {"draining"} THEN "drain"
    ELSE IF d.run.t0 # "unset" /\ Restored(d, s) \in {"claimed", "ready"} THEN "release"
    ELSE IF d.run.state = "paused" THEN "pause"
    ELSE IF d.lease[s].retarget THEN "retarget"
    ELSE "continue"

(* A worker whose T0 has passed and that is told to release is running.    *)
Promoted(d, s) == heartbeat_command(d, s) = "release" /\ d.run.t0 = "passed"

(* The lease row a heartbeat leaves, besides its counters.                 *)
HeartbeatRow(d, s) ==
    LET row == d.lease[s]
        cmd == heartbeat_command(d, s)
    IN [row EXCEPT !.age = "fresh",
                   !.state = IF cmd = "drain" THEN row.state
                             ELSE IF Promoted(d, s) THEN "running" ELSE Restored(d, s),
                   !.retarget = row.retarget /\ cmd # "retarget"]

record_heartbeat(d, s, auth) ==
    LET noted == [d EXCEPT !.lease[s] = HeartbeatRow(d, s),
                           !.run.auth = IF auth THEN d.run.auth \cup {s} ELSE d.run.auth]
    IN IF Promoted(d, s) /\ d.run.state = "releasing"
         THEN transition_run(noted, "running", "none") ELSE noted

(* A draining worker has stopped its engine and generates nothing.         *)
Drained(w) == [worker[w] EXCEPT !.pc = "draining", !.share = 0, !.held = FALSE]

(* What the worker does with the reply.  In _await_release only release,   *)
(* drain and superseded end the wait.  In _run_loop pause holds output, any*)
(* other command but drain lifts the hold, and a retarget is applied.      *)
Obeyed(w, cmd, share) ==
    IF cmd \in {"drain", "superseded"} THEN Drained(w)
    ELSE IF worker[w].pc = "awaiting"
      THEN [worker[w] EXCEPT !.pc = IF cmd = "release" THEN "released" ELSE @]
    ELSE [worker[w] EXCEPT !.held = cmd = "pause",
                           !.share = IF cmd = "retarget" THEN share ELSE @]

Heartbeat(w, auth, got) ==
    LET s   == worker[w].slot
        own == is_lease_holder(lease, w)
        cmd == IF own THEN heartbeat_command(db, s) ELSE "superseded"
    IN /\ worker[w].pc \in {"awaiting", "generating"}
       /\ auth => worker[w].pc = "generating" /\ "auth" \in Ops
       /\ Replied(got)
       /\ Commit(IF own THEN record_heartbeat(db, s, auth) ELSE db)
       /\ worker' = IF got THEN [worker EXCEPT ![w] = Obeyed(w, cmd, lease[s].share)] ELSE worker
       /\ UNCHANGED booting

(* The T0 a released worker waits for has come: the bucket is anchored,    *)
(* resumed, and the engine runs.                                           *)
StartGenerating(w) ==
    /\ worker[w].pc = "released"
    /\ run.t0 = "passed"
    /\ worker' = [worker EXCEPT ![w].pc = "generating", ![w].sent = TRUE]
    /\ UNCHANGED <<run, lease, fleet, booting>>

(* The worker drains of its own accord: setup failure, duration, engine    *)
(* exit, HEC auth failure, no output, dead man or SIGTERM.                 *)
WorkerDrains(w) ==
    /\ worker[w].pc \in {"warming", "rejoining", "awaiting", "released", "generating"}
    /\ worker' = [worker EXCEPT ![w] = Drained(w)]
    /\ UNCHANGED <<run, lease, fleet, booting>>

(* A worker that dies (OOM, node loss, fleet destroyed) says nothing.      *)
WorkerDies(w) ==
    /\ "crash" \in Ops
    /\ worker[w].pc # "gone"
    /\ worker' = [worker EXCEPT ![w] = Gone]
    /\ UNCHANGED <<run, lease, fleet, booting>>

(* The orchestrator restarts a failed container in place (restartPolicy    *)
(* OnFailure): the new process claims under the same holder name.          *)
WorkerRestarts(w) ==
    /\ "crash" \in Ops
    /\ worker[w].pc = "gone"
    /\ fleet.load = "up"
    /\ worker' = [worker EXCEPT ![w].pc = "boot"]
    /\ UNCHANGED <<run, lease, fleet, booting>>

record_final(d, s, delivered) ==
    IF d.lease[s].state = "done" THEN maybe_complete_run(d)
    ELSE maybe_complete_run([d EXCEPT !.lease[s].state = "done",
                                      !.run.delivered = @ \/ delivered])

FinalRows_BySlot(w, delivered) ==
    IF lease[worker[w].slot].state = "absent" THEN db
    ELSE record_final(db, worker[w].slot, delivered)

(* The final of a worker that is no longer the holder is ignored.          *)
FinalRows(w, delivered) ==
    IF is_lease_holder(lease, w) THEN record_final(db, worker[w].slot, delivered) ELSE db

(* POST final.  A lost reply is retried, and the retry finds the lease     *)
(* done.                                                                   *)
Final(w, delivered, got) ==
    /\ worker[w].pc = "draining"
    /\ delivered => worker[w].sent
    /\ Replied(got)
    /\ Commit(FinalRows(w, delivered))
    /\ worker' = IF got THEN [worker EXCEPT ![w] = Gone] ELSE worker
    /\ UNCHANGED booting

-----------------------------------------------------------------------------
(* Operator endpoints and the boot reconciliation of this run.             *)

(* A forced stop destroys the fleet, folds the latest heartbeat counters   *)
(* and finalises every lease.                                              *)
FinaliseAll(L) == [s \in Slots |->
    CASE L[s].state \in Live   -> [L[s] EXCEPT !.state = "done"]
      [] L[s].state = "free"   -> [L[s] EXCEPT !.state = "lost"]
      [] OTHER                 -> L[s]]

(* driver.stop scales the workload to zero; ok is whether the driver could *)
(* be reached.  A driver error does not stop the logical drain.            *)
StopRun(force, ok, delivered) ==
    LET drained  == transition_run(db, "draining", "operator-stop")
        draining == [drained EXCEPT !.fleet.load = IF ok /\ @ = "up" THEN "stopping" ELSE @]
        forced   == [draining EXCEPT !.fleet.load = IF ok THEN "down" ELSE @,
                                     !.lease = FinaliseAll(lease),
                                     !.run.delivered = @ \/ delivered]
    IN /\ (IF force THEN "force" ELSE "stop") \in Ops
       /\ run.state \notin Terminal
       /\ delivered => force /\ \E w \in Workers : worker[w].sent
       /\ Commit(IF force THEN maybe_complete_run(forced) ELSE draining)
       /\ UNCHANGED <<worker, booting>>

PauseRun ==
    /\ "pause" \in Ops
    /\ run.state = "running"
    /\ Commit(transition_run(db, "paused", "none"))
    /\ UNCHANGED <<worker, booting>>

ResumeRun ==
    /\ run.state = "paused"
    /\ Commit(transition_run(db, "running", "none"))
    /\ UNCHANGED <<worker, booting>>

(* driver.scale must reach the workload, or the request is rolled back; a  *)
(* workload that was being stopped is wanted again.                        *)
ScaleRun(n) ==
    /\ "scale" \in Ops
    /\ run.state \notin Terminal \cup {"paused"}
    /\ fleet.load # "down"
    /\ \A s \in Slots : s < n /\ lease[s].state = "absent" => lease[s].token < MaxClaims
    /\ Commit([ScaleRows(db, n) EXCEPT !.fleet.load = "up"])
    /\ UNCHANGED <<worker, booting>>

RescaleRun(rate) ==
    /\ "rescale" \in Ops
    /\ run.state \notin Terminal \cup {"paused"}
    /\ Commit(RescaleRows(db, rate))
    /\ UNCHANGED <<worker, booting>>

Orphaned(ok) == run.state \notin Terminal /\ ok /\ fleet.load = "down"

(* The control plane restarts: a run whose workload is gone is failed as   *)
(* orphaned, one whose workload is there (or whose driver does not answer, *)
(* ~ok) is left as it is, and the workload of an ended run is swept.       *)
RestartControlPlane(ok) ==
    /\ "restart" \in Ops
    /\ ~booting
    /\ booting' = TRUE
    /\ Commit(IF Orphaned(ok)
                THEN transition_run([db EXCEPT !.lease = LoseUnfinished(lease)],
                                    "failed", "orphaned")
              ELSE IF run.state \in Terminal /\ ok
                THEN [db EXCEPT !.fleet.load = "down"]
              ELSE db)
    /\ UNCHANGED worker

(* The tasks of a stopped workload have exited; or a workload is removed   *)
(* behind the control plane's back.                                        *)
WorkloadEnds ==
    /\ \/ fleet.load = "stopping"
       \/ fleet.load = "up" /\ "vanish" \in Ops
    /\ fleet' = [fleet EXCEPT !.load = "down"]
    /\ UNCHANGED <<run, lease, worker, booting>>

-----------------------------------------------------------------------------
(* Deadlines passing.                                                      *)

(* A lease goes without a heartbeat past LEASE_LAPSE_S, then past          *)
(* AUTO_ABORT_LOST_S.                                                      *)
HeartbeatAges(s) ==
    /\ lease[s].state \in Live \cup {"lost"}
    /\ lease[s].age \in {"fresh", "stale"}
    /\ lease' = [lease EXCEPT ![s].age = IF @ = "fresh" THEN "stale" ELSE "dead"]
    /\ UNCHANGED <<run, fleet, worker, booting>>

T0Arrives ==
    /\ run.t0 = "ahead"
    /\ run' = [run EXCEPT !.t0 = "passed"]
    /\ UNCHANGED <<lease, fleet, worker, booting>>

ProvisionTimeout ==
    /\ run.state = "provisioning" /\ run.t0 = "unset" /\ ~run.late
    /\ run' = [run EXCEPT !.late = TRUE]
    /\ UNCHANGED <<lease, fleet, worker, booting>>

DurationEnds ==
    /\ Bounded
    /\ run.state \in {"running", "releasing"} /\ run.t0 = "passed" /\ ~run.over
    /\ run' = [run EXCEPT !.over = TRUE]
    /\ UNCHANGED <<lease, fleet, worker, booting>>

StopGraceEnds ==
    /\ run.state = "draining" /\ ~run.grace
    /\ run' = [run EXCEPT !.grace = TRUE]
    /\ UNCHANGED <<lease, fleet, worker, booting>>

BootGraceEnds ==
    /\ booting
    /\ booting' = FALSE
    /\ UNCHANGED <<run, lease, fleet, worker>>

-----------------------------------------------------------------------------
WorkerStep(w) ==
    \/ \E hint \in Slots \cup {None}, got \in BOOLEAN : Claim(w, hint, got)
    \/ \E got \in BOOLEAN : Ready(w, got)
    \/ \E auth, got \in BOOLEAN : Heartbeat(w, auth, got)
    \/ StartGenerating(w)
    \/ WorkerDrains(w)
    \/ WorkerDies(w)
    \/ WorkerRestarts(w)
    \/ \E delivered, got \in BOOLEAN : Final(w, delivered, got)

Supervisor ==
    \/ \E ok, failing \in BOOLEAN : SupervisorTick(ok, failing)
    \/ \E ok \in BOOLEAN : ReapTerminalFleet(ok)

Operator ==
    \/ \E force, ok, delivered \in BOOLEAN : StopRun(force, ok, delivered)
    \/ PauseRun
    \/ ResumeRun
    \/ \E n \in 1 .. MaxSlots : ScaleRun(n)
    \/ \E rate \in Rates : RescaleRun(rate)
    \/ \E ok \in BOOLEAN : RestartControlPlane(ok)

TimePasses ==
    \/ WorkloadEnds
    \/ \E s \in Slots : HeartbeatAges(s)
    \/ T0Arrives
    \/ ProvisionTimeout
    \/ DurationEnds
    \/ StopGraceEnds
    \/ BootGraceEnds

Next == (\E w \in Workers : WorkerStep(w)) \/ Supervisor \/ Operator \/ TimePasses

Spec == Init /\ [][Next]_vars

(* The supervisor loop runs every two seconds, clocks advance, a started   *)
(* worker keeps polling, and the driver answers a destroy sooner or later. *)
(* Nothing is assumed of operators, crashes, or of a worker finishing.     *)
Fairness ==
    /\ WF_vars(\E ok, failing \in BOOLEAN : SupervisorTick(ok, failing))
    /\ WF_vars(ReapTerminalFleet(TRUE))
    /\ WF_vars(T0Arrives) /\ WF_vars(DurationEnds) /\ WF_vars(StopGraceEnds)
    /\ WF_vars(ProvisionTimeout) /\ WF_vars(BootGraceEnds)
    /\ \A s \in Slots : WF_vars(HeartbeatAges(s))
    /\ \A w \in Workers : /\ WF_vars(\E auth \in BOOLEAN : Heartbeat(w, auth, TRUE))
                          /\ WF_vars(StartGenerating(w))

FairSpec == Spec /\ Fairness

-----------------------------------------------------------------------------
(* Safety.                                                                 *)

Holds(w, s) == worker[w].token > 0 /\ worker[w].slot = s /\ is_lease_holder(lease, w)

(* Fencing: across lapses, re-claims, replayed claims, in-place restarts   *)
(* and scale-downs followed by scale-ups, at most one worker process       *)
(* passes the lease_id check of a slot.                                    *)
FencedHolder ==
    \A s \in Slots : \A v, w \in Workers : Holds(v, s) /\ Holds(w, s) => v = w

(* The release gate: nobody leaves _await_release, no lease is promoted to *)
(* running and the run does not count as running before evaluate_release   *)
(* (or the partial release) has set T0.                                    *)
GatedByT0 ==
    /\ run.t0 = "unset" =>
         \A w \in Workers : worker[w].pc \notin {"rejoining", "released", "generating"}
    /\ run.t0 = "unset" => \A s \in Slots : lease[s].state # "running"
    /\ run.state \in {"running", "paused"} => run.t0 = "passed"
    /\ run.state = "provisioning" => run.t0 = "unset"

(* maybe_complete_run: a run reported completed or stopped has no worker   *)
(* still holding a live lease, whatever late heartbeat, claim or final     *)
(* arrives afterwards; and completed means something was delivered by a    *)
(* worker that finished.                                                   *)
CompletionQuiescent ==
    /\ run.state \in {"completed", "stopped"} => In(lease, Live) = {}
    /\ run.state = "completed" => run.delivered /\ In(lease, {"done"}) # {}

(* While the run is not degraded, every lease row - free, live, lost or    *)
(* done - carries the same equal share of the current rate over the        *)
(* current worker count, so lapses and take-overs keep the aggregate.      *)
UniformShares ==
    ~run.degraded =>
        /\ Rows(lease) = 0 .. run.workers - 1
        /\ \A s \in Rows(lease) : lease[s].share = build_share_list(run.rate, run.workers)

(* A run whose recorded reason is the operator's stop is draining or ends  *)
(* stopped: workers that finish or vanish in the meantime, later automatic *)
(* checks and a second stop do not turn it into a completion or a failure. *)
StopEndsStopped == run.reason = "operator-stop" => run.state \in {"draining", "stopped"}

(* strict_release: a strict run is released only when every slot has been  *)
(* claimed by a worker, never around a straggler.                          *)
StrictReleaseComplete ==
    StrictRelease /\ run.t0 # "unset" => \A s \in Rows(lease) : lease[s].token > 0

-----------------------------------------------------------------------------
(* Action properties.                                                      *)

(* An ended run stays ended, with its state and its end reason: late       *)
(* finals, heartbeats, supervisor ticks and restarts never reopen it.      *)
TerminalAbsorbing ==
    [][run.state \in Terminal => /\ run'.state = run.state
                                 /\ run'.reason = run.reason]_vars

(* T0 is set once, in a step that leaves no slot waiting to be claimed or  *)
(* readied and has someone to release, and a partial release is flagged.   *)
ReleaseGate ==
    [][run.t0 = "unset" /\ run'.t0 # "unset" =>
         /\ In(lease', {"ready"}) # {}
         /\ In(lease', {"free", "claimed"}) = {}
         /\ In(lease, {"free"}) # {} => run'.degraded]_vars

(* The two together: T0 is set once and properly, and until then nothing   *)
(* that depends on it happens (evaluate_release, _heartbeat_command).      *)
ReleaseDiscipline == ReleaseGate /\ []GatedByT0

(* A worker whose lease was taken over or removed changes no row of the    *)
(* run by any request it still sends.                                      *)
SupersededIsInert ==
    [][\A w \in Workers :
         /\ worker[w].token > 0 /\ ~is_lease_holder(lease, w)
         /\ worker'[w] # worker[w]
         => UNCHANGED <<run, lease, fleet>>]_vars

(* The lease table as LeaseContract sees it.                               *)
Contract == INSTANCE LeaseContract WITH
    Slots <- Slots,
    row   <- [s \in Slots |-> [state |-> lease[s].state, token |-> lease[s].token]]

(* The lease table keeps LeaseContract: every handler moves a slot along   *)
(* the life of its grant, and only a claim grants.                         *)
LeaseProtocol == Contract!Spec

-----------------------------------------------------------------------------
(* Liveness.                                                               *)

(* A draining run ends: the stop grace declares silent workers lost.       *)
DrainTerminates == run.state = "draining" ~> run.state \in Terminal

(* The workload of an ended run is destroyed.                              *)
TerminalFleetReaped == run.state \in Terminal ~> fleet.load = "down"

(* A released run with a duration ends unless an operator holds it paused. *)
BoundedRunEnds ==
    Bounded => (run.state \in {"releasing", "running"} ~> run.state \in Terminal \cup {"paused"})

(* A pause reaches every worker that generates.                            *)
PauseReachesWorkers ==
    \A w \in Workers : run.state = "paused" /\ worker[w].pc = "generating"
                         ~> \/ worker[w].held \/ worker[w].pc # "generating"
                            \/ run.state # "paused"

(* A released run whose workers have all died, each slot of which had been *)
(* claimed, is ended by the auto-abort or by a finished sibling.           *)
FullFleetDeathEnds ==
    /\ run.t0 # "unset"
    /\ \A w \in Workers : worker[w].pc = "gone"
    /\ \A s \in Rows(lease) : lease[s].age # "null"
    ~> run.state \in Terminal \/ \E w \in Workers : worker[w].pc # "gone"

(* What a run that was released can always rely on to end it: its duration *)
(* (check_duration) and, when its workers die, the auto-abort.             *)
RunsEnd == BoundedRunEnds /\ FullFleetDeathEnds

-----------------------------------------------------------------------------
(* Statements of the documentation and of comments in the code that the    *)
(* code does not keep; TLC refutes each (README, section 3).               *)

(* _heartbeat_command and the worker contract: a worker that has not       *)
(* started is always answered release, never a continue in its place.      *)
NeverStranded ==
    \A w \in Workers : worker[w].pc = "awaiting" /\ Holds(w, worker[w].slot)
                         => lease[worker[w].slot].state # "running"

(* claim_lease: after a degraded release no straggler may push the fleet's *)
(* aggregate share over the requested rate.                                *)
AggregateWithinRate ==
    \A a, b \in In(lease, Live) : a # b => lease[a].share + lease[b].share <= run.rate

(* rescale_run, scale_run: the new share reaches each live worker as a     *)
(* retarget: a generating holder uses its lease's share or is about to be  *)
(* told it.                                                                *)
ShareReachesWorker ==
    \A w \in Workers :
        LET s == worker[w].slot
        IN worker[w].pc = "generating" /\ Holds(w, s) /\ lease[s].state = "running"
             => worker[w].share = lease[s].share \/ lease[s].retarget

(* maybe_complete_run: a genuinely dead fleet is failed by the auto-abort. *)
DeadFleetEnds ==
    /\ run.state = "running"
    /\ \A w \in Workers : worker[w].pc = "gone"
    ~> run.state \in Terminal \/ \E w \in Workers : worker[w].pc # "gone"
=============================================================================
