------------------------------- MODULE Launch -------------------------------
(***************************************************************************)
(* A run's way into and out of the world: the submit that asks a driver    *)
(* for a fleet, the requests and supervisor ticks that take it away, and   *)
(* the boot reconciliation that runs beside all of them                    *)
(* (server/lifecycle.py provision_run, stop_run, reconcile_on_boot,        *)
(* _sweep_stray_fleets; server/drivers/k8s.py and swarm.py).               *)
(*                                                                         *)
(* Every request has its own session and every driver call is a step of    *)
(* its own that may fail, or succeed with its answer lost.  What leases    *)
(* and workers do meanwhile is module RunLifecycle; here a run ends by a   *)
(* step of its own.                                                        *)
(***************************************************************************)
EXTENDS Naturals, FiniteSets, FiniteSetsExt

CONSTANTS
    Clients,      \* concurrent submits
    N,            \* bound: runs ever created
    Fleet,        \* the kind of driver each run's fleet uses
    Volumes,      \* GB/day a spec may ask for
    Cap,          \* max_concurrent_gb_day of the one target
    MaxCrashes,   \* bound: control plane restarts after the first boot
    MaxFaults     \* bound: driver calls that fail or lose their answer

Runs == 1 .. N
Kinds == {"k8s", "swarm"}

ASSUME LaunchAssumption ==
    /\ N \in Nat \ {0} /\ Fleet \in [Runs -> Kinds]
    /\ Volumes \subseteq Nat /\ Cap \in Nat
    /\ MaxCrashes \in Nat /\ MaxFaults \in Nat

Active == {"preparing", "provisioning", "draining"}

VARIABLES
    row,      \* per run: its committed database row
    job,      \* per run: its workload at the driver
    secret,   \* per run: its token Secret (k8s), bare until the Job owns it
    req,      \* per client: the submit it is serving
    boot,     \* the reconciliation of this process, and its session
    used,     \* <<crashes, faults>> so far (the bounds)
    trail     \* history: runs that met a fault, a leak, or an end before their launch

LaunchVars == <<row, job, secret, req, boot, used, trail>>

(* raced: admitted on a headroom another submit was changing.              *)
NoRow == [state |-> "none", ref |-> FALSE, ended_at |-> "unset", gb |-> 0, raced |-> FALSE]
Idle == [pc |-> "idle", run |-> 0, gb |-> 0, raced |-> FALSE]

(* seen: the rows phase 1 loaded, as its session still holds them.         *)
FreshBoot == [pc |-> "load", seen |-> [r \in {} |-> NoRow], todo |-> {}, kinds |-> Kinds,
              owned |-> {}, strays |-> {}]
Up == [FreshBoot EXCEPT !.pc = "up", !.kinds = {}]
NoTrail == [faulted |-> {}, crossed |-> {}, leaked |-> {}]

(* A control plane that has reconciled an empty database.                  *)
LaunchInit ==
    /\ row = [r \in Runs |-> NoRow]
    /\ job = [r \in Runs |-> "none"]
    /\ secret = [r \in Runs |-> "none"]
    /\ req = [c \in Clients |-> Idle]
    /\ boot = Up
    /\ used = [crashes |-> 0, faults |-> 0]
    /\ trail = NoTrail

Live(r) == row[r].state \in Active
InFlight(r) == \E c \in Clients : req[c].pc # "idle" /\ req[c].run = r
Present(r) == job[r] # "none"

(* The Job is gone and what it owned with it.                              *)
Gone(r) ==
    /\ job' = [job EXCEPT ![r] = "none"]
    /\ secret' = [secret EXCEPT ![r] = IF @ = "owned" THEN "none" ELSE @]

(* A driver call fails: the request never arrived, or only its answer was  *)
(* lost.                                                                   *)
Fault(r) ==
    /\ used.faults < MaxFaults
    /\ used' = [used EXCEPT !.faults = @ + 1]
    /\ trail' = [trail EXCEPT !.faulted = @ \cup {r}]

LeakFault(r) ==
    /\ used.faults < MaxFaults
    /\ used' = [used EXCEPT !.faults = @ + 1]
    /\ trail' = [trail EXCEPT !.faulted = @ \cup {r}, !.leaked = @ \cup {r}]

-----------------------------------------------------------------------------
(* Submitting: routes/api.py run_spec, lifecycle.provision_run.            *)

_active_gb_day_for_target == SumFunction([r \in {q \in Runs : Live(q)} |-> row[r].gb])

_target_headroom_gb_day_Loose(gb) == gb <= Cap

_target_headroom_gb_day(gb) == _active_gb_day_for_target + gb <= Cap

(* The gate; the other submits still on their way to their first commit    *)
(* are the ones whose answer this admission makes stale, and they its.     *)
run_spec(c, gb) ==
    /\ req[c].pc = "idle"
    /\ \E r \in Runs : row[r].state = "none"
    /\ _target_headroom_gb_day(gb)
    /\ req' = [req EXCEPT ![c] = [pc |-> "admitted", run |-> 0, gb |-> gb, raced |-> FALSE]]
    /\ UNCHANGED <<row, job, secret, boot, used, trail>>

NextRun == Min({r \in Runs : row[r].state = "none"})

provision_run_Uncommitted(c) ==
    /\ req[c].pc = "admitted"
    /\ \E r \in Runs : row[r].state = "none" /\ ~InFlight(r)
    /\ req' = [req EXCEPT ![c].run = NextRun, ![c].pc = IF Fleet[NextRun] = "k8s" THEN "secret" ELSE "job"]
    /\ UNCHANGED <<row, job, secret, boot, used, trail>>

(* The row is committed, preparing, before its workload exists.            *)
provision_run(c) ==
    /\ req[c].pc = "admitted"
    /\ \E r \in Runs : row[r].state = "none"
    /\ LET r == NextRun
       IN  /\ row' = [row EXCEPT ![r] = [NoRow EXCEPT !.state = "preparing", !.gb = req[c].gb,
                                                      !.raced = req[c].raced]]
           /\ req' = [d \in Clients |->
                 IF d = c THEN [req[c] EXCEPT !.run = r,
                                              !.pc = IF Fleet[r] = "k8s" THEN "secret" ELSE "job"]
                 ELSE [req[d] EXCEPT !.raced = @ \/ req[d].pc = "admitted"]]
    /\ UNCHANGED <<job, secret, boot, used, trail>>

(* _resolve_bundle or the token's decryption fails before that commit.     *)
provision_refused(c) ==
    /\ req[c].pc = "admitted"
    /\ req' = [req EXCEPT ![c] = Idle]
    /\ UNCHANGED <<row, job, secret, boot, used, trail>>

create_secret(c) ==
    /\ req[c].pc = "secret"
    /\ LET r == req[c].run
       IN  \/ /\ secret' = [secret EXCEPT ![r] = "bare"]
              /\ req' = [req EXCEPT ![c].pc = "job"]
              /\ UNCHANGED <<used, trail>>
           \/ /\ LeakFault(r)
              /\ secret' \in {secret, [secret EXCEPT ![r] = "bare"]}
              /\ req' = [req EXCEPT ![c].pc = "failed"]
    /\ UNCHANGED <<row, job, boot>>

(* The Job, or the Swarm service.                                          *)
create_workload(c) ==
    /\ req[c].pc = "job"
    /\ LET r == req[c].run
       IN  \/ /\ job' = [job EXCEPT ![r] = "up"]
              /\ req' = [req EXCEPT ![c].pc = IF Fleet[r] = "k8s" THEN "adopt" ELSE "commit"]
              /\ UNCHANGED <<used, trail>>
           \/ /\ Fault(r)
              /\ job' \in {job, [job EXCEPT ![r] = "up"]}
              /\ req' = [req EXCEPT ![c].pc = IF Fleet[r] = "k8s" THEN "cleanup" ELSE "failed"]
    /\ UNCHANGED <<row, secret, boot>>

_delete_secret_quietly_Skipped(c) ==
    /\ req[c].pc = "cleanup"
    /\ req' = [req EXCEPT ![c].pc = "failed"]
    /\ UNCHANGED <<row, job, secret, boot, used, trail>>

_delete_secret_quietly(c) ==
    /\ req[c].pc = "cleanup"
    /\ LET r == req[c].run
       IN  \/ /\ secret' = [secret EXCEPT ![r] = "none"]
              /\ UNCHANGED <<used, trail>>
           \/ /\ LeakFault(r)
              /\ UNCHANGED secret
    /\ req' = [req EXCEPT ![c].pc = "failed"]
    /\ UNCHANGED <<row, job, boot>>

(* The owner reference, best effort.  A Secret given a dead owner is       *)
(* collected.                                                              *)
_adopt_secret(c) ==
    /\ req[c].pc = "adopt"
    /\ LET r == req[c].run
       IN  \/ /\ secret' = [secret EXCEPT ![r] = IF Present(r) THEN "owned" ELSE "none"]
              /\ UNCHANGED <<used, trail>>
           \/ /\ LeakFault(r)
              /\ UNCHANGED secret
    /\ req' = [req EXCEPT ![c].pc = "commit"]
    /\ UNCHANGED <<row, job, boot>>

Terminal(rec) == [rec EXCEPT !.state = "ended", !.ended_at = IF @ = "unset" THEN "recent" ELSE @]

(* The request's session still holds the row as it committed it, so its    *)
(* last commit writes over whatever happened since; a deleted row makes it *)
(* fail, and the workload is nobody's.                                     *)
commit_launch(c) ==
    /\ req[c].pc = "commit"
    /\ LET r == req[c].run
       IN  /\ row' = IF row[r].state = "deleted" THEN row
                     ELSE [row EXCEPT ![r].state = "provisioning", ![r].ref = TRUE,
                                      ![r].raced = @ \/ ~Live(r)]
           /\ trail' = IF Live(r) THEN trail ELSE [trail EXCEPT !.crossed = @ \cup {r}]
    /\ req' = [req EXCEPT ![c] = Idle]
    /\ UNCHANGED <<job, secret, boot, used>>

(* DriverError: the failed run is committed for the sweep to find.         *)
commit_failure(c) ==
    /\ req[c].pc = "failed"
    /\ LET r == req[c].run
       IN  row' = IF row[r].state = "deleted" THEN row ELSE [row EXCEPT ![r] = Terminal(@)]
    /\ req' = [req EXCEPT ![c] = Idle]
    /\ UNCHANGED <<job, secret, boot, used, trail>>

-----------------------------------------------------------------------------
(* Ending: stop_run, the workers' last lease, the reapers, delete_run.     *)

(* Draining scales a service to zero and deletes a Job; without a ref the  *)
(* driver is not asked.  force also destroys and ends the run.             *)
stop_run(r, force) ==
    /\ Live(r)
    /\ row' = [row EXCEPT ![r] = IF force THEN Terminal(@) ELSE [@ EXCEPT !.state = "draining"]]
    /\ \/ /\ ~row[r].ref
          /\ UNCHANGED <<job, secret, used, trail>>
       \/ /\ row[r].ref
          /\ IF force \/ Fleet[r] = "k8s" THEN Gone(r)
             ELSE /\ job' = [job EXCEPT ![r] = IF Present(r) THEN "idle" ELSE "none"]
                  /\ UNCHANGED secret
          /\ UNCHANGED <<used, trail>>
       \/ /\ row[r].ref /\ Fault(r)
          /\ UNCHANGED <<job, secret>>
    /\ UNCHANGED <<req, boot>>

(* The last lease is final (maybe_complete_run), or a supervisor abort.    *)
run_ends(r) ==
    /\ row[r].state \in {"provisioning", "draining"}
    /\ row' = [row EXCEPT ![r] = Terminal(@)]
    /\ UNCHANGED <<job, secret, req, boot, used, trail>>

Reapable(r) ==
    /\ row[r].ref
    /\ row[r].state = "draining" \/ (row[r].state = "ended" /\ row[r].ended_at = "recent")

(* _reap_draining, _reap_terminal_fleets: a failed destroy is tried again. *)
_destroy_fleet(r) ==
    /\ boot.pc = "up"
    /\ Reapable(r) /\ Present(r)
    /\ Gone(r)
    /\ UNCHANGED <<row, req, boot, used, trail>>

(* TERMINAL_REAP_WINDOW_S after ended_at.  A run past it with its workload *)
(* still there had every destroy fail; ended_at of a run that lives again  *)
(* was never cleared and just grows old.                                   *)
reap_window_passes(r) ==
    /\ row[r].ended_at = "recent"
    /\ row' = [row EXCEPT ![r].ended_at = "past"]
    /\ IF Reapable(r) /\ Present(r) /\ ~Live(r)
         THEN boot.pc = "up" /\ Fault(r)
         ELSE UNCHANGED <<used, trail>>
    /\ UNCHANGED <<job, secret, req, boot>>

(* Only a terminal run; its workload first, best effort.                   *)
delete_run(r) ==
    /\ row[r].state = "ended"
    /\ row' = [row EXCEPT ![r] = [NoRow EXCEPT !.state = "deleted"]]
    /\ \/ /\ IF row[r].ref THEN Gone(r) ELSE UNCHANGED <<job, secret>>
          /\ UNCHANGED <<used, trail>>
       \/ /\ row[r].ref /\ Present(r) /\ Fault(r)
          /\ UNCHANGED <<job, secret>>
    /\ UNCHANGED <<req, boot>>

(* ttlSecondsAfterFinished, or the hard deadline: the cluster's own.       *)
job_expires(r) ==
    /\ Fleet[r] = "k8s" /\ Present(r)
    /\ Gone(r)
    /\ UNCHANGED <<row, req, boot, used, trail>>

-----------------------------------------------------------------------------
(* Boot reconciliation, beside the requests.                               *)

(* Phase 1 loads the active rows and keeps them: the session does not      *)
(* expire them at its commits.                                             *)
reconcile_on_boot ==
    /\ boot.pc = "load"
    /\ LET active == {r \in Runs : Live(r)}
       IN  boot' = [boot EXCEPT !.pc = "probe", !.todo = active, !.seen = [r \in active |-> row[r]]]
    /\ UNCHANGED <<row, job, secret, req, used, trail>>

(* One loaded run: no ref, or a workload that is gone or scaled to zero,   *)
(* fails it; a probe that errors leaves it.                                *)
probe_run(r) ==
    /\ boot.pc = "probe" /\ r \in boot.todo
    /\ LET ref == boot.seen[r].ref
           Verdict(rec) == [boot EXCEPT !.todo = @ \ {r}, !.seen[r] = rec]
       IN  \/ /\ boot' = Verdict(IF ~ref \/ job[r] # "up" THEN Terminal(boot.seen[r])
                                 ELSE boot.seen[r])
              /\ UNCHANGED <<used, trail>>
           \/ /\ ref /\ boot' = Verdict(boot.seen[r])
              /\ Fault(r)
    /\ UNCHANGED <<row, job, secret, req>>

Failed == {r \in DOMAIN boot.seen : boot.seen[r].state = "ended"}

(* The verdicts are committed over the rows as they are now.  A row        *)
(* deleted meanwhile fails the commit, and with it the reconciliation.     *)
commit_verdicts ==
    /\ boot.pc = "probe" /\ boot.todo = {}
    /\ IF \E r \in Failed : row[r].state = "deleted"
         THEN /\ boot' = Up
              /\ trail' = [trail EXCEPT !.faulted = Runs]
              /\ UNCHANGED row
         ELSE /\ boot' = [boot EXCEPT !.pc = "sweep"]
              /\ row' = [r \in Runs |-> IF r \in Failed THEN Terminal(row[r]) ELSE row[r]]
              /\ UNCHANGED trail
    /\ UNCHANGED <<job, secret, req, used>>

(* One driver is enumerated; an error skips it.                            *)
list_run_ids(k) ==
    /\ boot.pc = "sweep" /\ k \in boot.kinds
    /\ \/ /\ boot' = [boot EXCEPT !.pc = "live", !.kinds = @ \ {k},
                                  !.owned = {r \in Runs : Fleet[r] = k /\ Present(r)}]
          /\ UNCHANGED <<used, trail>>
       \/ /\ boot' = [boot EXCEPT !.kinds = @ \ {k}]
          /\ used.faults < MaxFaults
          /\ used' = [used EXCEPT !.faults = @ + 1]
          /\ trail' = [trail EXCEPT !.faulted = @ \cup {r \in Runs : Fleet[r] = k}]
    /\ UNCHANGED <<row, job, secret, req>>

_live_run_ids ==
    /\ boot.pc = "live"
    /\ boot' = [boot EXCEPT !.pc = "verify", !.owned = {}, !.strays = {r \in boot.owned : ~Live(r)}]
    /\ UNCHANGED <<row, job, secret, req, used, trail>>

(* The last look before the destroy.  A row of phase 1 is answered from    *)
(* the session, not from the database.                                     *)
_sweep_stray_fleets ==
    /\ boot.pc = "verify"
    /\ IF boot.strays = {} THEN boot' = [boot EXCEPT !.pc = "sweep"]
       ELSE LET r == Min(boot.strays)
                state == IF r \in DOMAIN boot.seen THEN boot.seen[r].state ELSE row[r].state
            IN  boot' = IF state \in Active THEN [boot EXCEPT !.strays = @ \ {r}]
                        ELSE [boot EXCEPT !.pc = "destroy"]
    /\ UNCHANGED <<row, job, secret, req, used, trail>>

_destroy_stray ==
    /\ boot.pc = "destroy"
    /\ LET r == Min(boot.strays)
       IN  \/ Gone(r) /\ UNCHANGED <<used, trail>>
           \/ Fault(r) /\ UNCHANGED <<job, secret>>
    /\ boot' = [boot EXCEPT !.pc = "verify", !.strays = @ \ {Min(boot.strays)}]
    /\ UNCHANGED <<row, req>>

reconciled ==
    /\ boot.pc = "sweep" /\ boot.kinds = {}
    /\ boot' = Up
    /\ UNCHANGED <<row, job, secret, req, used, trail>>

(* The process dies: requests and the boot session with it.  What the next *)
(* sweep can put right is no longer excused.                               *)
Crash ==
    /\ used.crashes < MaxCrashes
    /\ used' = [used EXCEPT !.crashes = @ + 1]
    /\ req' = [c \in Clients |-> Idle]
    /\ boot' = FreshBoot
    /\ trail' = [trail EXCEPT !.faulted = {}, !.leaked = @ \cup {r \in Runs : InFlight(r)}]
    /\ UNCHANGED <<row, job, secret>>

LaunchNext ==
    \/ \E c \in Clients : \/ \E gb \in Volumes : run_spec(c, gb)
                          \/ provision_run(c) \/ provision_refused(c)
                          \/ create_secret(c) \/ create_workload(c)
                          \/ _delete_secret_quietly(c) \/ _adopt_secret(c)
                          \/ commit_launch(c) \/ commit_failure(c)
    \/ \E r \in Runs : \/ \E force \in BOOLEAN : stop_run(r, force)
                       \/ run_ends(r) \/ _destroy_fleet(r) \/ reap_window_passes(r)
                       \/ delete_run(r) \/ job_expires(r) \/ probe_run(r)
    \/ \E k \in Kinds : list_run_ids(k)
    \/ reconcile_on_boot \/ commit_verdicts \/ _live_run_ids \/ _sweep_stray_fleets
    \/ _destroy_stray \/ reconciled \/ Crash

LaunchSpec == LaunchInit /\ [][LaunchNext]_LaunchVars

-----------------------------------------------------------------------------
(* "A workload mapping to a live run is never destroyed": however launches *)
(* and stops interleave with the boot sweep, it takes only workloads whose *)
(* run is on record as over, so never one whose launch is still on its     *)
(* way.  Left out is a run that was over before its launch committed and   *)
(* that the commit brought back.                                           *)
LaunchSurvivesBoot ==
    [][ boot.pc = "destroy" /\ boot'.pc = "verify" =>
          \A r \in Runs : Present(r) /\ job'[r] = "none" =>
              row[r].state \in {"ended", "deleted"} \/ r \in trail.crossed ]_LaunchVars

(* Once a boot has reconciled, every workload is wanted or will be reaped, *)
(* unless a driver call about it failed in this life of the process or its *)
(* run was over before its launch committed; and a token Secret outlives   *)
(* its launch only under a Job that takes it along, unless a call about it *)
(* failed or the process died.                                             *)
NothingLeftBehind ==
    \A r \in Runs :
        /\ boot.pc = "up" /\ Present(r) /\ ~Live(r) /\ ~InFlight(r) =>
               Reapable(r) \/ r \in trail.faulted \cup trail.crossed
        /\ secret[r] = "bare" /\ ~InFlight(r) => r \in trail.leaked
        /\ secret[r] = "owned" => Present(r)

(* The target's cap holds over every active run, launching ones included,  *)
(* unless one of them was admitted while another submit was between its    *)
(* check and its commit, or came back from the dead.                       *)
CapHeld ==
    _active_gb_day_for_target > Cap => \E r \in Runs : Live(r) /\ row[r].raced

(* A run told to drain only ends: an operator's stop is never undone.      *)
StopHeeded ==
    [][\A r \in Runs : row[r].state = "draining" => row'[r].state \in {"draining", "ended"}]_LaunchVars

(* Boot fails only a run nobody is launching: "a run launched in the       *)
(* seconds after a control-plane restart" is left alone.                   *)
BootSparesLaunches ==
    [][boot.pc = "probe" /\ boot'.pc = "sweep" =>
         \A r \in Runs : Live(r) /\ row'[r].state = "ended" => ~InFlight(r)]_LaunchVars

=============================================================================
