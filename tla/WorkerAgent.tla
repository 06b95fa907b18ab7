----------------------------- MODULE WorkerAgent -----------------------------
(***************************************************************************)
(* One worker process: worker/stoker_agent/agent.py driving control.py and *)
(* the token bucket of pacing.py.  The agent thread claims, prepares,      *)
(* reports ready, polls for its release, waits for T0 and then loops:      *)
(* deadline, engine, watchdog, HEC auth, dead man, fence, heartbeat.  Time *)
(* is a discrete clock; a heartbeat call blocks the thread while the       *)
(* bucket goes on releasing events, which is what makes the fence late.    *)
(*                                                                         *)
(* The control plane is any sequence of replies and failures; RunLifecycle *)
(* has the replies it really gives.  The engine and the HEC target are     *)
(* external: the engine feeds the socket or is silent, and may exit.       *)
(*                                                                         *)
(* A definition named X_Variant is a broken X for the mutation test.       *)
(***************************************************************************)
EXTENDS Integers

CONSTANTS
    Fence,        \* FENCE_PAUSE_S
    DeadMan,      \* STOKER_DEADMAN_S
    Timeout,      \* STOKER_CONTROL_TIMEOUT_S: the most one attempt takes
    Interval,     \* telemetry.interval_s
    Delay,        \* how far ahead a release sets T0
    Catchup,      \* STOKER_CATCHUP_S
    ZeroOut,      \* STOKER_ZERO_OUTPUT_S
    MaxRestarts,  \* STOKER_ZERO_OUTPUT_MAX_RESTARTS
    RestartWait,  \* the most engine.restart takes
    Budget,       \* STOKER_DRAIN_BUDGET_S
    SockJoin, EngineGrace, KillWait, Flush, AbortJoin, FinalSleep,
                  \* the limits of the drain's stages
    Slices,       \* the slices the control plane may issue
    Feeds         \* whether a running engine feeds the socket: a subset of BOOLEAN

(* gated: paced by the token bucket (rate_mode is not count_interval);     *)
(* sweep: an ordered backfill; released: a lease re-issued after T0.       *)
SliceRow == [engine: {"eventgen", "rawreplay", "metrics"}, gated: BOOLEAN,
             sweep: BOOLEAN, bounded: BOOLEAN, released: BOOLEAN]

ASSUME AgentAssumption ==
    /\ {Fence, DeadMan, Timeout, Interval, Delay, Catchup, ZeroOut, MaxRestarts, RestartWait,
        Budget, SockJoin, EngineGrace, KillWait, Flush, AbortJoin, FinalSleep} \subseteq Nat
    /\ Timeout > 0 /\ Interval > 0
    /\ Delay <= Fence
    /\ Feeds \subseteq BOOLEAN /\ Slices \subseteq SliceRow
    /\ \A sl \in Slices : sl.sweep => sl.engine = "eventgen"

VARIABLES
    slice,    \* what claim returns
    pc,       \* the phase of Agent.run
    ack,      \* time since _last_ack, saturating just past the dead man
    call,     \* how long the heartbeat or restart has blocked the thread
    timer,    \* what the phase waits for: see TypeOK
    bucket,   \* the token bucket: paused, anchor parked ahead of T0, lag_s
    fenced,   \* _fencing_paused
    held,     \* _operator_paused
    engine,   \* the engine process, and what the watchdog knows of it
    auth,     \* the HEC client's auth_failed
    drain     \* _drain_reason, "none" while the drain event is not set

vars == <<slice, pc, ack, call, timer, bucket, fenced, held, engine, auth, drain>>

NoCall == -1
MaxCall == 2 * Timeout

Generating == {"starting", "looping", "restarting", "retargeting"}
DrainPhases == {"draining", "stopping", "flushing", "reporting", "exited"}
Phases == {"claiming", "preparing", "readying", "awaiting", "waiting"}
          \cup Generating \cup DrainPhases

Reasons == {"none", "signal", "dead-man", "superseded", "setup-failure", "control-drain",
            "duration-complete", "engine-exit", "no-engine-output", "hec-auth-failed"}

Least(a, b) == IF a <= b THEN a ELSE b
Greatest(a, b) == IF a >= b THEN a ELSE b

(* quiet: time since last_progress; moved: received has grown since the    *)
(* last look.                                                              *)
EngineRow == [state: {"off", "up", "dead"}, quiet: 0 .. ZeroOut, moved: BOOLEAN,
              restarts: 0 .. MaxRestarts]

(* timer: what is left of the dead-man window (claiming, readying), of the *)
(* heartbeat interval (awaiting, generating), until T0 (waiting), and of   *)
(* the drain budget (the drain stages), where it may run below zero.       *)
TypeOK ==
    /\ slice \in Slices
    /\ pc \in Phases
    /\ ack \in 0 .. DeadMan + 1
    /\ call \in NoCall .. Greatest(MaxCall, RestartWait)
    /\ timer \in Int
    /\ bucket \in [paused: BOOLEAN, parked: BOOLEAN, lag: 0 .. Catchup]
    /\ fenced \in BOOLEAN /\ held \in BOOLEAN
    /\ engine \in EngineRow
    /\ auth \in BOOLEAN
    /\ drain \in Reasons

Init ==
    /\ slice \in Slices
    /\ pc = "claiming" /\ ack = 0 /\ call = NoCall /\ timer = DeadMan
    /\ bucket = [paused |-> TRUE, parked |-> TRUE, lag |-> 0]
    /\ fenced = FALSE /\ held = FALSE
    /\ engine = [state |-> "off", quiet |-> 0, moved |-> FALSE, restarts |-> 0]
    /\ auth = FALSE /\ drain = "none"

(* Events can pass to HEC: only a gated slice asks the bucket, and only a  *)
(* closed bucket stops the readers of an ungated one.                      *)
Flowing ==
    /\ engine.state # "off" /\ pc \notin DrainPhases
    /\ slice.gated => ~bucket.paused /\ ~bucket.parked

-----------------------------------------------------------------------------
(* Pieces of the agent.                                                    *)

(* request_drain: the first reason is kept.                                *)
request_drain(reason) == drain' = IF drain = "none" THEN reason ELSE drain

(* The thread leaves for _shutdown; the drain deadline starts.             *)
Shutdown(reason) ==
    /\ request_drain(reason)
    /\ pc' = "draining" /\ call' = NoCall /\ timer' = Budget

Warmed == slice.gated /\ slice.engine = "eventgen"

Watched == ZeroOut > 0 /\ slice.gated /\ slice.engine # "metrics"

Fed(e) == [e EXCEPT !.quiet = 0, !.moved = FALSE]

bucket_fenced_Resumes(a) ==
    IF a > Fence THEN [bucket EXCEPT !.paused = fenced => @]
    ELSE [bucket EXCEPT !.paused = @ /\ ~fenced]

(* The bucket after _check_fencing, a being seconds_since_ack: the fence   *)
(* closes it once, and its lifting opens it unless the operator holds.     *)
bucket_fenced(a) ==
    IF a > Fence THEN [bucket EXCEPT !.paused = fenced => @]
    ELSE [bucket EXCEPT !.paused = @ /\ (fenced => held)]

check_fencing(a) == fenced' = (a > Fence) /\ bucket' = bucket_fenced(a)

-----------------------------------------------------------------------------
(* Claiming, preparing, readying.  The POST loops retry until the dead-man *)
(* window has passed and do not look at the drain event.                   *)

Claim ==
    /\ pc = "claiming"
    /\ pc' = "preparing" /\ ack' = 0
    /\ UNCHANGED <<slice, call, timer, bucket, fenced, held, engine, auth, drain>>

Prepare_NotParked ==
    /\ pc = "preparing"
    /\ pc' = "readying" /\ timer' = DeadMan
    /\ bucket' = [paused |-> TRUE, parked |-> FALSE, lag |-> 0]
    /\ engine' = IF Warmed THEN [engine EXCEPT !.state = "up"] ELSE engine
    /\ UNCHANGED <<slice, ack, call, fenced, held, auth, drain>>

(* Bundle, conf, HEC client, bucket, socket, engine; a gated eventgen is   *)
(* warmed against the paused bucket.                                       *)
Prepare ==
    /\ pc = "preparing"
    /\ pc' = "readying" /\ timer' = DeadMan
    /\ bucket' = [paused |-> TRUE, parked |-> TRUE, lag |-> 0]
    /\ engine' = IF Warmed THEN [engine EXCEPT !.state = "up"] ELSE engine
    /\ UNCHANGED <<slice, ack, call, fenced, held, auth, drain>>

(* A bad slice, bundle or conf, or an engine that does not start.          *)
SetupFails ==
    /\ pc \in {"claiming", "preparing"}
    /\ Shutdown("setup-failure")
    /\ UNCHANGED <<slice, ack, bucket, fenced, held, engine, auth>>

Ready ==
    /\ pc = "readying"
    /\ pc' = IF slice.released THEN "waiting" ELSE "awaiting"
    /\ ack' = 0 /\ timer' = 0
    /\ UNCHANGED <<slice, call, bucket, fenced, held, engine, auth, drain>>

GivesUp ==
    /\ pc \in {"claiming", "readying"} /\ timer = 0
    /\ Shutdown("dead-man")
    /\ UNCHANGED <<slice, ack, bucket, fenced, held, engine, auth>>

-----------------------------------------------------------------------------
(* _await_release and _wait_until.                                         *)

AwaitPoll ==
    /\ pc = "awaiting" /\ call = NoCall /\ timer = 0 /\ drain = "none"
    /\ check_fencing(ack)
    /\ call' = 0
    /\ UNCHANGED <<slice, pc, ack, timer, held, engine, auth, drain>>

(* Only release and drain mean anything here.                              *)
AwaitReply(cmd) ==
    /\ pc = "awaiting" /\ call # NoCall
    /\ ack' = 0 /\ call' = NoCall
    /\ CASE cmd = "release" -> pc' = "waiting" /\ timer' \in 0 .. Delay /\ drain' = drain
         [] cmd = "drain"   -> Shutdown("control-drain")
         [] OTHER           -> pc' = pc /\ timer' = Interval /\ drain' = drain
    /\ UNCHANGED <<slice, bucket, fenced, held, engine, auth>>

AwaitMissed_NoDeadMan ==
    /\ pc = "awaiting" /\ call # NoCall
    /\ pc' = pc /\ call' = NoCall /\ timer' = Interval /\ drain' = drain
    /\ UNCHANGED <<slice, ack, bucket, fenced, held, engine, auth>>

AwaitMissed ==
    /\ pc = "awaiting" /\ call # NoCall
    /\ IF ack > DeadMan THEN Shutdown("dead-man")
       ELSE pc' = pc /\ call' = NoCall /\ timer' = Interval /\ drain' = drain
    /\ UNCHANGED <<slice, ack, bucket, fenced, held, engine, auth>>

(* A superseded reply raises wherever the heartbeat was sent from.         *)
Superseded ==
    /\ pc \in {"awaiting", "looping"} /\ call # NoCall
    /\ Shutdown("superseded")
    /\ UNCHANGED <<slice, ack, bucket, fenced, held, engine, auth>>

(* The drain event ends each of the loops between heartbeats.              *)
Interrupted ==
    /\ pc \in {"awaiting", "waiting", "starting", "looping"} /\ call = NoCall /\ drain # "none"
    /\ Shutdown(drain)
    /\ UNCHANGED <<slice, ack, bucket, fenced, held, engine, auth>>

(* T0: the bucket is anchored at T0 or effective_t0, either of which may   *)
(* lie in the past, and opened; an engine not warmed is started.           *)
Start(behind, ok) ==
    /\ pc = "waiting" /\ timer = 0 /\ drain = "none"
    /\ bucket' = [paused |-> FALSE, parked |-> FALSE, lag |-> behind]
    /\ IF ok \/ engine.state # "off"
         THEN /\ pc' = "starting" /\ timer' = Interval
              /\ engine' = [engine EXCEPT !.state = IF @ = "off" THEN "up" ELSE @]
              /\ UNCHANGED <<call, drain>>
         ELSE Shutdown("setup-failure") /\ UNCHANGED engine
    /\ UNCHANGED <<slice, ack, fenced, held, auth>>

-----------------------------------------------------------------------------
(* _run_loop.  An iteration checks the deadline, the engine, the watchdog, *)
(* HEC auth, the dead man and the fence, then sends a heartbeat when one   *)
(* is due, and sleeps until the next.                                      *)

Due == call = NoCall /\ drain = "none" /\ (pc = "starting" \/ (pc = "looping" /\ timer = 0))

(* The deadline wakes the loop between heartbeats too; a hold suspends it. *)
DurationComplete ==
    /\ pc \in {"starting", "looping"} /\ call = NoCall /\ drain = "none"
    /\ slice.bounded /\ ~held
    /\ Shutdown("duration-complete")
    /\ UNCHANGED <<slice, ack, bucket, fenced, held, engine, auth>>

EngineGone ==
    /\ Due /\ engine.state = "dead"
    /\ Shutdown("engine-exit")
    /\ UNCHANGED <<slice, ack, bucket, fenced, held, engine, auth>>

Stalled == Watched /\ ~held /\ engine.state = "up" /\ ~engine.moved /\ engine.quiet >= ZeroOut

LastRestart == engine.restarts >= MaxRestarts

StallDrains ==
    /\ Due /\ Stalled /\ (slice.sweep \/ LastRestart)
    /\ Shutdown("no-engine-output")
    /\ UNCHANGED <<slice, ack, bucket, fenced, held, engine, auth>>

(* engine.restart blocks the thread while the old process group is stopped.*)
StallRestarts ==
    /\ Due /\ Stalled /\ ~slice.sweep /\ ~LastRestart
    /\ pc' = "restarting" /\ call' = 0
    /\ engine' = [engine EXCEPT !.restarts = @ + 1]
    /\ UNCHANGED <<slice, ack, timer, bucket, fenced, held, auth, drain>>

(* The rest of an iteration, the watchdog leaving the engine as e.  The    *)
(* next heartbeat is timed from before the call.                           *)
Rest(e) ==
    /\ IF auth \/ ack > DeadMan
         THEN /\ Shutdown(IF auth THEN "hec-auth-failed" ELSE "dead-man")
              /\ UNCHANGED <<bucket, fenced>>
         ELSE /\ check_fencing(ack)
              /\ pc' = "looping" /\ drain' = drain
              /\ call' = IF timer = 0 THEN 0 ELSE NoCall
              /\ timer' = IF timer = 0 THEN Interval ELSE timer
    /\ engine' = e
    /\ UNCHANGED <<slice, ack, held, auth>>

(* No stall: output has moved, is held by the operator, or may yet come.   *)
Pass ==
    /\ Due /\ engine.state # "dead" /\ ~Stalled
    /\ Rest(IF held \/ engine.moved THEN Fed(engine) ELSE engine)

Restarted(ok) ==
    /\ pc = "restarting"
    /\ IF ok THEN Rest([Fed(engine) EXCEPT !.state = "up"])
       ELSE /\ Shutdown("no-engine-output")
            /\ UNCHANGED <<slice, ack, bucket, fenced, held, engine, auth>>

operator_resume_NoAnchor(b) == [b EXCEPT !.paused = FALSE]

(* _operator_resume: re-anchored at now, so the hold is not owed.          *)
operator_resume(b) == [b EXCEPT !.paused = FALSE, !.lag = 0]

(* A heartbeat reply in the loop: the ack lifts the fence, then the        *)
(* command is applied.  pause holds, anything else but drain ends a hold,  *)
(* and retarget changes the rate in place or restarts the engine.  (Only a *)
(* live metrics engine is restarted by a resume, and it cannot be paused.) *)
Reply(cmd, inplace) ==
    /\ pc = "looping" /\ call # NoCall
    /\ ack' = 0 /\ fenced' = FALSE
    /\ held' = (cmd = "pause" \/ (held /\ cmd = "drain"))
    /\ bucket' = IF cmd = "pause" /\ ~held THEN [bucket_fenced(0) EXCEPT !.paused = TRUE]
                 ELSE IF held /\ ~held' THEN operator_resume(bucket_fenced(0))
                 ELSE bucket_fenced(0)
    /\ IF cmd = "retarget" /\ ~inplace THEN pc' = "retargeting" /\ call' = 0
       ELSE pc' = pc /\ call' = NoCall
    /\ IF cmd = "drain" THEN request_drain("control-drain") ELSE UNCHANGED drain
    /\ UNCHANGED <<slice, timer, engine, auth>>

(* The end of _rewrite_and_restart; the watchdog is not told of it.        *)
Retargeted(ok) ==
    /\ pc = "retargeting"
    /\ IF ok THEN /\ pc' = "looping" /\ call' = NoCall
                  /\ engine' = [engine EXCEPT !.state = "up"]
                  /\ UNCHANGED <<timer, drain>>
       ELSE Shutdown("setup-failure") /\ UNCHANGED engine
    /\ UNCHANGED <<slice, ack, bucket, fenced, held, auth>>

Missed ==
    /\ pc = "looping" /\ call # NoCall
    /\ call' = NoCall
    /\ UNCHANGED <<slice, pc, ack, timer, bucket, fenced, held, engine, auth, drain>>

-----------------------------------------------------------------------------
(* _shutdown: each stage takes what it takes, up to its limit and to what  *)
(* is left of the budget; some waits are outside the budget.               *)

Left == Greatest(timer, 0)

(* bucket.close, hec.begin_stop, and the join of the socket readers.       *)
DrainSocket(spent) ==
    /\ pc = "draining" /\ spent <= Least(SockJoin, Left)
    /\ pc' = "stopping" /\ timer' = timer - spent
    /\ UNCHANGED <<slice, ack, call, bucket, fenced, held, engine, auth, drain>>

(* engine.stop: SIGTERM and its grace, then SIGKILL and two fixed waits.   *)
DrainEngine(spent) ==
    /\ pc = "stopping"
    /\ spent <= IF engine.state = "off" THEN 0 ELSE Least(EngineGrace, Left) + KillWait
    /\ pc' = "flushing" /\ timer' = timer - spent
    /\ engine' = [engine EXCEPT !.state = "off"]
    /\ UNCHANGED <<slice, ack, call, bucket, fenced, held, auth, drain>>

flush_limit_Unclamped == Flush

flush_limit == Least(Flush, Left)

(* flush_and_stop; senders that do not finish in time are joined once more.*)
DrainFlush(spent) ==
    /\ pc = "flushing" /\ spent <= flush_limit + AbortJoin
    /\ pc' = "reporting" /\ timer' = timer - spent
    /\ UNCHANGED <<slice, ack, call, bucket, fenced, held, engine, auth, drain>>

(* final: no attempt starts after the deadline and each is clamped to what *)
(* is left of it; only the pause between two attempts may pass it.         *)
DrainReport(spent) ==
    /\ pc = "reporting"
    /\ spent <= IF timer <= 0 THEN 0 ELSE timer + FinalSleep
    /\ pc' = "exited" /\ timer' = timer - spent
    /\ UNCHANGED <<slice, ack, call, bucket, fenced, held, engine, auth, drain>>

-----------------------------------------------------------------------------
(* The environment.                                                        *)

Sigterm ==
    /\ pc \notin DrainPhases /\ drain = "none"
    /\ request_drain("signal")
    /\ UNCHANGED <<slice, pc, ack, call, timer, bucket, fenced, held, engine, auth>>

EngineExits ==
    /\ engine.state = "up" /\ pc \notin DrainPhases
    /\ engine' = [engine EXCEPT !.state = "dead"]
    /\ UNCHANGED <<slice, pc, ack, call, timer, bucket, fenced, held, auth, drain>>

(* A batch that passed the bucket is answered 401 or 403.                  *)
HecAuthFails ==
    /\ pc \in Generating /\ ~auth
    /\ auth' = TRUE
    /\ UNCHANGED <<slice, pc, ack, call, timer, bucket, fenced, held, engine, drain>>

(* The longest the thread may block in this phase.                         *)
CallLimit == IF pc \in {"restarting", "retargeting"} THEN RestartWait ELSE MaxCall

(* The thread has something to do before the clock moves on.               *)
Busy ==
    \/ pc \in DrainPhases \cup {"preparing", "starting"}
    \/ timer = 0 /\ pc \in {"claiming", "readying", "waiting"}
    \/ timer = 0 /\ pc \in {"awaiting", "looping"} /\ call = NoCall
    \/ drain # "none" /\ pc \in {"awaiting", "waiting", "looping"} /\ call = NoCall
    \/ call = CallLimit

(* One unit of time.  feeds: the engine feeds the socket and the HEC queue *)
(* takes what the bucket lets through; a closed bucket falls behind.       *)
Tick(feeds) ==
    /\ ~Busy
    /\ ack' = Least(ack + 1, DeadMan + 1)
    /\ call' = IF call = NoCall THEN NoCall ELSE call + 1
    /\ timer' = Greatest(timer - 1, 0)
    /\ LET passes == feeds /\ Flowing /\ engine.state = "up"
       IN /\ bucket' = [bucket EXCEPT !.lag = IF bucket.parked \/ passes THEN 0
                                              ELSE Least(@ + 1, Catchup)]
          /\ engine' = IF Watched /\ pc \in Generating
                         THEN [engine EXCEPT !.moved = @ \/ passes,
                                             !.quiet = Least(@ + 1, ZeroOut)]
                         ELSE engine
    /\ UNCHANGED <<slice, pc, fenced, held, auth, drain>>

-----------------------------------------------------------------------------
(* The commands of a control plane that refuses to pause an ungated run.   *)
Commands == {"continue", "release", "retarget", "drain"}
            \cup (IF slice.gated THEN {"pause"} ELSE {})

Startup ==
    \/ Claim \/ Prepare \/ SetupFails \/ Ready \/ GivesUp
    \/ AwaitPoll \/ AwaitMissed
    \/ \E cmd \in Commands : AwaitReply(cmd)
    \/ \E behind \in 0 .. Catchup, ok \in BOOLEAN : Start(behind, ok)

Loop ==
    \/ Interrupted \/ Superseded
    \/ DurationComplete \/ EngineGone \/ StallDrains \/ StallRestarts \/ Pass \/ Missed
    \/ \E ok \in BOOLEAN : Restarted(ok) \/ Retargeted(ok)
    \/ \E cmd \in Commands, inplace \in BOOLEAN : Reply(cmd, inplace)

Drain ==
    \/ \E spent \in 0 .. SockJoin : DrainSocket(spent)
    \/ \E spent \in 0 .. EngineGrace + KillWait : DrainEngine(spent)
    \/ \E spent \in 0 .. Flush + AbortJoin : DrainFlush(spent)
    \/ \E spent \in 0 .. Budget + FinalSleep : DrainReport(spent)

Thread == Startup \/ Loop \/ Drain

Clock == \E feeds \in Feeds : Tick(feeds)

Environment == Sigterm \/ EngineExits \/ HecAuthFails

Next == Thread \/ Clock \/ Environment

Spec == Init /\ [][Next]_vars

(* The process is scheduled and time passes; nothing is assumed of the     *)
(* control plane's answers.                                                *)
FairSpec == Spec /\ WF_vars(Clock) /\ WF_vars(Busy /\ Thread)

-----------------------------------------------------------------------------
(* Nothing flows before T0 ("nothing flows before T0", Agent.run): a fence *)
(* that lifts while the worker awaits its release opens the bucket, and    *)
(* only the parked anchor still holds the output back; an ungated engine   *)
(* has nothing to hold it and is started no earlier.                       *)
NothingBeforeT0 == Flowing => pc \in Generating

(* An operator's pause outlives every fence that closes and lifts during   *)
(* it: while _operator_paused is set the bucket is closed.                 *)
HeldStaysHeld == held => bucket.paused

(* How long after its last acknowledged heartbeat a gated worker can still *)
(* send: the fence is looked at once an iteration, after a heartbeat that  *)
(* may block for two attempts and a watchdog restart that blocks as well.  *)
(* This bounds how long two holders of a slot overlap.                     *)
FenceBound ==
    Flowing /\ slice.gated => ack <= Fence + Greatest(MaxCall, Interval) + RestartWait

(* What closes the bucket keeps it closed: the operator's pause through    *)
(* every fence, and the fence within its bound.                            *)
HoldsKept == HeldStaysHeld /\ FenceBound

(* The drain's stages together, with the waits outside the budget, stay    *)
(* within the budget plus the one overshoot its last stages can add.       *)
DrainWithinBudget ==
    pc = "exited" => timer >= -Greatest(AbortJoin, FinalSleep)

(* _operator_resume: the paused interval is not owed when output resumes.  *)
NoReplayAfterPause ==
    [][held /\ ~held' /\ ~bucket'.paused => bucket'.lag = 0]_vars

(* A worker that has lost the control plane for the dead-man window leaves,*)
(* before its release as well as after it.                                 *)
DeadManEvicts == ack > DeadMan ~> ack = 0 \/ pc = "exited"

(* Once a drain is requested, in whatever phase, the process ends.         *)
DrainExits == drain # "none" ~> pc = "exited"

(* Whatever ends a worker - a signal, a command, the dead man - ends it.   *)
WorkerLeaves == DeadManEvicts /\ DrainExits

-----------------------------------------------------------------------------
(* _run_loop: "silence really is a stall".  A worker does not drain for    *)
(* want of engine output when its engine feeds the socket whenever it can  *)
(* and only its own fence holds the output back.                           *)
SilenceIsAStall == drain = "no-engine-output" /\ fenced => FALSE \in Feeds

(* The fencing contract: without an ack for FENCE_PAUSE_S "the agent       *)
(* pauses generation (the token bucket pauses; the engine backpressures)". *)
FenceHoldsOutput == fenced /\ ack > Fence => ~Flowing
=============================================================================
