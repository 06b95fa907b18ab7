-------------------------- MODULE WorkerAgentProofs --------------------------
(***************************************************************************)
(* The worker agent for every value of its timeouts: nothing flows before  *)
(* T0, the operator's hold and the fence keep the bucket closed, a hold is *)
(* not owed, and the drain keeps to its budget.                            *)
(*                                                                         *)
(* AgentInv is the inductive invariant.  Its parts follow the phases of    *)
(* the agent thread: Early holds until T0, Timed bounds the age of the     *)
(* last acknowledgement by the timers that run beside it, and Spent what   *)
(* is left of the drain budget at each stage.                             *)
(***************************************************************************)
EXTENDS WorkerAgent, TLAPS

BeforeT0 == {"claiming", "preparing", "readying", "awaiting", "waiting"}

LEMMA ConstantsNat ==
    /\ Fence \in Nat /\ DeadMan \in Nat /\ Timeout \in Nat /\ Interval \in Nat
    /\ Delay \in Nat /\ Catchup \in Nat /\ ZeroOut \in Nat /\ MaxRestarts \in Nat
    /\ RestartWait \in Nat /\ Budget \in Nat /\ SockJoin \in Nat /\ EngineGrace \in Nat
    /\ KillWait \in Nat /\ Flush \in Nat /\ AbortJoin \in Nat /\ FinalSleep \in Nat
    /\ Timeout > 0 /\ Interval > 0 /\ Delay <= Fence
    /\ MaxCall \in Nat
BY AgentAssumption DEF MaxCall

USE ConstantsNat

(* A clock that is not the drain's never runs below zero, and a call ends  *)
(* within its limit.                                                       *)
TimersOK ==
    /\ pc \notin DrainPhases => timer \in Nat
    /\ call <= CallLimit
    /\ pc \notin {"awaiting", "looping", "restarting", "retargeting"} => call = NoCall

(* Until T0 the anchor is parked, only a gated engine is warm, and the     *)
(* watchdog has not begun to count; the operator holds nothing.            *)
Early ==
    /\ pc \in BeforeT0 => bucket.parked /\ (engine.state # "off" => slice.gated)
    /\ pc \in BeforeT0 \cup {"starting"} => engine.quiet = 0 /\ ~held

(* The operator's hold and, in the loop, the fence close the bucket.       *)
Closed ==
    /\ held => bucket.paused
    /\ pc \in Generating \ {"starting"} /\ fenced => bucket.paused

(* How old the last acknowledgement is while the bucket is open.           *)
Longest == Greatest(MaxCall, Interval)

Timing(p, a, c, t, shut) ==
    /\ p = "waiting" => a + t <= Delay
    /\ p = "starting" => a <= Fence /\ t = Interval
    /\ p \in Generating => t <= Interval
    /\ p = "looping" /\ c # NoCall /\ ~shut =>
         a <= Fence + c /\ (t > 0 => t + c <= Interval)
    /\ p = "looping" /\ c = NoCall /\ ~shut =>
         a <= Fence + (IF t > 0 THEN Interval - t ELSE Longest)
    /\ p \in {"restarting", "retargeting"} => c \in Nat
    /\ p = "restarting" /\ ~shut => a <= Fence + Longest + c
    /\ p = "retargeting" => a <= c /\ (t > 0 => t + c <= Interval)

Timed == Timing(pc, ack, call, timer, bucket.paused)

AgentInv == TypeOK /\ TimersOK /\ Early /\ Closed /\ Timed
BucketRow == [paused: BOOLEAN, parked: BOOLEAN, lag: 0 .. Catchup]

(* What every step but a change of the slice keeps, spelled out once.      *)
LEMMA Types ==
    ASSUME AgentInv
    PROVE  /\ slice \in SliceRow /\ slice \in Slices /\ pc \in Phases
           /\ ack \in Nat /\ ack <= DeadMan + 1
           /\ call \in Int /\ timer \in Int /\ bucket \in BucketRow
           /\ bucket.paused \in BOOLEAN /\ bucket.parked \in BOOLEAN
           /\ fenced \in BOOLEAN /\ held \in BOOLEAN /\ engine \in EngineRow
           /\ engine.state \in {"off", "up", "dead"} /\ engine.quiet \in Nat
           /\ auth \in BOOLEAN /\ drain \in Reasons
BY AgentAssumption DEF AgentInv, TypeOK, BucketRow, EngineRow, NoCall

LEMMA FencedBucket ==
    ASSUME AgentInv, NEW a \in Nat
    PROVE  LET b == bucket_fenced(a)
           IN /\ b \in BucketRow /\ b.parked = bucket.parked /\ b.lag = bucket.lag
              /\ held /\ bucket.paused => b.paused
              /\ a > Fence /\ (fenced => bucket.paused) => b.paused
<1> DEFINE p == fenced => bucket.paused
           q == bucket.paused /\ (fenced => held)
           b == bucket_fenced(a)
<1>1. p \in BOOLEAN /\ q \in BOOLEAN
  OBVIOUS
<1>2. b = IF a > Fence THEN [bucket EXCEPT !.paused = p] ELSE [bucket EXCEPT !.paused = q]
  BY DEF bucket_fenced
<1>3. (held /\ bucket.paused => p /\ q) /\ bucket \in BucketRow
  BY Types
<1>4. (fenced => bucket.paused) => p
  OBVIOUS
<1> HIDE DEF p, q, b
<1>5. /\ b \in BucketRow /\ b.parked = bucket.parked /\ b.lag = bucket.lag
      /\ b.paused = IF a > Fence THEN p ELSE q
  BY <1>1, <1>2, <1>3 DEF BucketRow
<1>6. held /\ bucket.paused => b.paused
  BY <1>3, <1>5
<1>7. a > Fence /\ (fenced => bucket.paused) => b.paused
  BY <1>4, <1>5
<1> QED BY <1>5, <1>6, <1>7 DEF b

LEMMA InitAgent == Init => AgentInv
<1> SUFFICES ASSUME Init PROVE AgentInv
  OBVIOUS
<1>1. /\ bucket.paused = TRUE /\ bucket.parked = TRUE /\ bucket.lag = 0
      /\ bucket \in BucketRow /\ engine \in EngineRow
      /\ engine.state = "off" /\ engine.quiet = 0
  BY DEF Init, BucketRow, EngineRow
<1>2. TypeOK
  <2>1. /\ slice \in Slices /\ pc = "claiming" /\ ack = 0 /\ call = NoCall
        /\ timer = DeadMan /\ drain = "none"
    BY DEF Init
  <2>2. fenced \in BOOLEAN /\ held \in BOOLEAN /\ auth \in BOOLEAN
    BY DEF Init
  <2> QED BY <1>1, <2>1, <2>2 DEF TypeOK, Phases, Reasons, NoCall, Greatest, BucketRow
<1>3. TimersOK
  BY DEF Init, TimersOK, NoCall, CallLimit
<1>4. Early /\ Closed /\ Timed
  BY <1>1 DEF Init, Early, Closed, Timed, Timing, Generating
<1> QED BY <1>2, <1>3, <1>4 DEF AgentInv

(* Leaving for _shutdown, from wherever.                                   *)
LEMMA ShutdownInv ==
    ASSUME AgentInv, NEW reason \in Reasons, Shutdown(reason),
           UNCHANGED <<slice, ack, held, auth>>, fenced' \in BOOLEAN,
           bucket' \in BucketRow, engine' \in EngineRow, held => bucket'.paused
    PROVE  AgentInv'
<1>1. /\ pc' = "draining" /\ call' = NoCall /\ timer' = Budget /\ drain' \in Reasons
  BY Types DEF Shutdown, request_drain
<1>2. TypeOK'
  BY <1>1, Types DEF AgentInv, TypeOK, BucketRow, Phases, DrainPhases, NoCall, Greatest
<1>3. TimersOK'
  BY <1>1 DEF TimersOK, CallLimit, DrainPhases, NoCall
<1>4. Early' /\ Closed' /\ Timed'
  BY <1>1 DEF Early, Closed, Timed, Timing, BeforeT0, Generating
<1> QED BY <1>2, <1>3, <1>4 DEF AgentInv

LEMMA QuietShutdown ==
    ASSUME AgentInv, NEW reason \in Reasons, Shutdown(reason),
           UNCHANGED <<slice, ack, bucket, fenced, held, engine, auth>>
    PROVE  AgentInv'
BY Types, ShutdownInv DEF AgentInv, Closed

LEMMA ReasonsKnown ==
    {"setup-failure", "dead-man", "control-drain", "superseded", "duration-complete",
     "engine-exit", "no-engine-output", "hec-auth-failed", "signal"} \subseteq Reasons
BY DEF Reasons

(* A phase before T0 that leaves bucket, hold and engine as they were.     *)
LEMMA EarlyStep ==
    ASSUME AgentInv, pc \in BeforeT0, pc' \in BeforeT0 \ {"waiting"},
           ack' \in 0 .. DeadMan + 1, timer' \in Nat, drain' \in Reasons,
           call' \in NoCall .. MaxCall, pc' # "awaiting" => call' = NoCall,
           UNCHANGED <<slice, held, engine, auth>>, fenced' \in BOOLEAN,
           bucket' \in BucketRow, bucket'.parked
    PROVE  AgentInv'
<1>1. TypeOK'
  BY Types DEF AgentInv, TypeOK, BucketRow, Phases, BeforeT0, NoCall, Greatest
<1>2. TimersOK'
  BY DEF TimersOK, CallLimit, DrainPhases, BeforeT0, NoCall
<1>3. Early'
  BY DEF AgentInv, Early, BeforeT0
<1>4. Closed' /\ Timed'
  BY DEF AgentInv, Early, Closed, Timed, Timing, BeforeT0, Generating
<1> QED BY <1>1, <1>2, <1>3, <1>4 DEF AgentInv

LEMMA StartupInv ==
    ASSUME AgentInv, Claim \/ Prepare \/ SetupFails \/ Ready \/ GivesUp \/ AwaitPoll \/ AwaitMissed
    PROVE  AgentInv'
<1> USE Types
<1>1. CASE Claim
  <2>1. pc = "claiming" /\ call = NoCall /\ timer \in Nat /\ bucket.parked
    BY <1>1 DEF Claim, AgentInv, TimersOK, Early, BeforeT0, DrainPhases
  <2> QED BY <1>1, <2>1, EarlyStep DEF Claim, BeforeT0, NoCall
<1>2. CASE Prepare
  <2>1. /\ pc = "preparing" /\ pc' = "readying" /\ call = NoCall /\ call' = NoCall
        /\ timer' = DeadMan /\ UNCHANGED <<slice, ack, fenced, held, auth, drain>>
        /\ engine.state = "off" \/ slice.gated
        /\ engine.quiet = 0 /\ ~held
    BY <1>2 DEF Prepare, AgentInv, TimersOK, Early, BeforeT0
  <2>2. bucket' \in BucketRow /\ bucket'.parked = TRUE /\ bucket'.paused = TRUE
    BY <1>2 DEF Prepare, BucketRow
  <2>3. /\ engine' \in EngineRow /\ engine'.quiet = 0
        /\ engine'.state # "off" => slice.gated
    BY <1>2, <2>1 DEF Prepare, Warmed, EngineRow
  <2>4. TypeOK'
    BY <2>1, <2>2, <2>3 DEF AgentInv, TypeOK, BucketRow, Phases, NoCall, Greatest
  <2>5. TimersOK'
    BY <2>1 DEF TimersOK, CallLimit, DrainPhases, NoCall
  <2>6. Early' /\ Closed' /\ Timed'
    BY <2>1, <2>2, <2>3 DEF Early, Closed, Timed, Timing, BeforeT0, Generating
  <2> QED BY <2>4, <2>5, <2>6 DEF AgentInv
<1>3. CASE SetupFails \/ GivesUp
  BY <1>3, QuietShutdown, ReasonsKnown DEF SetupFails, GivesUp
<1>4. CASE Ready
  <2>1. /\ pc = "readying" /\ call = NoCall /\ bucket.parked /\ engine.quiet = 0 /\ ~held
        /\ engine.state # "off" => slice.gated
    BY <1>4 DEF Ready, AgentInv, TimersOK, Early, BeforeT0
  <2>2. /\ pc' \in {"waiting", "awaiting"} /\ ack' = 0 /\ timer' = 0
        /\ UNCHANGED <<slice, call, bucket, fenced, held, engine, auth, drain>>
    BY <1>4 DEF Ready
  <2>3. TypeOK'
    BY <2>1, <2>2 DEF AgentInv, TypeOK, Phases
  <2>4. TimersOK'
    BY <2>1, <2>2 DEF TimersOK, CallLimit, DrainPhases, NoCall
  <2>5. Early' /\ Closed' /\ Timed'
    BY <2>1, <2>2 DEF Early, Closed, Timed, Timing, BeforeT0, Generating
  <2> QED BY <2>3, <2>4, <2>5 DEF AgentInv
<1>5. CASE AwaitPoll
  <2>1. pc = "awaiting" /\ timer \in Nat /\ bucket.parked
    BY <1>5 DEF AwaitPoll, AgentInv, TimersOK, Early, BeforeT0, DrainPhases
  <2>2. bucket' = bucket_fenced(ack)
    BY <1>5 DEF AwaitPoll, check_fencing
  <2>3. bucket' \in BucketRow /\ bucket'.parked
    BY <2>1, <2>2, FencedBucket
  <2>4. fenced' \in BOOLEAN
    BY <1>5 DEF AwaitPoll, check_fencing
  <2> QED BY <1>5, <2>1, <2>3, <2>4, EarlyStep DEF AwaitPoll, BeforeT0, NoCall
<1>6. CASE AwaitMissed
  <2>1. pc = "awaiting" /\ bucket.parked
    BY <1>6 DEF AwaitMissed, AgentInv, Early, BeforeT0
  <2>2. CASE ack > DeadMan
    BY <1>6, <2>2, QuietShutdown, ReasonsKnown DEF AwaitMissed
  <2>3. CASE ~(ack > DeadMan)
    BY <1>6, <2>1, <2>3, EarlyStep DEF AwaitMissed, BeforeT0, NoCall
  <2> QED BY <2>2, <2>3
<1> QED BY <1>1, <1>2, <1>3, <1>4, <1>5, <1>6

LEMMA AwaitReplyInv ==
    ASSUME AgentInv, NEW cmd, AwaitReply(cmd)
    PROVE  AgentInv'
<1> USE Types
<1>1. /\ pc = "awaiting" /\ bucket.parked /\ engine.quiet = 0 /\ ~held
      /\ engine.state # "off" => slice.gated
  BY DEF AwaitReply, AgentInv, Early, BeforeT0
<1>2. /\ ack' = 0 /\ call' = NoCall
      /\ UNCHANGED <<slice, bucket, fenced, held, engine, auth>>
  BY DEF AwaitReply
<1>3. CASE cmd = "release"
  <2>1. pc' = "waiting" /\ timer' \in 0 .. Delay /\ drain' = drain
    BY <1>3 DEF AwaitReply
  <2>2. TypeOK'
    BY <1>2, <2>1 DEF AgentInv, TypeOK, Phases, NoCall, Greatest
  <2>3. TimersOK'
    BY <1>2, <2>1 DEF TimersOK, CallLimit, DrainPhases, NoCall
  <2>4. Early' /\ Closed'
    BY <1>1, <1>2, <2>1 DEF Early, Closed, BeforeT0, Generating
  <2>5. Timed'
    <3>1. \A t \in 0 .. Delay : \A c, b : Timing("waiting", 0, c, t, b)
      BY DEF Timing, Generating
    <3> QED BY <1>2, <2>1, <3>1 DEF Timed
  <2> QED BY <2>2, <2>3, <2>4, <2>5 DEF AgentInv
<1>4. CASE cmd = "drain"
  <2>1. /\ pc' = "draining" /\ timer' = Budget /\ drain' \in Reasons
    BY <1>4, ReasonsKnown DEF AwaitReply, Shutdown, request_drain
  <2>2. TypeOK'
    BY <1>2, <2>1 DEF AgentInv, TypeOK, Phases, DrainPhases, NoCall, Greatest
  <2>3. TimersOK'
    BY <1>2, <2>1 DEF TimersOK, CallLimit, DrainPhases, NoCall
  <2>4. Early' /\ Closed' /\ Timed'
    BY <1>1, <1>2, <2>1 DEF Early, Closed, Timed, Timing, BeforeT0, Generating
  <2> QED BY <2>2, <2>3, <2>4 DEF AgentInv
<1>5. CASE cmd \notin {"release", "drain"}
  <2>1. pc' = pc /\ timer' = Interval /\ drain' = drain
    BY <1>5 DEF AwaitReply
  <2> QED BY <1>1, <1>2, <2>1, EarlyStep DEF BeforeT0, NoCall
<1> QED BY <1>3, <1>4, <1>5

(* T0: the bucket is unparked.                                             *)
LEMMA StartInv ==
    ASSUME AgentInv, NEW behind \in 0 .. Catchup, NEW ok \in BOOLEAN, Start(behind, ok)
    PROVE  AgentInv'
<1> USE Types
<1>1. /\ pc = "waiting" /\ timer = 0 /\ engine.quiet = 0 /\ ~held /\ call = NoCall
      /\ ack <= Delay
  BY DEF Start, AgentInv, Early, BeforeT0, TimersOK, Timed, Timing
<1>2. bucket' \in BucketRow /\ UNCHANGED <<slice, ack, fenced, held, auth>>
  BY DEF Start, BucketRow
<1>3. CASE ok \/ engine.state # "off"
  <2>1. pc' = "starting" /\ timer' = Interval /\ UNCHANGED <<call, drain>>
    BY <1>3 DEF Start
  <2>2. engine' \in EngineRow /\ engine'.quiet = 0
    BY <1>1, <1>3 DEF Start, EngineRow
  <2>3. TypeOK'
    BY <1>2, <2>1, <2>2 DEF AgentInv, TypeOK, BucketRow, Phases, Generating
  <2>4. TimersOK'
    BY <1>1, <2>1 DEF TimersOK, CallLimit, DrainPhases, NoCall
  <2>5. Early' /\ Closed' /\ Timed'
    BY <1>1, <1>2, <2>1, <2>2 DEF Early, Closed, Timed, Timing, BeforeT0, Generating
  <2> QED BY <2>3, <2>4, <2>5 DEF AgentInv
<1>4. CASE ~(ok \/ engine.state # "off")
  BY <1>1, <1>2, <1>4, ShutdownInv, ReasonsKnown DEF Start
<1> QED BY <1>3, <1>4
-----------------------------------------------------------------------------
(* The loop.  A watchdog restart that follows a retarget adds to its wait, *)
(* and stays within the bound when one restart fits the fence.             *)
RestartFits == RestartWait <= Fence + Longest

LEMMA LongestNat == Longest \in Nat /\ MaxCall <= Longest /\ Interval <= Longest
BY DEF Longest, Greatest

USE LongestNat

LEMMA LoopFacts ==
    ASSUME AgentInv, pc \in Generating
    PROVE  /\ timer \in Nat /\ timer <= Interval
           /\ call <= CallLimit /\ call >= NoCall
           /\ held => bucket.paused
           /\ pc # "starting" => (fenced => bucket.paused)
           /\ pc = "starting" => ack <= Fence /\ timer = Interval /\ engine.quiet = 0
                                 /\ call = NoCall
BY Types DEF AgentInv, TypeOK, TimersOK, Closed, Early, Timed, Timing, Generating, DrainPhases,
             NoCall

LEMMA RestInv ==
    ASSUME AgentInv, pc \in {"starting", "looping", "restarting"},
           NEW e \in EngineRow, Rest(e)
    PROVE  AgentInv'
<1> USE Types
<1>1. pc \in Generating
  BY DEF Generating
<1>2. UNCHANGED <<slice, ack, held, auth>> /\ engine' = e
  BY DEF Rest
<1>3. CASE auth \/ ack > DeadMan
  <2> DEFINE reason == IF auth THEN "hec-auth-failed" ELSE "dead-man"
  <2>1. Shutdown(reason) /\ UNCHANGED <<bucket, fenced>>
    BY <1>3 DEF Rest
  <2>2. reason \in Reasons
    BY ReasonsKnown
  <2> QED BY <1>1, <1>2, <2>1, <2>2, LoopFacts, ShutdownInv
<1>4. CASE ~(auth \/ ack > DeadMan)
  <2>1. /\ bucket' = bucket_fenced(ack) /\ pc' = "looping" /\ drain' = drain
        /\ call' = IF timer = 0 THEN 0 ELSE NoCall
        /\ timer' = IF timer = 0 THEN Interval ELSE timer
    BY <1>4 DEF Rest, check_fencing
  <2>2. fenced' \in BOOLEAN /\ (fenced' => ack > Fence)
    BY <1>4 DEF Rest, check_fencing
  <2>3. /\ bucket' \in BucketRow /\ (held => bucket'.paused)
        /\ ack > Fence => bucket'.paused
    BY <1>1, <2>1, FencedBucket, LoopFacts
  <2>4. timer \in Nat /\ timer <= Interval
    BY <1>1, LoopFacts
  <2>5. TypeOK'
    BY <1>2, <2>1, <2>2, <2>3, <2>4 DEF AgentInv, TypeOK, BucketRow, Phases, Generating,
                                        NoCall, Greatest
  <2>6. TimersOK'
    BY <2>1, <2>4 DEF TimersOK, CallLimit, DrainPhases, NoCall
  <2>7. Early' /\ Closed'
    BY <1>2, <2>1, <2>2, <2>3 DEF Early, Closed, BeforeT0, Generating
  <2>8. Timed'
    <3> DEFINE c == IF timer = 0 THEN 0 ELSE NoCall
               t == IF timer = 0 THEN Interval ELSE timer
    <3>1. ASSUME NEW b, ack > Fence => b
          PROVE  Timing("looping", ack, c, t, b)
      BY <2>4, <3>1 DEF Timing, NoCall, Generating
    <3> QED BY <1>2, <2>1, <2>3, <3>1 DEF Timed
  <2> QED BY <2>5, <2>6, <2>7, <2>8 DEF AgentInv
<1> QED BY <1>3, <1>4

LEMMA LoopShutdowns ==
    ASSUME AgentInv, Interrupted \/ Superseded \/ DurationComplete \/ EngineGone \/ StallDrains
    PROVE  AgentInv'
BY Types, QuietShutdown, ReasonsKnown
   DEF Interrupted, Superseded, DurationComplete, EngineGone, StallDrains

LEMMA FedRow ==
    ASSUME NEW e \in EngineRow
    PROVE  /\ Fed(e) \in EngineRow /\ [e EXCEPT !.state = "up"] \in EngineRow
           /\ [Fed(e) EXCEPT !.state = "up"] \in EngineRow
<1>1. Fed(e) \in EngineRow
  <2>1. 0 \in 0 .. ZeroOut
    OBVIOUS
  <2> DEFINE q == 0
             f == FALSE
  <2>2. f \in BOOLEAN /\ q \in 0 .. ZeroOut /\ Fed(e) = [e EXCEPT !.quiet = q, !.moved = f]
    BY <2>1 DEF Fed
  <2> HIDE DEF q, f
  <2> QED BY <2>2 DEF EngineRow
<1>2. \A f \in EngineRow : [f EXCEPT !.state = "up"] \in EngineRow
  BY DEF EngineRow
<1> QED BY <1>1, <1>2

LEMMA PassInv ==
    ASSUME AgentInv, Pass \/ (\E ok \in BOOLEAN : Restarted(ok))
    PROVE  AgentInv'
<1> USE Types
<1>1. CASE Pass
  <2> DEFINE e == IF held \/ engine.moved THEN Fed(engine) ELSE engine
  <2>1. e \in EngineRow /\ pc \in {"starting", "looping"} /\ Rest(e)
    BY <1>1, FedRow DEF Pass, Due
  <2> QED BY <2>1, RestInv
<1>2. ASSUME NEW ok \in BOOLEAN, Restarted(ok)
      PROVE  AgentInv'
  <2>1. CASE ok
    BY <1>2, <2>1, FedRow, RestInv DEF Restarted
  <2>2. CASE ~ok
    BY <1>2, <2>2, QuietShutdown, ReasonsKnown DEF Restarted
  <2> QED BY <2>1, <2>2
<1> QED BY <1>1, <1>2

(* The watchdog finds a stall only where it has counted, after "starting". *)
LEMMA StallInv ==
    ASSUME AgentInv, StallRestarts
    PROVE  AgentInv'
<1> USE Types
<1>1. /\ pc \in {"starting", "looping"} /\ call = NoCall /\ ZeroOut > 0
      /\ engine.quiet >= ZeroOut /\ ~(engine.restarts >= MaxRestarts)
      /\ pc = "looping" => timer = 0
  BY DEF StallRestarts, Due, Stalled, Watched, LastRestart
<1>2. pc = "looping" /\ timer = 0 /\ call = NoCall
  BY <1>1, LoopFacts DEF Generating
<1>3. /\ pc' = "restarting" /\ call' = 0
      /\ UNCHANGED <<slice, ack, timer, bucket, fenced, held, auth, drain>>
  BY DEF StallRestarts
<1>4. engine' \in EngineRow
  BY <1>1 DEF StallRestarts, EngineRow
<1>5. /\ held => bucket.paused
      /\ fenced => bucket.paused
      /\ ~bucket.paused => ack <= Fence + Longest
  BY <1>2 DEF AgentInv, Closed, Timed, Timing, Generating
<1>6. TypeOK'
  BY <1>3, <1>4 DEF AgentInv, TypeOK, Phases, Generating, NoCall, Greatest
<1>7. TimersOK'
  BY <1>2, <1>3 DEF TimersOK, CallLimit, DrainPhases, NoCall
<1>8. Early' /\ Closed'
  BY <1>3, <1>5 DEF Early, Closed, BeforeT0, Generating
<1>9. Timing("restarting", ack, 0, timer, bucket.paused)
  BY <1>2, <1>5 DEF Timing, Generating
<1>10. Timed'
  BY <1>3, <1>9 DEF Timed
<1> QED BY <1>6, <1>7, <1>8, <1>10 DEF AgentInv

LEMMA MissedInv ==
    ASSUME AgentInv, Missed
    PROVE  AgentInv'
<1> USE Types
<1>1. /\ pc = "looping" /\ call # NoCall /\ call' = NoCall
      /\ UNCHANGED <<slice, pc, ack, timer, bucket, fenced, held, engine, auth, drain>>
  BY DEF Missed
<1>2. timer \in Nat /\ timer <= Interval /\ call <= MaxCall /\ call \in Nat
  BY <1>1, LoopFacts DEF Generating, CallLimit, NoCall
<1>3. ~bucket.paused => ack <= Fence + call /\ (timer > 0 => timer + call <= Interval)
  BY <1>1 DEF AgentInv, Timed, Timing
<1>4. Timing("looping", ack, NoCall, timer, bucket.paused)
  BY <1>2, <1>3 DEF Timing, Generating
<1>5. Timed'
  BY <1>1, <1>4 DEF Timed
<1>6. TypeOK'
  BY <1>1 DEF AgentInv, TypeOK, NoCall, Greatest
<1>7. TimersOK'
  BY <1>1, <1>2 DEF TimersOK, CallLimit, DrainPhases, NoCall
<1>8. Early' /\ Closed'
  BY <1>1 DEF AgentInv, Early, Closed, BeforeT0, Generating
<1> QED BY <1>5, <1>6, <1>7, <1>8 DEF AgentInv

(* The bucket after a reply: closed under a hold.                          *)
LEMMA ReplyBucket ==
    ASSUME AgentInv, NEW cmd, NEW inplace, Reply(cmd, inplace)
    PROVE  /\ bucket' \in BucketRow /\ held' \in BOOLEAN
           /\ held' => bucket'.paused
           /\ held /\ ~held' => bucket'.lag = 0
<1> USE Types
<1> DEFINE b == bucket_fenced(0)
<1>1. b \in BucketRow /\ (held /\ bucket.paused => b.paused)
  BY FencedBucket
<1>2. held => bucket.paused
  BY DEF AgentInv, Closed
<1>3. held' \in BOOLEAN /\ (held' => cmd = "pause" \/ held)
  BY DEF Reply
<1>4. bucket' = IF cmd = "pause" /\ ~held THEN [b EXCEPT !.paused = TRUE]
                ELSE IF held /\ ~held' THEN [b EXCEPT !.paused = FALSE, !.lag = 0]
                ELSE b
  BY DEF Reply, operator_resume
<1>5. cmd = "pause" => held'
  BY DEF Reply
<1> HIDE DEF b
<1>6. CASE cmd = "pause" /\ ~held
  BY <1>1, <1>3, <1>4, <1>6 DEF BucketRow
<1>7. CASE held /\ ~held'
  <2>1. bucket' = [b EXCEPT !.paused = FALSE, !.lag = 0]
    BY <1>4, <1>7
  <2> DEFINE f == FALSE
             z == 0
  <2>a. f \in BOOLEAN /\ z \in 0 .. Catchup /\ bucket' = [b EXCEPT !.paused = f, !.lag = z]
    BY <2>1
  <2> HIDE DEF f, z
  <2>b. bucket' \in BucketRow /\ bucket'.lag = z
    BY <1>1, <2>a DEF BucketRow
  <2>2. bucket' \in BucketRow /\ bucket'.lag = 0
    BY <2>b DEF z
  <2> QED BY <1>3, <1>7, <2>2
<1>8. CASE ~(cmd = "pause" /\ ~held) /\ ~(held /\ ~held')
  BY <1>1, <1>2, <1>3, <1>4, <1>8
<1> QED BY <1>6, <1>7, <1>8

LEMMA ReplyInv ==
    ASSUME AgentInv, NEW cmd, NEW inplace \in BOOLEAN, Reply(cmd, inplace)
    PROVE  AgentInv'
<1> USE Types
<1>1. /\ pc = "looping" /\ ack' = 0 /\ fenced' = FALSE /\ UNCHANGED <<slice, timer, engine, auth>>
      /\ \/ pc' = "retargeting" /\ call' = 0
         \/ pc' = "looping" /\ call' = NoCall
  BY DEF Reply
<1>2. drain' \in Reasons
  BY ReasonsKnown DEF Reply, request_drain
<1>3. bucket' \in BucketRow /\ held' \in BOOLEAN /\ (held' => bucket'.paused)
  BY ReplyBucket
<1>4. timer \in Nat /\ timer <= Interval
  BY <1>1, LoopFacts DEF Generating
<1>5. TypeOK'
  <2>1. fenced' \in BOOLEAN
    BY <1>1
  <2> QED BY <1>1, <1>2, <1>3, <2>1 DEF AgentInv, TypeOK, BucketRow, Phases, Generating,
                                       NoCall, Greatest
<1>6. TimersOK'
  BY <1>1, <1>4 DEF TimersOK, CallLimit, DrainPhases, NoCall
<1>7. Early' /\ Closed'
  BY <1>1, <1>3 DEF Early, Closed, BeforeT0, Generating
<1>8. Timed'
  <2>1. ASSUME NEW b
        PROVE  /\ Timing("retargeting", 0, 0, timer, b)
               /\ Timing("looping", 0, NoCall, timer, b)
    BY <1>4 DEF Timing, NoCall, Generating
  <2> QED BY <1>1, <2>1 DEF Timed
<1> QED BY <1>5, <1>6, <1>7, <1>8 DEF AgentInv

LEMMA RetargetedInv ==
    ASSUME AgentInv, RestartFits, NEW ok \in BOOLEAN, Retargeted(ok)
    PROVE  AgentInv'
<1> USE Types
<1>1. pc = "retargeting" /\ UNCHANGED <<slice, ack, bucket, fenced, held, auth>>
  BY DEF Retargeted
<1>2. CASE ok
  <2>1. pc' = "looping" /\ call' = NoCall /\ UNCHANGED <<timer, drain>>
    BY <1>2 DEF Retargeted
  <2>2. engine' \in EngineRow
    BY <1>2, FedRow DEF Retargeted
  <2>3. /\ timer \in Nat /\ timer <= Interval /\ call <= RestartWait
        /\ ack <= call /\ (timer > 0 => timer + call <= Interval)
    BY <1>1, LoopFacts DEF AgentInv, Timed, Timing, Generating, CallLimit
  <2>4. Timing("looping", ack, NoCall, timer, bucket.paused)
    BY <2>3 DEF Timing, Generating, RestartFits
  <2>5. Timed'
    BY <1>1, <2>1, <2>4 DEF Timed
  <2>6. TypeOK'
    BY <1>1, <2>1, <2>2 DEF AgentInv, TypeOK, Phases, Generating, NoCall, Greatest
  <2>7. TimersOK'
    BY <2>1, <2>3 DEF TimersOK, CallLimit, DrainPhases, NoCall
  <2>8. Early' /\ Closed'
    BY <1>1, <2>1 DEF AgentInv, Early, Closed, BeforeT0, Generating
  <2> QED BY <2>5, <2>6, <2>7, <2>8 DEF AgentInv
<1>3. CASE ~ok
  BY <1>1, <1>3, QuietShutdown, ReasonsKnown DEF Retargeted
<1> QED BY <1>2, <1>3

-----------------------------------------------------------------------------
(* The drain, the environment and the clock.                               *)

LEMMA DrainInv ==
    ASSUME AgentInv, Drain
    PROVE  AgentInv'
<1> USE Types
<1>1. /\ pc \in DrainPhases /\ pc' \in DrainPhases /\ timer' \in Int /\ engine' \in EngineRow
      /\ UNCHANGED <<slice, ack, call, bucket, fenced, held, auth, drain>>
  BY DEF Drain, DrainSocket, DrainEngine, DrainFlush, DrainReport, DrainPhases, EngineRow
<1>2. TypeOK'
  BY <1>1 DEF AgentInv, TypeOK, Phases
<1>3. TimersOK'
  BY <1>1 DEF AgentInv, TimersOK, CallLimit, DrainPhases, NoCall
<1>4. Early' /\ Closed' /\ Timed'
  BY <1>1 DEF AgentInv, Early, Closed, Timed, Timing, BeforeT0, Generating, DrainPhases
<1> QED BY <1>2, <1>3, <1>4 DEF AgentInv

LEMMA EnvironmentInv ==
    ASSUME AgentInv, Environment
    PROVE  AgentInv'
<1> USE Types
<1>1. /\ UNCHANGED <<slice, pc, ack, call, timer, bucket, fenced, held>>
      /\ drain' \in Reasons /\ auth' \in BOOLEAN
  BY ReasonsKnown DEF Environment, Sigterm, EngineExits, HecAuthFails, request_drain
<1>2. /\ engine' \in EngineRow /\ engine'.quiet = engine.quiet
      /\ engine'.state # "off" => engine.state # "off"
  BY DEF Environment, Sigterm, EngineExits, HecAuthFails, EngineRow
<1>3. TypeOK'
  BY <1>1, <1>2 DEF AgentInv, TypeOK
<1>4. TimersOK' /\ Timed'
  BY <1>1 DEF AgentInv, TimersOK, CallLimit, Timed
<1>5. Early' /\ Closed'
  BY <1>1, <1>2 DEF AgentInv, Early, Closed
<1> QED BY <1>3, <1>4, <1>5 DEF AgentInv

(* A unit of time adds one to the age of the acknowledgement and to the    *)
(* call, and takes one from the timer.                                     *)
LEMMA TickTiming ==
    ASSUME AgentInv, ~Busy
    PROVE  Timing(pc, Least(ack + 1, DeadMan + 1), IF call = NoCall THEN NoCall ELSE call + 1,
                  Greatest(timer - 1, 0), bucket.paused)
<1> USE Types
<1> DEFINE a == Least(ack + 1, DeadMan + 1)
           c == IF call = NoCall THEN NoCall ELSE call + 1
           t == Greatest(timer - 1, 0)
<1> SUFFICES Timing(pc, a, c, t, bucket.paused)
  OBVIOUS
<1>1. a \in Nat /\ a <= ack + 1
  BY DEF Least
<1>2. pc \notin DrainPhases /\ pc # "starting"
  BY DEF Busy
<1>3. timer \in Nat /\ call \in Int /\ call >= NoCall
  BY <1>2 DEF AgentInv, TypeOK, TimersOK, NoCall
<1>4. t \in Nat /\ t <= timer /\ (timer > 0 => t = timer - 1)
  BY <1>3 DEF Greatest
<1>5. c \in Int /\ (call # NoCall => c = call + 1 /\ c # NoCall) /\ (call = NoCall => c = NoCall)
  BY <1>3 DEF NoCall
<1>6. Timing(pc, ack, call, timer, bucket.paused)
  BY DEF AgentInv, Timed
<1>7. /\ pc = "waiting" => timer > 0
      /\ pc = "looping" /\ call = NoCall => timer > 0
  BY <1>3 DEF Busy
<1>8. NoCall \notin Nat
  BY DEF NoCall
<1> HIDE DEF a, c, t
<1>9. CASE pc = "waiting"
  BY <1>1, <1>3, <1>4, <1>6, <1>7, <1>9 DEF Timing, Generating
<1>10. CASE pc = "looping" /\ call # NoCall
  <2>1. timer <= Interval
    BY <1>6, <1>10 DEF Timing, Generating
  <2>2. ~bucket.paused => a <= Fence + c /\ (t > 0 => t + c <= Interval)
    BY <1>1, <1>3, <1>4, <1>5, <1>6, <1>10 DEF Timing
  <2> QED BY <1>1, <1>3, <1>4, <1>5, <1>10, <2>1, <2>2 DEF Timing, Generating
<1>11. CASE pc = "looping" /\ call = NoCall
  <2>1. timer <= Interval /\ (~bucket.paused => ack <= Fence + (Interval - timer))
    BY <1>3, <1>6, <1>7, <1>11 DEF Timing, Generating
  <2>2. ~bucket.paused => a <= Fence + (IF t > 0 THEN Interval - t ELSE Longest)
    BY <1>1, <1>3, <1>4, <1>7, <1>11, <2>1
  <2> QED BY <1>4, <1>5, <1>11, <2>1, <2>2, <1>3 DEF Timing, Generating
<1>12. CASE pc \in {"restarting", "retargeting"}
  <2>1. call \in Nat /\ c = call + 1
    BY <1>5, <1>6, <1>8, <1>12 DEF Timing
  <2>2. timer <= Interval
    BY <1>6, <1>12 DEF Timing, Generating
  <2> QED BY <1>1, <1>3, <1>4, <1>6, <1>12, <2>1, <2>2 DEF Timing, Generating
<1>13. CASE pc \notin {"waiting", "looping", "restarting", "retargeting"}
  BY <1>2, <1>13 DEF Timing, Generating
<1> QED BY <1>9, <1>10, <1>11, <1>12, <1>13

LEMMA TickInv ==
    ASSUME AgentInv, NEW feeds \in Feeds, Tick(feeds)
    PROVE  AgentInv'
<1> USE Types
<1>1. /\ ~Busy /\ ack' = Least(ack + 1, DeadMan + 1)
      /\ call' = IF call = NoCall THEN NoCall ELSE call + 1
      /\ timer' = Greatest(timer - 1, 0)
      /\ UNCHANGED <<slice, pc, fenced, held, auth, drain>>
  BY DEF Tick
<1>2. pc \notin DrainPhases /\ pc # "starting" /\ call # CallLimit
  BY <1>1 DEF Busy
<1>3. timer \in Nat /\ call <= CallLimit /\ call >= NoCall /\ CallLimit \in Nat
  BY <1>2 DEF AgentInv, TypeOK, TimersOK, NoCall, CallLimit
<1>4. bucket' \in BucketRow /\ bucket'.paused = bucket.paused /\ bucket'.parked = bucket.parked
  <2> DEFINE l == IF bucket.parked \/ (feeds /\ Flowing /\ engine.state = "up") THEN 0
                  ELSE Least(bucket.lag + 1, Catchup)
  <2>1. bucket' = [bucket EXCEPT !.lag = l]
    BY DEF Tick
  <2>2. bucket.lag \in 0 .. Catchup
    BY DEF BucketRow
  <2>3. l \in 0 .. Catchup
    BY <2>2 DEF Least
  <2> HIDE DEF l
  <2> QED BY <2>1, <2>3 DEF BucketRow
<1>5. /\ engine' \in EngineRow /\ engine'.state = engine.state
      /\ pc \notin Generating => engine' = engine
  <2> DEFINE m == engine.moved \/ (feeds /\ Flowing /\ engine.state = "up")
             q == Least(engine.quiet + 1, ZeroOut)
  <2>1. engine' = IF Watched /\ pc \in Generating
                    THEN [engine EXCEPT !.moved = m, !.quiet = q] ELSE engine
    BY DEF Tick
  <2>2. m \in BOOLEAN
    OBVIOUS
  <2>3. engine.quiet \in 0 .. ZeroOut
    BY DEF EngineRow
  <2>4. q \in 0 .. ZeroOut
    BY <2>3 DEF Least
  <2> HIDE DEF m, q
  <2> QED BY <2>1, <2>2, <2>4 DEF EngineRow
<1>6. ack' \in 0 .. DeadMan + 1 /\ timer' \in Nat
  BY <1>1, <1>3 DEF Least, Greatest
<1>7. call' \in Int /\ call' <= CallLimit /\ call' >= NoCall /\ (call = NoCall => call' = NoCall)
  BY <1>1, <1>2, <1>3 DEF NoCall
<1>8. CallLimit <= Greatest(MaxCall, RestartWait)
  BY DEF CallLimit, Greatest
<1>9. TypeOK'
  <2>1. call' \in NoCall .. Greatest(MaxCall, RestartWait)
    BY <1>3, <1>7, <1>8 DEF NoCall, Greatest
  <2> QED BY <1>1, <1>4, <1>5, <1>6, <2>1 DEF AgentInv, TypeOK, BucketRow
<1>10. TimersOK'
  BY <1>1, <1>6, <1>7 DEF AgentInv, TimersOK, CallLimit
<1>11. Early' /\ Closed'
  BY <1>1, <1>2, <1>4, <1>5 DEF AgentInv, Early, Closed, BeforeT0, Generating
<1>12. Timed'
  BY <1>1, <1>4, TickTiming DEF Timed
<1> QED BY <1>9, <1>10, <1>11, <1>12 DEF AgentInv

LEMMA StepInv ==
    ASSUME RestartFits, AgentInv, [Next]_vars
    PROVE  AgentInv'
<1>1. CASE Startup
  <2>1. CASE \E cmd \in Commands : AwaitReply(cmd)
    BY <2>1, AwaitReplyInv
  <2>2. CASE \E behind \in 0 .. Catchup, ok \in BOOLEAN : Start(behind, ok)
    BY <2>2, StartInv
  <2> QED BY <1>1, <2>1, <2>2, StartupInv DEF Startup
<1>2. CASE Loop
  <2>1. CASE \E cmd \in Commands, inplace \in BOOLEAN : Reply(cmd, inplace)
    BY <2>1, ReplyInv
  <2>2. CASE \E ok \in BOOLEAN : Restarted(ok) \/ Retargeted(ok)
    BY <2>2, PassInv, RetargetedInv
  <2> QED BY <1>2, <2>1, <2>2, LoopShutdowns, StallInv, PassInv, MissedInv DEF Loop
<1>3. CASE Drain
  BY <1>3, DrainInv
<1>4. CASE Clock
  BY <1>4, TickInv DEF Clock
<1>5. CASE Environment
  BY <1>5, EnvironmentInv
<1>6. CASE UNCHANGED vars
  BY <1>6 DEF vars, AgentInv, TypeOK, TimersOK, CallLimit, Early, Closed, Timed
<1> QED BY <1>1, <1>2, <1>3, <1>4, <1>5, <1>6 DEF Next, Thread

-----------------------------------------------------------------------------
(* What is left of the budget at each stage of the drain.                  *)
BudgetFits == SockJoin + EngineGrace + KillWait <= Budget

Spending(p, t) ==
    /\ p = "draining" => t = Budget
    /\ p = "stopping" => t >= Budget - SockJoin
    /\ p = "flushing" => t >= 0
    /\ p = "reporting" => t >= -AbortJoin
    /\ p = "exited" => t >= -Greatest(AbortJoin, FinalSleep)

Spent == Spending(pc, timer)

(* Only _shutdown enters the drain, and only its stages go on from there.  *)
LEMMA EntersDrain ==
    ASSUME Next, ~Drain
    PROVE  \/ pc' = "draining" /\ timer' = Budget
           \/ pc' \notin DrainPhases
           \/ UNCHANGED <<pc, timer>>
<1>1. CASE Startup
  BY <1>1 DEF Startup, Claim, Prepare, SetupFails, Ready, GivesUp, AwaitPoll, AwaitMissed,
              AwaitReply, Start, Shutdown, DrainPhases
<1>2. CASE Loop
  BY <1>2 DEF Loop, Interrupted, Superseded, DurationComplete, EngineGone, StallDrains,
              StallRestarts, Pass, Missed, Restarted, Retargeted, Reply, Rest, Shutdown,
              DrainPhases
<1>3. CASE Clock
  BY <1>3 DEF Clock, Tick, Busy
<1>4. CASE Environment
  BY <1>4 DEF Environment, Sigterm, EngineExits, HecAuthFails
<1> QED BY <1>1, <1>2, <1>3, <1>4 DEF Next, Thread

LEMMA DrainSpends ==
    ASSUME BudgetFits, AgentInv, Spent, Drain
    PROVE  Spent'
<1> USE Types
<1>1. Spending(pc, timer) /\ timer \in Int
  BY DEF Spent
<1>2. ASSUME NEW spent \in 0 .. SockJoin, DrainSocket(spent)
      PROVE  Spent'
  <2>1. Spending("stopping", timer - spent)
    BY <1>1, <1>2 DEF DrainSocket, Spending
  <2> QED BY <1>2, <2>1 DEF DrainSocket, Spent
<1>3. ASSUME NEW spent \in 0 .. EngineGrace + KillWait, DrainEngine(spent)
      PROVE  Spent'
  <2>1. Spending("flushing", timer - spent)
    BY <1>1, <1>3 DEF DrainEngine, Spending, BudgetFits
  <2> QED BY <1>3, <2>1 DEF DrainEngine, Spent
<1>4. ASSUME NEW spent \in 0 .. Flush + AbortJoin, DrainFlush(spent)
      PROVE  Spent'
  <2>1. timer >= 0 /\ spent <= flush_limit + AbortJoin
    BY <1>1, <1>4 DEF DrainFlush, Spending
  <2>2. flush_limit \in Int /\ flush_limit <= timer
    BY <1>1, <2>1 DEF flush_limit, Least, Left, Greatest
  <2>3. Spending("reporting", timer - spent)
    BY <1>1, <2>1, <2>2 DEF Spending
  <2> QED BY <1>4, <2>3 DEF DrainFlush, Spent
<1>5. ASSUME NEW spent \in 0 .. Budget + FinalSleep, DrainReport(spent)
      PROVE  Spent'
  <2>1. timer >= -AbortJoin /\ spent <= IF timer <= 0 THEN 0 ELSE timer + FinalSleep
    BY <1>1, <1>5 DEF DrainReport, Spending
  <2>2. timer - spent >= -AbortJoin \/ timer - spent >= -FinalSleep
    BY <1>1, <2>1
  <2>3. Spending("exited", timer - spent)
    BY <1>1, <2>2 DEF Spending, Greatest
  <2> QED BY <1>5, <2>3 DEF DrainReport, Spent
<1> QED BY <1>2, <1>3, <1>4, <1>5 DEF Drain

LEMMA SpentStep ==
    ASSUME BudgetFits, AgentInv, Spent, [Next]_vars
    PROVE  Spent'
<1>1. CASE Drain
  BY <1>1, DrainSpends
<1>2. CASE Next /\ ~Drain
  <2>1. Spending("draining", Budget)
    BY DEF Spending
  <2>2. ASSUME NEW p, NEW t, p \notin DrainPhases PROVE Spending(p, t)
    BY <2>2 DEF Spending, DrainPhases
  <2> QED BY <1>2, <2>1, <2>2, EntersDrain DEF Spent
<1>3. CASE UNCHANGED vars
  BY <1>3 DEF vars, Spent
<1> QED BY <1>1, <1>2, <1>3

-----------------------------------------------------------------------------
(* The results.  RestartFits and BudgetFits are what they ask of the       *)
(* timeouts: an engine restart shorter than the fence and a missed         *)
(* heartbeat, and a budget that covers the waits before the flush.         *)

(* AgentInv is an invariant of the agent.                                  *)
THEOREM AgentInvariant ==
    ASSUME RestartFits
    PROVE  Spec => []AgentInv
<1>1. Init => AgentInv
  BY InitAgent
<1>2. AgentInv /\ [Next]_vars => AgentInv'
  BY StepInv
<1> QED BY <1>1, <1>2, PTL DEF Spec

(* Nothing flows before T0, whatever fences open the bucket while the      *)
(* worker awaits its release: _prepare parks the anchor, only a gated      *)
(* engine is warmed, and only _start_generation unparks.                   *)
THEOREM SilentUntilT0 ==
    ASSUME RestartFits
    PROVE  Spec => []NothingBeforeT0
<1>1. AgentInv => NothingBeforeT0
  BY DEF AgentInv, TypeOK, Early, NothingBeforeT0, Flowing, Phases, BeforeT0
<1> QED BY <1>1, AgentInvariant, PTL

(* The operator's pause closes the bucket through every fence, and a gated *)
(* worker that has lost the control plane stops sending within the fence,  *)
(* one heartbeat call or interval, and one engine restart.                 *)
THEOREM HoldsAreKept ==
    ASSUME RestartFits
    PROVE  Spec => []HoldsKept
<1>1. ASSUME AgentInv PROVE HoldsKept
  <2> USE <1>1, Types
  <2>1. HeldStaysHeld
    BY DEF AgentInv, Closed, HeldStaysHeld
  <2>2. FenceBound
    <3> SUFFICES ASSUME Flowing, slice.gated
                 PROVE  ack <= Fence + Longest + RestartWait
      BY DEF FenceBound, Longest
    <3>1. ~bucket.paused /\ ~bucket.parked /\ pc \notin DrainPhases
      BY DEF Flowing
    <3>2. pc \in Generating
      BY <3>1 DEF AgentInv, TypeOK, Early, Phases, BeforeT0
    <3>3. call <= CallLimit /\ timer \in Nat
      BY <3>1 DEF AgentInv, TimersOK
    <3>4. Timing(pc, ack, call, timer, bucket.paused)
      BY DEF AgentInv, Timed
    <3>5. CASE pc \in {"starting", "looping"}
      BY <3>1, <3>3, <3>4, <3>5 DEF Timing, CallLimit
    <3>6. CASE pc \in {"restarting", "retargeting"}
      BY <3>1, <3>3, <3>4, <3>6 DEF Timing, CallLimit
    <3> QED BY <3>2, <3>5, <3>6 DEF Generating
  <2> QED BY <2>1, <2>2 DEF HoldsKept
<1> QED BY <1>1, AgentInvariant, PTL

(* _operator_resume: whichever reply ends a hold, the bucket is anchored   *)
(* anew, so the time it was held is not owed.                              *)
THEOREM HoldIsNotOwed ==
    ASSUME RestartFits
    PROVE  Spec => NoReplayAfterPause
<1>1. ASSUME AgentInv, [Next]_vars
      PROVE  held /\ ~held' /\ ~bucket'.paused => bucket'.lag = 0
  <2> USE <1>1
  <2>1. CASE Startup
    BY <2>1 DEF Startup, Claim, Prepare, SetupFails, Ready, GivesUp, AwaitPoll, AwaitMissed,
                AwaitReply, Start
  <2>2. CASE \E cmd \in Commands, inplace \in BOOLEAN : Reply(cmd, inplace)
    BY <2>2, ReplyBucket
  <2>3. CASE Loop /\ ~(\E cmd \in Commands, inplace \in BOOLEAN : Reply(cmd, inplace))
    BY <2>3 DEF Loop, Interrupted, Superseded, DurationComplete, EngineGone, StallDrains,
                StallRestarts, Pass, Missed, Restarted, Retargeted, Rest
  <2>4. CASE Drain
    BY <2>4 DEF Drain, DrainSocket, DrainEngine, DrainFlush, DrainReport
  <2>5. CASE Clock
    BY <2>5 DEF Clock, Tick
  <2>6. CASE Environment
    BY <2>6 DEF Environment, Sigterm, EngineExits, HecAuthFails
  <2>7. CASE UNCHANGED vars
    BY <2>7 DEF vars
  <2> QED BY <2>1, <2>2, <2>3, <2>4, <2>5, <2>6, <2>7 DEF Next, Thread
<1>2. AgentInv /\ [Next]_vars => [held /\ ~held' /\ ~bucket'.paused => bucket'.lag = 0]_vars
  BY <1>1
<1> QED BY <1>2, AgentInvariant, PTL DEF Spec, NoReplayAfterPause

(* _shutdown: the stages of the drain together overrun the budget by no    *)
(* more than the last join of the senders or the last pause of final.      *)
THEOREM DrainKeepsBudget ==
    ASSUME RestartFits, BudgetFits
    PROVE  Spec => []DrainWithinBudget
<1>1. Init => Spent
  BY DEF Init, Spent, Spending
<1>2. AgentInv /\ Spent /\ [Next]_vars => Spent'
  BY SpentStep
<1>3. Spent => DrainWithinBudget
  BY DEF Spent, Spending, DrainWithinBudget
<1> QED BY <1>1, <1>2, <1>3, AgentInvariant, PTL DEF Spec
=============================================================================
