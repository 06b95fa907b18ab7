----------------------------- MODULE Generators -----------------------------
(* The engines Stoker brings itself, as processes beside their agents: the *)
(* metrics engine, which stamps its shard of a series matrix on a grid of  *)
(* the wall clock or through a window of the past, and the raw replay      *)
(* engine, which loops a recording (rate) or plays it once with the gaps   *)
(* it was recorded with (cadence).  An agent builds the engine's           *)
(* environment, listens on the socket the engine connects to, reads when   *)
(* it likes and hangs up in its drain; a worker is replaced, an engine is  *)
(* restarted, a metrics run is scaled.  A send that blocks is a step that  *)
(* is late.  Times are whole seconds; what a value is drawn from is its    *)
(* place in the random stream of its series.                               *)
EXTENDS Integers, Sequences, FiniteSets

CONSTANTS
    MaxFleet,     \* bound: workers of the run
    Resolution,   \* seconds between two ticks of the grid
    Window,       \* [start, end, res]: the backfill of the slice
    Multiple,     \* time_multiple
    FallbackGap,  \* fallback_gap_s
    ConnectRetry, \* _CONNECT_RETRY_S
    Jobs,         \* [mode, series, regex, data]: the kinds of run to consider
    MaxClock,     \* bound: the clock
    MaxStarts,    \* bound: engine processes of the run
    MaxStream,    \* bound: lines one process sends
    MaxScales     \* bound: scalings of the run

ASSUME GeneratorsAssumption ==
    /\ MaxFleet \in Nat \ {0} /\ Resolution \in Nat \ {0}
    /\ Window.start \in Nat /\ Window.end \in Nat /\ Window.res \in Nat \ {0}
    /\ Window.start < Window.end
    /\ {Multiple, FallbackGap, ConnectRetry} \subseteq Nat
    /\ {MaxClock, MaxStarts, MaxStream, MaxScales} \subseteq Nat

(* A recording is a sequence of lines; what a reader of times finds in one is  *)
(* a time or a negative number.                                                *)
ASSUME JobsAssumption ==
    \A j \in Jobs :
        /\ j.mode \in {"grid", "backfill", "rate", "cadence"}
        /\ j.series \in Nat /\ j.regex \in {"none", "shapes", "strptime"}
        /\ j.data \in Seq({j.data[i] : i \in DOMAIN j.data})
        /\ \A i \in DOMAIN j.data : LET line == j.data[i] IN
             line.blank \/ (line.shapes \in Seq(Int) /\ line.group \in Seq(Int) /\ line.strp \in Int)

VARIABLES
    wall,    \* the wall clock the workers share
    job,     \* what the run generates: mode, size of the matrix, ts_regex, recording
    fleet,   \* workers of the run's snapshot: total_workers of the next slice
    scales,  \* scalings so far (the bound)
    starts,  \* engine processes so far (the bound)
    unit,    \* per slot: the engine process and its agent's socket
    stream   \* per slot: what the present process has sent, in order

GenVars == <<wall, job, fleet, scales, starts, unit, stream>>

FleetSlots == 0 .. MaxFleet - 1
Metrics == job.mode \in {"grid", "backfill"}
NoTime == -1
Off == [pc |-> "off", open |-> FALSE, total |-> 1, until |-> 0, tick |-> 0,
        first |-> 0, next |-> 0, base |-> NoTime, offset |-> 0, prev |-> NoTime, due |-> NoTime]

\* A replay has one worker (effective_workers).
GenInit ==
    /\ wall = 0 /\ scales = 0 /\ starts = 0
    /\ job \in Jobs
    /\ fleet \in IF Metrics THEN 1 .. MaxFleet ELSE {1}
    /\ unit = [s \in FleetSlots |-> Off]
    /\ stream = [s \in FleetSlots |-> <<>>]

-----------------------------------------------------------------------------
(* Reading a recording *)

\* _iter_lines: blank lines are skipped.
_iter_lines(data) ==
    LET kept[i \in 0 .. Len(data)] ==
            IF i = 0 THEN <<>>
            ELSE IF data[i].blank THEN kept[i - 1] ELSE Append(kept[i - 1], data[i])
    IN  kept[Len(data)]

\* The shapes of a line are its matches for ISO, syslog and epoch in the order
\* they are tried: the time, or a negative number where there is no match or the
\* match does not convert.
_parse_builtin(shapes) ==
    LET good == {i \in DOMAIN shapes : shapes[i] >= 0}
    IN  IF good = {} THEN NoTime ELSE shapes[CHOOSE i \in good : \A j \in good : i <= j]

\* TimestampParser.parse: an operator's regex hides the rest of the line, and a
\* format with it decides alone (strp).
parse_time(line) ==
    CASE job.regex = "none" -> _parse_builtin(line.shapes)
      [] job.regex = "shapes" -> IF line.match THEN _parse_builtin(line.group) ELSE NoTime
      [] job.regex = "strptime" -> IF line.match THEN line.strp ELSE NoTime

_gap(prev, ts) ==
    IF prev = NoTime \/ ts = NoTime \/ ts < prev THEN FallbackGap * Multiple
    ELSE (ts - prev) * Multiple

-----------------------------------------------------------------------------
(* The agent's side *)

\* A worker takes the slot and builds its runner: slot and total_workers are
\* those of the slice it was given (_build_metrics_engine, _build_rawreplay_engine).
build_engine(s) ==
    /\ s < fleet /\ unit[s].pc = "off" /\ starts < MaxStarts
    /\ starts' = starts + 1
    /\ unit' = [unit EXCEPT ![s] = [Off EXCEPT !.pc = "starting", !.open = TRUE, !.total = fleet]]
    /\ UNCHANGED <<wall, job, fleet, scales, stream>>

\* A retarget of a count, or of a rate beyond the band, or the watchdog of a
\* rate replay restarts the process; its environment is the runner's, with the
\* total_workers of the slice it was built for (_rewrite_and_restart, restart).
restart_engine(s) ==
    /\ unit[s].open /\ unit[s].pc # "starting" /\ starts < MaxStarts
    /\ starts' = starts + 1
    /\ unit' = [unit EXCEPT ![s] = [Off EXCEPT !.pc = "starting", !.open = TRUE, !.total = unit[s].total]]
    /\ stream' = [stream EXCEPT ![s] = <<>>]
    /\ UNCHANGED <<wall, job, fleet, scales>>

\* The container dies, and its engine with it; the slot is free for another.
replaced(s) ==
    /\ unit[s].open
    /\ unit' = [unit EXCEPT ![s] = Off]
    /\ stream' = [stream EXCEPT ![s] = <<>>]
    /\ UNCHANGED <<wall, job, fleet, scales, starts>>

\* The drain stops the socket server; the engine finds out by itself.
drained(s) ==
    /\ unit[s].open
    /\ unit' = [unit EXCEPT ![s].open = FALSE]
    /\ UNCHANGED <<wall, job, fleet, scales, starts, stream>>

\* scale_run on a metrics run: a removed slot is superseded and drains, and only
\* later slices have the new count.
scale_fleet(n) ==
    /\ Metrics /\ scales < MaxScales /\ n # fleet
    /\ fleet' = n /\ scales' = scales + 1
    /\ unit' = [s \in FleetSlots |-> IF s < n THEN unit[s] ELSE [unit[s] EXCEPT !.open = FALSE]]
    /\ UNCHANGED <<wall, job, starts, stream>>

-----------------------------------------------------------------------------
(* The engine's process *)

Exit(s, code) == unit' = [unit EXCEPT ![s].pc = code]

\* ok: the environment has what the engine requires, and its files are readable.
Loaded(s, ok) ==
    /\ unit[s].pc = "starting"
    /\ unit' = [unit EXCEPT ![s].pc = IF ok THEN "connecting" ELSE "exit2",
                            ![s].until = wall + ConnectRetry]
    /\ UNCHANGED <<wall, job, fleet, scales, starts, stream>>
load_config(s, ok) == Metrics /\ Loaded(s, ok)
load_replay_config(s, ok) == ~Metrics /\ Loaded(s, ok)

_connect(s) ==
    /\ unit[s].pc = "connecting"
    /\ \/ unit[s].open /\ Exit(s, "connected")
       \/ ~unit[s].open /\ wall >= unit[s].until /\ Exit(s, "exit1")
    /\ UNCHANGED <<wall, job, fleet, scales, starts, stream>>

\* build_series is sorted, so a series is its place; series[slot::total_workers].
series_shard(s) == {k \in 0 .. job.series - 1 : k % unit[s].total = s}
Floor(t, res) == (t \div res) * res
Step == IF job.mode = "grid" THEN Resolution ELSE Window.res

\* MetricsEngine.run and the first lines of its modes; RawReplayEngine.run.
run_engine(s) ==
    /\ unit[s].pc = "connected"
    /\ LET from == Floor(IF job.mode = "grid" THEN wall ELSE Window.start, Step)
       IN  unit' = [unit EXCEPT ![s].pc = IF Metrics /\ series_shard(s) = {} THEN "idle" ELSE "up",
                                ![s].tick = from, ![s].first = from]
    /\ UNCHANGED <<wall, job, fleet, scales, starts, stream>>

\* One line: which of the series or of the recording, and its time.
Send(s, k, time) == stream' = [stream EXCEPT ![s] = Append(@, [item |-> k, time |-> time])]

\* The loop over the shard inside a tick, and the next tick after it: a late
\* engine catches up tick by tick.
Advanced_Skips(s, k) ==
    IF \E j \in series_shard(s) : j > k THEN [unit[s] EXCEPT !.next = k + 1]
    ELSE [unit[s] EXCEPT !.next = 0, !.tick = Floor(wall, Step) + Step]
Advanced(s, k) ==
    IF \E j \in series_shard(s) : j > k THEN [unit[s] EXCEPT !.next = k + 1]
    ELSE [unit[s] EXCEPT !.next = 0, !.tick = @ + Step]
SendTick(s) ==
    LET k == CHOOSE k \in series_shard(s) :
                 k >= unit[s].next /\ \A j \in series_shard(s) : j >= unit[s].next => k <= j
    IN  \/ /\ unit[s].open /\ Send(s, k, unit[s].tick)
           /\ unit' = [unit EXCEPT ![s] = Advanced(s, k)]
        \/ ~unit[s].open /\ Exit(s, "exit0") /\ UNCHANGED stream

_run_grid(s) ==
    /\ job.mode = "grid" /\ unit[s].pc = "up" /\ unit[s].tick <= wall
    /\ SendTick(s)
    /\ UNCHANGED <<wall, job, fleet, scales, starts>>

_run_backfill(s) ==
    /\ job.mode = "backfill" /\ unit[s].pc = "up"
    /\ \/ unit[s].tick < Window.end /\ SendTick(s)
       \/ unit[s].tick >= Window.end /\ Exit(s, "exit0") /\ UNCHANGED stream
    /\ UNCHANGED <<wall, job, fleet, scales, starts>>

_idle_until_closed(s) ==
    /\ unit[s].pc = "idle" /\ ~unit[s].open
    /\ Exit(s, "exit0")
    /\ UNCHANGED <<wall, job, fleet, scales, starts, stream>>

\* The recording from the top again and again, without times; an empty one ends.
_run_rate(s) ==
    LET lines == _iter_lines(job.data)
    IN  /\ job.mode = "rate" /\ unit[s].pc = "up"
        /\ \/ /\ lines # <<>> /\ unit[s].open /\ Len(stream[s]) < MaxStream
              /\ Send(s, unit[s].next + 1, NoTime)
              /\ unit' = [unit EXCEPT ![s].next = (@ + 1) % Len(lines)]
           \/ (lines = <<>> \/ ~unit[s].open) /\ Exit(s, "exit0") /\ UNCHANGED stream
        /\ UNCHANGED <<wall, job, fleet, scales, starts>>

\* The next line of the recording: the first anchors the clock, a later one
\* sleeps its gap; prev_ts is the last time that could be read.
cadence_sleep(s) ==
    LET u == unit[s]  lines == _iter_lines(job.data)  ts == parse_time(lines[u.next + 1])
        gap == IF u.base = NoTime THEN 0 ELSE _gap(u.prev, ts)
    IN  /\ job.mode = "cadence" /\ u.pc = "up" /\ u.due = NoTime /\ u.next < Len(lines)
        /\ unit' = [unit EXCEPT ![s].base = IF @ = NoTime THEN wall ELSE @,
                                ![s].offset = @ + gap, ![s].due = wall + gap,
                                ![s].prev = IF ts = NoTime THEN @ ELSE ts]
        /\ UNCHANGED <<wall, job, fleet, scales, starts, stream>>

_run_cadence(s) ==
    LET u == unit[s]
    IN  /\ job.mode = "cadence" /\ u.pc = "up"
        /\ \/ /\ u.due # NoTime /\ u.due <= wall /\ u.open
              /\ Send(s, u.next + 1, u.base + u.offset)
              /\ unit' = [unit EXCEPT ![s].next = @ + 1, ![s].due = NoTime]
           \/ u.due # NoTime /\ u.due <= wall /\ ~u.open /\ Exit(s, "exit0") /\ UNCHANGED stream
           \/ u.due = NoTime /\ u.next = Len(_iter_lines(job.data)) /\ Exit(s, "exit0") /\ UNCHANGED stream
        /\ UNCHANGED <<wall, job, fleet, scales, starts>>

\* sendall raises anything but a closed peer.
_send_fails(s) ==
    /\ unit[s].pc = "up" /\ unit[s].open
    /\ Exit(s, "exit1")
    /\ UNCHANGED <<wall, job, fleet, scales, starts, stream>>

-----------------------------------------------------------------------------
Second ==
    /\ wall < MaxClock /\ wall' = wall + 1
    /\ UNCHANGED <<job, fleet, scales, starts, unit, stream>>

EngineStep(s) ==
    \/ \E ok \in BOOLEAN : load_config(s, ok) \/ load_replay_config(s, ok)
    \/ _connect(s) \/ run_engine(s) \/ _idle_until_closed(s)
    \/ _run_grid(s) \/ _run_backfill(s) \/ _run_rate(s)
    \/ cadence_sleep(s) \/ _run_cadence(s) \/ _send_fails(s)
AgentStep(s) == build_engine(s) \/ restart_engine(s) \/ replaced(s) \/ drained(s)
GenNext ==
    \/ Second
    \/ \E n \in 1 .. MaxFleet : scale_fleet(n)
    \/ \E s \in FleetSlots : EngineStep(s) \/ AgentStep(s)

GenSpec == GenInit /\ [][GenNext]_GenVars

-----------------------------------------------------------------------------
(* Properties *)

Sends(s, k, t) == {i \in DOMAIN stream[s] : stream[s][i].item = k /\ stream[s][i].time = t}
\* The present process of s has been through the whole of tick t, or owns nothing.
Through(s, t) ==
    \/ unit[s].first <= t /\ t < unit[s].tick
    \/ unit[s].pc = "idle"

\* A fleet that agrees on its size covers the matrix: of a tick that all its
\* engines have been through, however late, each series has one point.
MatrixCovered ==
    Metrics /\ (\A s \in 0 .. fleet - 1 : unit[s].total = fleet) =>
        \A n \in 0 .. (MaxClock + Window.end) \div Step : LET t == n * Step IN
            (\A s \in 0 .. fleet - 1 : Through(s, t)) =>
                \A k \in 0 .. job.series - 1 :
                    Cardinality(UNION {{s} \X Sends(s, k, t) : s \in 0 .. fleet - 1}) = 1

\* Times never go back, never lie ahead of the clock, and a replayed line is as
\* far from the one before it as it was recorded, if both say when that was.
StampsInStep ==
    \A s \in FleetSlots : \A i \in DOMAIN stream[s] :
        LET p == stream[s][i] IN
        /\ job.mode # "backfill" => p.time <= wall
        /\ i > 1 => LET q == stream[s][i - 1] IN
            /\ q.time <= p.time
            /\ job.mode = "cadence" =>
                LET lines == _iter_lines(job.data)
                    was == parse_time(lines[q.item])  is == parse_time(lines[p.item])
                IN  was # NoTime /\ is # NoTime /\ was <= is =>
                        p.time - q.time = (is - was) * Multiple

\* A replay sends the lines of its recording in order, each as often as the
\* others but for the round under way, and in cadence once.
RecordingWhole ==
    ~Metrics => \A s \in FleetSlots :
        LET n == Len(_iter_lines(job.data)) IN
        /\ \A i \in DOMAIN stream[s] : stream[s][i].item = ((i - 1) % n) + 1
        /\ job.mode = "cadence" => Len(stream[s]) <= n
        /\ job.mode = "cadence" /\ unit[s].pc = "exit0" /\ unit[s].open => Len(stream[s]) = n

\* What the engines of a run send is whole and in step: the matrix without holes
\* and overlaps, the recording line by line, on one timeline that the clock has
\* reached (_run_grid, _run_backfill, _run_rate, _run_cadence).
StreamsWhole == MatrixCovered /\ StampsInStep /\ RecordingWhole

-----------------------------------------------------------------------------
(* Statements of the documentation that the code does not keep *)

\* Each series has its own random stream and its own total, which start with the
\* process: the draw of a point is the number of points before it.
Points ==
    UNION {{[slot |-> s, item |-> stream[s][i].item, time |-> stream[s][i].time,
             draw |-> Cardinality({j \in 1 .. i - 1 : stream[s][j].item = stream[s][i].item})] :
            i \in DOMAIN stream[s]} : s \in FleetSlots}

\* "so the fleet partitions the matrix without overlap"
NoOverlap ==
    Metrics => \A p, q \in Points : p.item = q.item /\ p.time = q.time => p.slot = q.slot

\* "the same (seed, series, metric, tick) yields the same value"
ValueFollowsTick ==
    Metrics => \A p, q \in Points : p.item = q.item /\ p.time = q.time => p.draw = q.draw

\* "a monotonic cumulative total (each tick adds the interval count)"
CounterGrows ==
    Metrics => \A p, q \in Points : p.item = q.item /\ p.time < q.time => p.draw <= q.draw

\* "Emit historical points over [start, end)"
WithinWindow ==
    job.mode = "backfill" => \A p \in Points : Window.start <= p.time /\ p.time < Window.end
=============================================================================
