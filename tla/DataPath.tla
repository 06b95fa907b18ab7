------------------------------ MODULE DataPath ------------------------------
(***************************************************************************)
(* The data path of one Stoker worker: generator processes write lines to  *)
(* the agent's unix socket, one reader thread per connection splits and    *)
(* paces them through the shared token bucket into the HEC client's        *)
(* bounded queue, and sender threads batch, POST and retry them; the drain *)
(* takes it all down and reports the counters                              *)
(* (worker/stoker_agent/{sockserver,pacing,hec_client,engine,agent}.py and *)
(* the three engines' socket clients under worker/engines/).               *)
(*                                                                         *)
(* A step is what a thread does between two points where another thread    *)
(* can run: the test of _stopping and the put that follows it are two      *)
(* steps, one bucket call is one step (it holds the bucket's lock).        *)
(* A line is "ok", "junk" (not a JSON object) or "odd" (decodes, but       *)
(* cannot be serialised again, as a lone surrogate).                       *)
(***************************************************************************)
EXTENDS Integers, Sequences, FiniteSets, FiniteSetsExt

CONSTANTS
    Conns,         \* connections the engine's processes may open
    Senders,       \* HEC sender threads
    Share,         \* events per tick this worker starts with
    Rates,         \* events per tick a share may ask for
    Catchup,       \* ticks of backlog the bucket replays (catchup_s)
    QueueMax,      \* queue_max: slots, and events inside line batches
    MaxAttempts,   \* POSTs of one batch
    RunModes,      \* the kinds of run to consider
    Dataset,       \* the lines a process writes, in order
    MaxLines,      \* bound: lines written in a run
    MaxTicks,      \* bound: ticks of the wall clock
    WireMax,       \* bound: lines the socket buffer holds
    MaxRetargets   \* bound: rate changes in a run

ASSUME PositiveBounds ==
    /\ IsFiniteSet(Conns) /\ IsFiniteSet(Senders)
    /\ Rates \subseteq Nat \ {0} /\ Share \in Rates
    /\ {Catchup, QueueMax, MaxAttempts, WireMax} \subseteq Nat \ {0}
    /\ {MaxLines, MaxTicks, MaxRetargets} \subseteq Nat

Kinds == {"ok", "junk", "odd"}

ASSUME DatasetAssumption == Dataset \in Seq(Kinds)

VARIABLES
    mode,      \* what the slice asks for: engine, envelope, gated, bounded
    gen,       \* generator process of a connection: state, lines written
    wire,      \* lines in the socket buffer of a connection
    reader,    \* reader thread of a connection: pc, lines read, batch granted
    bucket,    \* TokenBucket: rate, backlog (owed - released), paused, closed
    queue,     \* HecClient._queue: items, each a sequence of lines
    lineEvents,\* HecClient._line_events
    stopping, abort,
    sender,    \* sender thread: pc, events in its batch, attempt
    ctr,       \* counters: received, malformed, events_total, dropped, ...
    drain,     \* where Agent._shutdown is
    summary,   \* the final report, once taken
    clock,     \* ticks, rate changes; events released in this tick, its top rate
    granted    \* history: events the readers have released, refused puts

hecVars == <<queue, lineEvents, stopping, abort>>
PathVars == <<mode, gen, wire, reader, bucket, hecVars, sender, ctr, drain,
          summary, clock, granted>>

NoSummary == [events_total |-> 0, dropped |-> 0, dropped_invalid |-> 0,
              received |-> 0, queue_depth |-> 0, flushed |-> FALSE]
Idle == [pc |-> "none", lines |-> <<>>, batch |-> <<>>]

\* A "hec" envelope comes from firebox only; cadence and live metrics runs are
\* ungated, a backfill or an eps run is gated; a bounded engine ends by itself.
Modes == {m \in [engine : {"eventgen", "replay", "metrics"},
                 envelope : {"stoker", "hec"},
                 gated : BOOLEAN, bounded : BOOLEAN] :
            m.envelope = "hec" => m.engine = "eventgen"}

ASSUME RunModesAssumption == RunModes \subseteq Modes

PathInit ==
    /\ mode \in RunModes
    /\ gen = [c \in Conns |-> [pc |-> "unborn", wrote |-> 0]]
    /\ wire = [c \in Conns |-> <<>>]
    /\ reader = [c \in Conns |-> Idle]
    /\ bucket = [rate |-> Share, backlog |-> 0, paused |-> FALSE, closed |-> FALSE]
    /\ queue = <<>> /\ lineEvents = 0
    /\ stopping = FALSE /\ abort = FALSE
    /\ sender = [s \in Senders |-> [pc |-> "get", batch |-> 0, attempt |-> 0]]
    /\ ctr = [received |-> 0, malformed |-> 0, events_total |-> 0,
              dropped |-> 0, dropped_invalid |-> 0]
    /\ drain = "run"
    /\ summary = NoSummary
    /\ clock = [ticks |-> 0, retargets |-> 0, burst |-> 0, top |-> bucket.rate]
    /\ granted = [released |-> 0, refused |-> 0]

(***************************************************************************)
(* The engine's processes.                                                 *)
(***************************************************************************)

SockStopped == drain \in {"join", "engine", "flush", "aborting", "done"}

\* EngineRunner.start: one process, or the generators eventgen forks.
start ==
    /\ drain = "run"
    /\ \A c \in Conns : gen[c].pc \notin {"connecting", "up"}
    /\ \E S \in SUBSET {c \in Conns : gen[c].pc = "unborn"} :
         /\ S # {}
         /\ mode.engine # "eventgen" => Cardinality(S) = 1
         /\ gen' = [c \in Conns |-> IF c \in S THEN [pc |-> "connecting", wrote |-> 0]
                                    ELSE gen[c]]
    /\ UNCHANGED <<mode, wire, reader, bucket, hecVars, sender, ctr, drain,
                   summary, clock, granted>>

\* _Connection.ensure, connect, _connect: the listener is bound before the
\* engine starts, so a connect is refused only once it is gone. It is then fatal.
connect(c) ==
    /\ gen[c].pc = "connecting"
    /\ gen' = [gen EXCEPT ![c].pc = IF SockStopped THEN "failed" ELSE "up"]
    /\ UNCHANGED <<mode, wire, reader, bucket, hecVars, sender, ctr, drain,
                   summary, clock, granted>>

Shut(c) == SockStopped \/ reader[c].pc = "gone"

CanWrite == SumFunction([c \in Conns |-> gen[c].wrote]) < MaxLines

\* sendall of one envelope, blocking while the buffer is full. A peer that has
\* closed ends rawreplay and metrics cleanly (_send) and the plugin with an
\* error it never recovers from (_Connection.fail).
send(c) ==
    /\ gen[c].pc = "up" /\ gen[c].wrote < Len(Dataset) /\ CanWrite
    /\ \/ /\ Shut(c)
          /\ gen' = [gen EXCEPT ![c].pc = IF mode.engine = "eventgen"
                                          THEN "failed" ELSE "ended"]
          /\ UNCHANGED wire
       \/ /\ ~Shut(c) /\ Len(wire[c]) < WireMax
          /\ wire' = [wire EXCEPT ![c] = Append(@, Dataset[gen[c].wrote + 1])]
          /\ gen' = [gen EXCEPT ![c].wrote = @ + 1]
    /\ UNCHANGED <<mode, reader, bucket, hecVars, sender, ctr, drain, summary,
                   clock, granted>>

\* The dataset (_run_cadence) or the window (_run_backfill) is exhausted.
exhaust(c) ==
    /\ gen[c].pc = "up" /\ mode.bounded
    /\ gen' = [gen EXCEPT ![c].pc = "ended"]
    /\ UNCHANGED <<mode, wire, reader, bucket, hecVars, sender, ctr, drain,
                   summary, clock, granted>>

Alive(c) == gen[c].pc \in {"connecting", "up"}

\* The group is signalled; a write cut short leaves an unterminated line.
Killed(g, w) ==
    /\ g = [c \in Conns |-> IF Alive(c) THEN [gen[c] EXCEPT !.pc = "ended"]
                            ELSE gen[c]]
    /\ \E Cut \in SUBSET {c \in Conns : gen[c].pc = "up" /\ CanWrite /\ ~Shut(c)
                                        /\ Len(wire[c]) < WireMax} :
         w = [c \in Conns |-> IF c \in Cut THEN Append(wire[c], "junk") ELSE wire[c]]

\* EngineRunner.restart, on a retarget beyond headroom: stop; start follows.
restart ==
    /\ drain = "run"
    /\ \E c \in Conns : Alive(c)
    /\ Killed(gen', wire')
    /\ UNCHANGED <<mode, reader, bucket, hecVars, sender, ctr, drain, summary,
                   clock, granted>>

(***************************************************************************)
(* The token bucket. backlog is owed - released, not yet capped: the code  *)
(* caps it when it is next read. An ungated run only asks whether the      *)
(* bucket is closed, so time and rate are of a gated one.                  *)
(***************************************************************************)

\* Plausible slip: the backlog is replayed whole.
_cap_backlog_Whole(b) == b.backlog

_cap_backlog(b) == Min({b.backlog, b.rate * Catchup})

Available == _cap_backlog(bucket)

Tick ==
    /\ mode.gated /\ clock.ticks < MaxTicks /\ ~bucket.closed
    /\ bucket' = [bucket EXCEPT !.backlog = @ + bucket.rate]
    /\ clock' = [clock EXCEPT !.ticks = @ + 1, !.burst = 0,
                              !.top = bucket.rate]
    /\ UNCHANGED <<mode, gen, wire, reader, hecVars, sender, ctr, drain,
                   summary, granted>>

pause ==
    /\ mode.gated /\ drain = "run"
    /\ bucket' = [bucket EXCEPT !.paused = ~@]     \* pause() and resume()
    /\ UNCHANGED <<mode, gen, wire, reader, hecVars, sender, ctr, drain,
                   summary, clock, granted>>

\* retarget: owed stays what it was, so the backlog does too.
retarget ==
    /\ mode.gated /\ drain = "run" /\ clock.retargets < MaxRetargets
    /\ \E r \in Rates \ {bucket.rate} :
         /\ bucket' = [bucket EXCEPT !.rate = r]
         /\ clock' = [clock EXCEPT !.retargets = @ + 1, !.top = Max({@, r})]
    /\ UNCHANGED <<mode, gen, wire, reader, hecVars, sender, ctr, drain,
                   summary, granted>>

(***************************************************************************)
(* The socket server: the accept loop and one reader per connection.       *)
(***************************************************************************)

\* _run: accept, register the connection, start its reader.
accept(c) ==
    /\ ~SockStopped
    /\ gen[c].pc \in {"up", "ended", "failed"} /\ reader[c].pc = "none"
    /\ gen[c].pc # "up" => wire[c] # <<>>
    /\ reader' = [reader EXCEPT ![c].pc = "recv"]
    /\ UNCHANGED <<mode, gen, wire, bucket, hecVars, sender, ctr, drain,
                   summary, clock, granted>>

\* The lines that are not junk, in order.
Good(lines) ==
    LET kept[i \in 0 .. Len(lines)] ==
          IF i = 0 THEN <<>>
          ELSE IF lines[i] = "junk" THEN kept[i - 1] ELSE Append(kept[i - 1], lines[i])
    IN  kept[Len(lines)]

After(lines) == IF lines = <<>> THEN "recv" ELSE "lines"

\* _read_stream: one recv. The hec envelope checks the shape of all its lines
\* at once (_handle_hec_lines), the stoker envelope line by line (_handle_line).
recv(c) ==
    /\ reader[c].pc = "recv" /\ ~SockStopped /\ wire[c] # <<>>
    /\ \E n \in 1..Len(wire[c]) :
         LET got == SubSeq(wire[c], 1, n)
             kept == IF mode.envelope = "hec" THEN Good(got) ELSE got
         IN  /\ wire' = [wire EXCEPT ![c] = SubSeq(@, n + 1, Len(@))]
             /\ reader' = [reader EXCEPT ![c].lines = kept, ![c].pc = After(kept)]
             /\ ctr' = [ctr EXCEPT !.malformed = @ + Len(got) - Len(kept)]
    /\ UNCHANGED <<mode, gen, bucket, hecVars, sender, drain, summary, clock, granted>>

\* EOF, or the stop flag at the top of the loop: _serve retires the connection.
hang_up(c) ==
    /\ reader[c].pc = "recv"
    /\ SockStopped \/ (wire[c] = <<>> /\ gen[c].pc \in {"ended", "failed"})
    /\ reader' = [reader EXCEPT ![c].pc = "gone"]
    /\ UNCHANGED <<mode, gen, wire, bucket, hecVars, sender, ctr, drain,
                   summary, clock, granted>>

\* A line that does not decode is counted and skipped.
skip(c) ==
    /\ reader[c].pc = "lines" /\ Head(reader[c].lines) = "junk"
    /\ reader' = [reader EXCEPT ![c].lines = Tail(@),
                               ![c].pc = After(Tail(reader[c].lines))]
    /\ ctr' = [ctr EXCEPT !.malformed = @ + 1]
    /\ UNCHANGED <<mode, gen, wire, bucket, hecVars, sender, drain, summary,
                   clock, granted>>

Wanted(c) == IF mode.envelope = "hec" THEN Len(reader[c].lines) ELSE 1

\* acquire / acquire_many: what is owed now, up to the lines wanted; nothing
\* while paused; the reader ends once the bucket is closed.
acquire(c) ==
    /\ reader[c].pc = "lines" /\ Head(reader[c].lines) # "junk"
    /\ \/ /\ bucket.closed
          /\ reader' = [reader EXCEPT ![c].pc = "gone", ![c].lines = <<>>]
          /\ UNCHANGED <<bucket, clock, granted>>
       \/ LET n == IF mode.gated THEN Min({Wanted(c), Available}) ELSE Wanted(c)
          IN  /\ ~bucket.closed /\ n > 0
              /\ mode.gated => ~bucket.paused
              /\ reader' = [reader EXCEPT
                    ![c].pc = "check",
                    ![c].batch = SubSeq(reader[c].lines, 1, n),
                    ![c].lines = SubSeq(@, n + 1, Len(@))]
              /\ bucket' = IF mode.gated
                           THEN [bucket EXCEPT !.backlog = Available - n]
                           ELSE bucket
              /\ clock' = IF mode.gated THEN [clock EXCEPT !.burst = @ + n] ELSE clock
              /\ granted' = [granted EXCEPT !.released = @ + n]
    /\ UNCHANGED <<mode, gen, wire, hecVars, sender, ctr, drain, summary>>

(***************************************************************************)
(* HecClient, producer side. put tests _stopping and then puts with a      *)
(* timeout; put_lines first reserves room for its events.                  *)
(***************************************************************************)

Held(c) == Len(reader[c].batch)

Refuse(c) ==
    /\ reader' = [reader EXCEPT ![c] = [Idle EXCEPT !.pc = "gone"]]
    /\ granted' = [granted EXCEPT !.refused = @ + Held(c)]

put_check(c) ==
    /\ reader[c].pc = "check" /\ mode.envelope = "stoker"
    /\ \/ stopping /\ Refuse(c)
       \/ /\ ~stopping
          /\ reader' = [reader EXCEPT ![c].pc = "put"]
          /\ UNCHANGED granted
    /\ UNCHANGED <<mode, gen, wire, bucket, hecVars, sender, ctr, drain,
                   summary, clock>>

HasRoom(n) == lineEvents = 0 \/ lineEvents + n <= QueueMax

put_lines(c) ==
    /\ reader[c].pc = "check" /\ mode.envelope = "hec"
    /\ \/ stopping /\ Refuse(c) /\ UNCHANGED lineEvents
       \/ /\ ~stopping /\ HasRoom(Held(c))
          /\ lineEvents' = lineEvents + Held(c)
          /\ reader' = [reader EXCEPT ![c].pc = "reserved"]
          /\ UNCHANGED granted
    /\ UNCHANGED <<mode, gen, wire, bucket, queue, stopping, abort, sender,
                   ctr, drain, summary, clock>>

_release_lines(n) == lineEvents - n

reserved(c) ==
    /\ reader[c].pc = "reserved"
    /\ \/ stopping /\ Refuse(c) /\ lineEvents' = _release_lines(Held(c))
       \/ /\ ~stopping
          /\ reader' = [reader EXCEPT ![c].pc = "put"]
          /\ UNCHANGED <<lineEvents, granted>>
    /\ UNCHANGED <<mode, gen, wire, bucket, queue, stopping, abort, sender,
                   ctr, drain, summary, clock>>

\* queue.put: enqueue and count, or time out on a full queue and test _stopping
\* again.
put(c) ==
    /\ reader[c].pc = "put"
    /\ \/ /\ Len(queue) < QueueMax
          /\ queue' = Append(queue, reader[c].batch)
          /\ reader' = [reader EXCEPT ![c].pc = After(reader[c].lines), ![c].batch = <<>>]
          /\ ctr' = [ctr EXCEPT !.received = @ + Held(c)]
       \/ /\ Len(queue) >= QueueMax
          /\ reader' = [reader EXCEPT
                ![c].pc = IF mode.envelope = "hec" THEN "reserved" ELSE "check"]
          /\ UNCHANGED <<queue, ctr>>
    /\ UNCHANGED <<mode, gen, wire, bucket, lineEvents, stopping, abort, sender,
                   drain, summary, clock, granted>>

(***************************************************************************)
(* HecClient, sender side.                                                 *)
(***************************************************************************)

\* _serialise_or_count: a stoker envelope may fail to serialise; a hec line is
\* bytes already.
Serialised(item) == IF mode.envelope = "hec" THEN Len(item)
                    ELSE Cardinality({i \in DOMAIN item : item[i] # "odd"})

\* _collect_batch and _absorb: take an item, free its reservation, serialise.
_absorb(s) ==
    /\ sender[s].pc \in {"get", "fill"} /\ queue # <<>>
    /\ sender[s].pc = "fill" => ~abort
    /\ LET item == Head(queue)
           n == Serialised(item)
       IN  /\ queue' = Tail(queue)
           /\ lineEvents' = IF mode.envelope = "hec"
                            THEN _release_lines(Len(item)) ELSE lineEvents
           /\ sender' = [sender EXCEPT
                 ![s].batch = @ + n,
                 ![s].pc = IF sender[s].batch + n > 0 THEN "fill" ELSE "get"]
           /\ ctr' = [ctr EXCEPT !.dropped_invalid = @ + Len(item) - n]
    /\ UNCHANGED <<mode, gen, wire, reader, bucket, stopping, abort, drain,
                   summary, clock, granted>>

\* The batch is full, its time is up, or the drain found the queue empty; a
\* sender that finds it empty while stopping ends.
_collect_batch(s) ==
    /\ \/ /\ sender[s].pc = "fill"
          /\ sender' = [sender EXCEPT ![s].pc = "post"]
       \/ /\ sender[s].pc = "get" /\ queue = <<>> /\ stopping
          /\ sender' = [sender EXCEPT ![s].pc = "exit"]
    /\ UNCHANGED <<mode, gen, wire, reader, bucket, hecVars, ctr, drain,
                   summary, clock, granted>>

Resolve(s, counter) ==
    /\ ctr' = [ctr EXCEPT ![counter] = @ + sender[s].batch]
    /\ sender' = [sender EXCEPT ![s] = [pc |-> "get", batch |-> 0, attempt |-> 0]]

\* Plausible slip: an aborted retry returns without counting its batch.
attempt_Uncounted(s) ==
    /\ sender[s].pc \in {"post", "backoff"}
    /\ sender' = [sender EXCEPT ![s] =
          IF abort THEN [pc |-> "get", batch |-> 0, attempt |-> 0]
          ELSE [@ EXCEPT !.pc = IF sender[s].pc = "post" THEN "inflight" ELSE "post"]]
    /\ UNCHANGED <<mode, gen, wire, reader, bucket, hecVars, ctr, drain, summary,
                   clock, granted>>

\* _send_batch, the head of an attempt and the wait before a retry: an abort
\* gives the batch up, and it is counted as dropped.
attempt(s) ==
    /\ sender[s].pc \in {"post", "backoff"}
    /\ \/ abort /\ Resolve(s, "dropped")
       \/ /\ ~abort
          /\ sender' = [sender EXCEPT
                ![s].pc = IF sender[s].pc = "post" THEN "inflight" ELSE "post"]
          /\ UNCHANGED ctr
    /\ UNCHANGED <<mode, gen, wire, reader, bucket, hecVars, drain, summary,
                   clock, granted>>

\* _send_batch, the answer: 2xx, 400, another 4xx, or a 5xx, timeout or reset,
\* which is tried again after a delay while attempts are left.
_send_batch(s) ==
    /\ sender[s].pc = "inflight"
    /\ \/ Resolve(s, "events_total")
       \/ Resolve(s, "dropped_invalid")
       \/ Resolve(s, "dropped")
       \/ /\ sender[s].attempt + 1 < MaxAttempts
          /\ sender' = [sender EXCEPT ![s].pc = "backoff", ![s].attempt = @ + 1]
          /\ UNCHANGED ctr
    /\ UNCHANGED <<mode, gen, wire, reader, bucket, hecVars, drain, summary,
                   clock, granted>>

(***************************************************************************)
(* The drain, Agent._shutdown: close the bucket, tell the HEC client to    *)
(* stop, stop the socket server, stop the engine, flush, report.           *)
(***************************************************************************)

close ==
    /\ drain = "run"
    /\ bucket' = [bucket EXCEPT !.closed = TRUE]
    /\ drain' = "begin"
    /\ UNCHANGED <<mode, gen, wire, reader, hecVars, sender, ctr, summary,
                   clock, granted>>

begin_stop ==
    /\ drain = "begin"
    /\ stopping' = TRUE
    /\ drain' = "sock"
    /\ UNCHANGED <<mode, gen, wire, reader, bucket, queue, lineEvents, abort,
                   sender, ctr, summary, clock, granted>>

\* SocketServer.stop: raise the flag, shut every connection down, close the
\* listener; then join the readers. Each of their waits is far shorter than the
\* join's five seconds, so the join is modelled as waiting for all of them.
sock_stop ==
    /\ drain = "sock"
    /\ drain' = "join"
    /\ wire' = [c \in Conns |-> <<>>]
    /\ UNCHANGED <<mode, gen, reader, bucket, hecVars, sender, ctr, summary,
                   clock, granted>>

Joined == \A c \in Conns : reader[c].pc \in {"none", "gone"}

sock_join ==
    /\ drain = "join" /\ Joined
    /\ drain' = "engine"
    /\ UNCHANGED <<mode, gen, wire, reader, bucket, hecVars, sender, ctr,
                   summary, clock, granted>>

\* EngineRunner.stop: SIGTERM, SIGKILL after the grace, and the whole group.
engine_stop ==
    /\ drain = "engine"
    /\ Killed(gen', wire')
    /\ drain' = "flush"
    /\ UNCHANGED <<mode, reader, bucket, hecVars, sender, ctr, summary, clock,
                   granted>>

Exited == \A s \in Senders : sender[s].pc = "exit"

Depth == IF mode.envelope = "hec" THEN lineEvents ELSE Len(queue)

Report(flushed) ==
    summary' = [events_total |-> ctr.events_total, dropped |-> ctr.dropped,
                dropped_invalid |-> ctr.dropped_invalid, received |-> ctr.received,
                queue_depth |-> Depth, flushed |-> flushed]

\* Plausible slip: an empty queue is taken for a flushed client.
flush_and_stop_QueueOnly ==
    /\ drain = "flush"
    /\ \/ queue = <<>> /\ Report(TRUE) /\ drain' = "done" /\ UNCHANGED abort
       \/ /\ queue # <<>>
          /\ abort' = TRUE /\ drain' = "aborting" /\ UNCHANGED summary
    /\ UNCHANGED <<mode, gen, wire, reader, bucket, queue, lineEvents, stopping,
                   sender, ctr, clock, granted>>

\* flush_and_stop: join the senders up to the deadline; all gone and nothing
\* queued is flushed, anything else aborts them and joins them a second more.
flush_and_stop ==
    /\ drain = "flush"
    /\ \/ Exited /\ queue = <<>> /\ Report(TRUE) /\ drain' = "done" /\ UNCHANGED abort
       \/ /\ ~(Exited /\ queue = <<>>)
          /\ abort' = TRUE /\ drain' = "aborting" /\ UNCHANGED summary
    /\ UNCHANGED <<mode, gen, wire, reader, bucket, queue, lineEvents, stopping,
                   sender, ctr, clock, granted>>

abort_join ==
    /\ drain = "aborting"
    /\ Report(FALSE)
    /\ drain' = "done"
    /\ UNCHANGED <<mode, gen, wire, reader, bucket, hecVars, sender, ctr, clock,
                   granted>>

(***************************************************************************)
(* The specification.                                                      *)
(***************************************************************************)

Engine == start \/ restart \/ \E c \in Conns : connect(c) \/ send(c) \/ exhaust(c)
Commands == Tick \/ pause \/ retarget

Reader(c) ==
    \/ accept(c) \/ recv(c) \/ hang_up(c) \/ skip(c) \/ acquire(c)
    \/ put_check(c) \/ put_lines(c) \/ reserved(c) \/ put(c)

Sender(s) == _absorb(s) \/ _collect_batch(s) \/ attempt(s) \/ _send_batch(s)

Drain ==
    \/ close \/ begin_stop \/ sock_stop \/ sock_join \/ engine_stop
    \/ flush_and_stop \/ abort_join

PathNext ==
    \/ Engine \/ Commands \/ Drain
    \/ \E c \in Conns : Reader(c)
    \/ \E s \in Senders : Sender(s)

PathSpec == PathInit /\ [][PathNext]_PathVars

(***************************************************************************)
(* Properties.                                                             *)
(***************************************************************************)

Queued == SumFunction([i \in 1..Len(queue) |-> Len(queue[i])])
InBatches == SumFunction([s \in Senders |-> sender[s].batch])
Resolved == ctr.events_total + ctr.dropped + ctr.dropped_invalid
InReaders == SumFunction([c \in Conns |-> Held(c)])

\* Every event the bucket released is in exactly one place: a reader's hand,
\* the queue, a sender's batch, one counter of the report, or refused by a put
\* that met the drain. No interleaving of readers, senders and drain loses one
\* or counts one twice (hec_client.put, put_lines, _absorb, _send_batch).
EventsPlaced ==
    granted.released = InReaders + Queued + InBatches + Resolved + granted.refused

\* The events reserved for line batches are those queued and those a reader is
\* about to queue: a reservation that leaked would wedge every later put_lines
\* (HecClient._line_events, released in three places).
ReservationExact ==
    lineEvents = IF mode.envelope = "hec"
                 THEN Queued + SumFunction([c \in {d \in Conns : reader[d].pc \in {"reserved", "put"}} |->
                                               Held(c)])
                 ELSE 0

\* Both counts: the events and the room kept for them.
Conserved == EventsPlaced /\ ReservationExact

\* A flush that reports success has resolved everything the readers accepted,
\* whatever put was under way when the drain began: the counters of the final
\* report add up (flush_and_stop, "Returns True when everything accepted was
\* resolved").
CleanFlushComplete ==
    drain = "done" /\ summary.flushed =>
        summary.received = summary.events_total + summary.dropped + summary.dropped_invalid

\* No instant releases more than catchup_s seconds of its rate, however
\* long the run was held or starved and however many readers share the bucket
\* (TokenBucket._cap_backlog).
CatchUpBounded == clock.burst <= clock.top * Catchup

\* What flush_and_stop's docstring says of the flush that times out: the events
\* still in flight are in the counters it reports.
AbortedCounted ==
    drain = "done" /\ ~summary.flushed =>
        summary.received <= summary.events_total + summary.dropped + summary.dropped_invalid
=============================================================================
