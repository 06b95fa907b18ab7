-------------------------- MODULE AccountingProofs --------------------------
(***************************************************************************)
(* What a run delivered, proved for any number of connections, senders and *)
(* slots: the accounting of the worker's data path (DataPath) and of the   *)
(* run's totals (RunTotals), and what its engines made (Generators).       *)
(***************************************************************************)
EXTENDS DataPath, RunTotals, Generators, SumTheorems

(***************************************************************************)
(* The data path: the inductive invariant.                                 *)
(***************************************************************************)

ReaderRec == [pc : {"none", "recv", "lines", "check", "reserved", "put", "gone"},
              lines : Seq(Kinds), batch : Seq(Kinds)]

SenderRec == [pc : {"get", "fill", "post", "backoff", "inflight", "exit"},
              batch : Nat, attempt : Nat]

CounterRec == [received : Nat, malformed : Nat, events_total : Nat,
               dropped : Nat, dropped_invalid : Nat]

GeneratorTypes ==
    /\ gen \in [Conns -> [pc : {"unborn", "connecting", "up", "ended", "failed"},
                          wrote : Nat]]
    /\ wire \in [Conns -> Seq(Kinds)]

ThreadTypes ==
    /\ mode \in Modes
    /\ reader \in [Conns -> ReaderRec]
    /\ queue \in Seq(Seq(Kinds))
    /\ lineEvents \in Int
    /\ sender \in [Senders -> SenderRec]
    /\ ctr \in CounterRec
    /\ granted \in [released : Nat, refused : Nat]

PacingTypes ==
    /\ bucket \in [rate : Rates, backlog : Nat, paused : BOOLEAN, closed : BOOLEAN]
    /\ clock \in [ticks : Nat, retargets : Nat, burst : Nat, top : Nat]

(* Only a reader between the bucket and the queue holds a batch, only a    *)
(* line batch is reserved for, and a sender that waits for its first item  *)
(* or has ended holds nothing.                                             *)
ReaderShape(r) ==
    /\ r.pc = "lines" => r.lines # <<>>
    /\ r.pc \notin {"check", "reserved", "put"} => r.batch = <<>>
    /\ r.pc = "reserved" => mode.envelope = "hec"

SenderShape(x) == x.pc \in {"get", "exit"} => x.batch = 0

Shape ==
    /\ \A c \in Conns : ReaderShape(reader[c])
    /\ \A s \in Senders : SenderShape(sender[s])

(* Every accepted event is queued, in a batch or resolved.                 *)
Accepted == ctr.received = Queued + InBatches + Resolved

Reservation(r) == IF r.pc \in {"reserved", "put"} THEN Len(r.batch) ELSE 0
Reserving == SumFunction([c \in Conns |-> Reservation(reader[c])])

Roomed == lineEvents = IF mode.envelope = "hec" THEN Queued + Reserving ELSE 0

Released == granted.released = InReaders + ctr.received + granted.refused

Counted == Accepted /\ Roomed /\ Released

SummaryTrue ==
    drain = "done" /\ summary.flushed =>
        summary.received = summary.events_total + summary.dropped + summary.dropped_invalid

(* What this instant released and what it could still release stay within  *)
(* the catch-up of the highest rate it had.                                *)
Paced ==
    /\ bucket.rate <= clock.top
    /\ clock.burst > 0 => clock.burst + bucket.backlog <= clock.top * Catchup

PathInv ==
    /\ GeneratorTypes /\ ThreadTypes /\ PacingTypes
    /\ Shape /\ Counted /\ SummaryTrue /\ Paced

-----------------------------------------------------------------------------
(* Facts about the operators.                                              *)

(* The lesser and the greater of two numbers.                              *)
LEMMA MinOfTwo ==
    ASSUME NEW a \in Int, NEW b \in Int
    PROVE  /\ Min({a, b}) \in {a, b} /\ Min({a, b}) <= a /\ Min({a, b}) <= b
           /\ Max({a, b}) \in {a, b} /\ Max({a, b}) >= a /\ Max({a, b}) >= b
<1>1. \E x \in {a, b} : \A y \in {a, b} : x =< y
  <2>1. CASE a <= b
    BY <2>1
  <2>2. CASE b <= a
    BY <2>2
  <2> QED BY <2>1, <2>2
<1>2. \E x \in {a, b} : \A y \in {a, b} : x >= y
  <2>1. CASE a <= b
    BY <2>1
  <2>2. CASE b <= a
    BY <2>2
  <2> QED BY <2>1, <2>2
<1> QED BY <1>1, <1>2 DEF Min, Max

(* A larger rate has a larger catch-up.                                    *)
LEMMA CatchupGrows ==
    ASSUME NEW a \in Nat, NEW b \in Nat, a <= b, NEW k \in Nat
    PROVE  a * k \in Nat /\ b * k \in Nat /\ a * k <= b * k
OBVIOUS

Keeps(g, lines, n) ==
    g = [i \in 0 .. n |->
           IF i = 0 THEN <<>>
           ELSE IF lines[i] = "junk" THEN g[i - 1] ELSE Append(g[i - 1], lines[i])]

(* The recursion of Good has a solution.                                   *)
LEMMA KeptExists ==
    ASSUME NEW lines, NEW n \in Nat
    PROVE  \E g : Keeps(g, lines, n)
<1> DEFINE Bad == {m \in Nat : ~ \E g : Keeps(g, lines, m)}
<1>1. SUFFICES ASSUME Bad # {} PROVE FALSE
  OBVIOUS
<1>2. PICK m \in Bad : \A k \in Bad : m <= k
  BY <1>1, LeastNat
<1>3. m # 0
  <2> DEFINE g == [i \in 0 .. 0 |-> <<>>]
  <2>1. Keeps(g, lines, 0)
    BY DEF Keeps
  <2> QED BY <2>1, <1>2
<1>4. m - 1 \in Nat /\ m - 1 \notin Bad
  BY <1>2, <1>3
<1>5. PICK h : Keeps(h, lines, m - 1)
  BY <1>4
<1> DEFINE g == [i \in 0 .. m |->
                   IF i = m
                   THEN IF lines[m] = "junk" THEN h[m - 1] ELSE Append(h[m - 1], lines[m])
                   ELSE h[i]]
<1>6. Keeps(g, lines, m)
  <2>1. SUFFICES ASSUME NEW i \in 0 .. m
        PROVE  g[i] = IF i = 0 THEN <<>>
                      ELSE IF lines[i] = "junk" THEN g[i - 1] ELSE Append(g[i - 1], lines[i])
    BY DEF Keeps
  <2>2. CASE i = m
    <3>1. i - 1 \in 0 .. m /\ i - 1 # m
      BY <2>2, <1>3, <1>2
    <3> QED BY <2>2, <1>3, <3>1
  <2>3. CASE i # m
    <3>1. i \in 0 .. m - 1
      BY <2>3, <1>2
    <3>2. h[i] = IF i = 0 THEN <<>>
                 ELSE IF lines[i] = "junk" THEN h[i - 1] ELSE Append(h[i - 1], lines[i])
      BY <3>1, <1>5 DEF Keeps
    <3>3. i # 0 => i - 1 \in 0 .. m /\ i - 1 # m
      BY <2>1, <1>2
    <3> QED BY <2>3, <3>2, <3>3
  <2> QED BY <2>2, <2>3
<1> QED BY <1>6, <1>2

(* Good returns lines, and no more than it was given.                      *)
LEMMA GoodType ==
    ASSUME NEW lines \in Seq(Kinds)
    PROVE  Good(lines) \in Seq(Kinds) /\ Len(Good(lines)) <= Len(lines)
<1> DEFINE n == Len(lines)
<1>1. n \in Nat
  OBVIOUS
<1>2. PICK g : Keeps(g, lines, n) /\ Good(lines) = g[n]
  <2>1. \E g : Keeps(g, lines, n)
    BY <1>1, KeptExists
  <2> QED BY <2>1 DEF Keeps, Good
<1> DEFINE Bad == {i \in Nat : i <= n /\ ~(g[i] \in Seq(Kinds) /\ Len(g[i]) <= i)}
<1>3. SUFFICES ASSUME Bad # {} PROVE FALSE
  BY <1>1, <1>2
<1>4. PICK i \in Bad : \A k \in Bad : i <= k
  BY <1>3, LeastNat
<1>5. g[i] = IF i = 0 THEN <<>>
             ELSE IF lines[i] = "junk" THEN g[i - 1] ELSE Append(g[i - 1], lines[i])
  <2>1. i \in 0 .. n
    BY <1>4, <1>1
  <2> HIDE DEF n, Bad
  <2> QED BY <1>2, <2>1 DEF Keeps
<1>6. i # 0
  <2>1. <<>> \in Seq(Kinds) /\ Len(<<>>) = 0
    OBVIOUS
  <2>2. i = 0 => g[i] = <<>>
    BY <1>5
  <2>3. ~(g[i] \in Seq(Kinds) /\ Len(g[i]) <= i)
    BY <1>4
  <2> HIDE DEF n, Bad
  <2>4. Len(<<>>) <= 0
    BY <2>1
  <2> QED BY <2>1, <2>2, <2>3, <2>4
<1>7. i - 1 \in Nat /\ i - 1 \notin Bad /\ i \in 1 .. n
  BY <1>6, <1>4, <1>1
<1>8. g[i - 1] \in Seq(Kinds) /\ Len(g[i - 1]) <= i - 1
  BY <1>7, <1>1
<1>9. lines[i] \in Kinds
  BY <1>7
<1>10. g[i] \in Seq(Kinds) /\ Len(g[i]) <= i
  <2>1. CASE lines[i] = "junk"
    BY <1>4, <1>5, <1>6, <1>8, <2>1
  <2>2. CASE lines[i] # "junk"
    <3>1. g[i] = Append(g[i - 1], lines[i])
      BY <1>5, <1>6, <2>2
    <3>2. Append(g[i - 1], lines[i]) \in Seq(Kinds)
          /\ Len(Append(g[i - 1], lines[i])) = Len(g[i - 1]) + 1
      BY <1>8, <1>9
    <3> QED BY <1>4, <1>8, <3>1, <3>2
  <2> QED BY <2>1, <2>2
<1> QED BY <1>10, <1>4

(* Serialising an item yields at most its events.                          *)
LEMMA SerialisedType ==
    ASSUME NEW item \in Seq(Kinds)
    PROVE  Serialised(item) \in Nat /\ Serialised(item) <= Len(item)
<1> DEFINE n == Len(item)
           fit == {i \in DOMAIN item : item[i] # "odd"}
           all == 1 .. n
<1>1. n \in Nat /\ DOMAIN item = all
  OBVIOUS
<1>2. fit \subseteq all
  BY <1>1
<1>3. IsFiniteSet(all) /\ Cardinality(all) = n
  BY <1>1, FS_Interval
<1> HIDE DEF fit, all
<1>4. IsFiniteSet(fit) /\ Cardinality(fit) <= Cardinality(all)
  BY <1>2, <1>3, FS_Subset
<1>5. Cardinality(fit) \in Nat
  BY <1>4, FS_CardinalityType
<1> QED BY <1>1, <1>3, <1>4, <1>5 DEF Serialised, fit

-----------------------------------------------------------------------------
(* The sums.                                                               *)

(* They count naturals.                                                    *)
LEMMA SumTypes ==
    ASSUME ThreadTypes
    PROVE  /\ Queued \in Nat /\ InBatches \in Nat /\ InReaders \in Nat /\ Reserving \in Nat
           /\ Queued = SumFunction(Lengths(queue))
<1>1. [c \in Conns |-> Held(c)] \in [Conns -> Nat]
  BY DEF ThreadTypes, ReaderRec, Held
<1>2. [c \in Conns |-> Reservation(reader[c])] \in [Conns -> Nat]
  BY DEF ThreadTypes, ReaderRec, Reservation
<1>3. [s \in Senders |-> sender[s].batch] \in [Senders -> Nat]
  BY DEF ThreadTypes, SenderRec
<1>4. Queued = SumFunction(Lengths(queue))
  BY DEF Queued, Lengths
<1>5. SumFunction(Lengths(queue)) \in Nat
  BY LengthsType DEF ThreadTypes
<1> QED BY <1>1, <1>2, <1>3, <1>4, <1>5, PositiveBounds, SumFunctionType
        DEF InReaders, Reserving, InBatches

(* A step of one reader moves the sums by what that reader's hand changes. *)
LEMMA ReaderSums ==
    ASSUME ThreadTypes, reader' \in [Conns -> ReaderRec], NEW c \in Conns,
           \A d \in Conns \ {c} : reader'[d] = reader[d]
    PROVE  /\ InReaders' = InReaders - Len(reader[c].batch) + Len(reader'[c].batch)
           /\ Reserving' = Reserving - Reservation(reader[c]) + Reservation(reader'[c])
<1> DEFINE f == [d \in Conns |-> Len(reader[d].batch)]
           g == [d \in Conns |-> Len(reader'[d].batch)]
           h == [d \in Conns |-> Reservation(reader[d])]
           k == [d \in Conns |-> Reservation(reader'[d])]
<1>1. /\ f \in [Conns -> Int] /\ g \in [Conns -> Int]
      /\ h \in [Conns -> Int] /\ k \in [Conns -> Int]
  BY DEF ThreadTypes, ReaderRec, Reservation
<1>2. /\ f[c] = Len(reader[c].batch) /\ g[c] = Len(reader'[c].batch)
      /\ h[c] = Reservation(reader[c]) /\ k[c] = Reservation(reader'[c])
      /\ \A d \in Conns \ {c} : g[d] = f[d] /\ k[d] = h[d]
  OBVIOUS
<1>3. /\ InReaders = SumFunction(f) /\ InReaders' = SumFunction(g)
      /\ Reserving = SumFunction(h) /\ Reserving' = SumFunction(k)
  BY DEF InReaders, Reserving, Held
<1> HIDE DEF f, g, h, k
<1>4. SumFunction(g) = SumFunction(f) - f[c] + g[c]
  <2>1. f \in [Conns -> Int] /\ g \in [Conns -> Int] /\ \A d \in Conns \ {c} : g[d] = f[d]
    BY <1>1, <1>2
  <2> QED BY <2>1, PositiveBounds, SumUpdate
<1>5. SumFunction(k) = SumFunction(h) - h[c] + k[c]
  <2>1. h \in [Conns -> Int] /\ k \in [Conns -> Int] /\ \A d \in Conns \ {c} : k[d] = h[d]
    BY <1>1, <1>2
  <2> QED BY <2>1, PositiveBounds, SumUpdate
<1> QED BY <1>2, <1>3, <1>4, <1>5

(* The same for a sender and its batch.                                    *)
LEMMA SenderSums ==
    ASSUME ThreadTypes, sender' \in [Senders -> SenderRec], NEW s \in Senders,
           \A t \in Senders \ {s} : sender'[t] = sender[t]
    PROVE  InBatches' = InBatches - sender[s].batch + sender'[s].batch
<1> DEFINE f == [t \in Senders |-> sender[t].batch]
           g == [t \in Senders |-> sender'[t].batch]
<1>1. f \in [Senders -> Int] /\ g \in [Senders -> Int]
  BY DEF ThreadTypes, SenderRec
<1>2. /\ f[s] = sender[s].batch /\ g[s] = sender'[s].batch
      /\ \A t \in Senders \ {s} : g[t] = f[t]
  OBVIOUS
<1>3. InBatches = SumFunction(f) /\ InBatches' = SumFunction(g)
  BY DEF InBatches
<1> HIDE DEF f, g
<1> QED BY <1>1, <1>2, <1>3, PositiveBounds, SumUpdate

-----------------------------------------------------------------------------
(* What the steps leave alone.                                             *)

Aside == UNCHANGED <<mode, reader, queue, lineEvents, sender, ctr, granted>>

(* The engine, the commands and the drain touch no event.                  *)
LEMMA AsideFrame == Engine \/ Commands \/ Drain => Aside
<1>1. Engine => Aside
  BY DEF Engine, start, restart, connect, send, exhaust, Aside, hecVars
<1>2. Commands => Aside
  BY DEF Commands, Tick, pause, retarget, Aside, hecVars
<1>3. Drain => Aside
  BY DEF Drain, close, begin_stop, sock_stop, sock_join, engine_stop, flush_and_stop,
         abort_join, Aside, hecVars
<1> QED BY <1>1, <1>2, <1>3

(* A reader leaves the senders and the drain alone.                        *)
LEMMA ReaderFrame ==
    ASSUME NEW c \in Conns, Reader(c)
    PROVE  UNCHANGED <<mode, sender, drain, summary, gen>>
BY DEF Reader, accept, recv, hang_up, skip, acquire, put_check, put_lines, reserved, put

(* A sender leaves the readers, the bucket and the drain alone.            *)
LEMMA SenderFrame ==
    ASSUME NEW s \in Senders, Sender(s)
    PROVE  UNCHANGED <<mode, reader, drain, summary, gen, wire, bucket, clock, granted>>
BY DEF Sender, _absorb, _collect_batch, attempt, _send_batch

-----------------------------------------------------------------------------
(* The engine's processes.                                                 *)

(* What a killed process leaves on the wire is a line still.               *)
LEMMA KilledTypes ==
    ASSUME GeneratorTypes, Killed(gen', wire')
    PROVE  GeneratorTypes'
<1>1. gen' \in [Conns -> [pc : {"unborn", "connecting", "up", "ended", "failed"}, wrote : Nat]]
  BY DEF GeneratorTypes, Killed, Alive
<1>2. wire' \in [Conns -> Seq(Kinds)]
  <2>1. PICK Cut : wire' = [c \in Conns |-> IF c \in Cut THEN Append(wire[c], "junk")
                                           ELSE wire[c]]
    BY DEF Killed
  <2>2. \A c \in Conns : wire[c] \in Seq(Kinds) /\ Append(wire[c], "junk") \in Seq(Kinds)
    BY DEF GeneratorTypes, Kinds
  <2> QED BY <2>1, <2>2
<1> QED BY <1>1, <1>2 DEF GeneratorTypes

(* The wire carries lines.                                                 *)
LEMMA GeneratorStep ==
    ASSUME PathInv, PathNext
    PROVE  GeneratorTypes'
<1> USE DEF PathInv
<1>1. ASSUME Engine PROVE GeneratorTypes'
  <2>1. CASE start
    BY <2>1 DEF start, GeneratorTypes
  <2>2. CASE restart
    BY <2>2, KilledTypes DEF restart
  <2>3. ASSUME NEW c \in Conns, connect(c) PROVE GeneratorTypes'
    BY <2>3 DEF connect, GeneratorTypes
  <2>4. ASSUME NEW c \in Conns, send(c) PROVE GeneratorTypes'
    <3>1. Dataset[gen[c].wrote + 1] \in Kinds /\ wire[c] \in Seq(Kinds)
      BY <2>4, DatasetAssumption DEF send, GeneratorTypes
    <3>2. Append(wire[c], Dataset[gen[c].wrote + 1]) \in Seq(Kinds)
      BY <3>1
    <3>3. wire' \in [Conns -> Seq(Kinds)]
      BY <2>4, <3>2 DEF send, GeneratorTypes
    <3>4. gen[c].wrote + 1 \in Nat
      BY DEF GeneratorTypes
    <3>5. gen' \in [Conns -> [pc : {"unborn", "connecting", "up", "ended", "failed"}, wrote : Nat]]
      BY <2>4, <3>4, ZenonT(60) DEF send, GeneratorTypes
    <3> QED BY <3>3, <3>5 DEF GeneratorTypes
  <2>5. ASSUME NEW c \in Conns, exhaust(c) PROVE GeneratorTypes'
    BY <2>5 DEF exhaust, GeneratorTypes
  <2> QED BY <1>1, <2>1, <2>2, <2>3, <2>4, <2>5 DEF Engine
<1>2. ASSUME Commands PROVE GeneratorTypes'
  BY <1>2 DEF Commands, Tick, pause, retarget, GeneratorTypes
<1>3. ASSUME Drain PROVE GeneratorTypes'
  <2>1. CASE sock_stop
    BY <2>1 DEF sock_stop, GeneratorTypes
  <2>2. CASE engine_stop
    BY <2>2, KilledTypes DEF engine_stop
  <2>3. CASE close \/ begin_stop \/ sock_join \/ flush_and_stop \/ abort_join
    BY <2>3 DEF close, begin_stop, sock_join, flush_and_stop, abort_join, GeneratorTypes
  <2> QED BY <1>3, <2>1, <2>2, <2>3 DEF Drain
<1>4. ASSUME NEW c \in Conns, Reader(c) PROVE GeneratorTypes'
  <2>1. CASE recv(c)
    <3>1. PICK n \in 1 .. Len(wire[c]) :
             wire' = [wire EXCEPT ![c] = SubSeq(@, n + 1, Len(@))] /\ gen' = gen
      BY <2>1 DEF recv
    <3>2. wire[c] \in Seq(Kinds)
      BY DEF GeneratorTypes
    <3>3. SubSeq(wire[c], n + 1, Len(wire[c])) \in Seq(Kinds)
      BY <3>2
    <3> QED BY <3>1, <3>3 DEF GeneratorTypes
  <2>2. CASE ~recv(c)
    BY <1>4, <2>2 DEF Reader, accept, hang_up, skip, acquire, put_check, put_lines,
                      reserved, put, GeneratorTypes
  <2> QED BY <2>1, <2>2
<1>5. ASSUME NEW s \in Senders, Sender(s) PROVE GeneratorTypes'
  BY <1>5, SenderFrame DEF GeneratorTypes
<1> QED BY <1>1, <1>2, <1>3, <1>4, <1>5 DEF PathNext

-----------------------------------------------------------------------------
(* Pacing.                                                                 *)

(* One grant: the instant's total grows by what the backlog loses.         *)
LEMMA GrantPaced ==
    ASSUME PacingTypes, Paced, NEW n \in Nat, n <= Available, n > 0,
           bucket' = [bucket EXCEPT !.backlog = Available - n],
           clock' = [clock EXCEPT !.burst = @ + n]
    PROVE  PacingTypes' /\ Paced'
<1>1. /\ bucket.rate \in Nat /\ bucket.backlog \in Nat /\ Catchup \in Nat
      /\ clock.top \in Nat /\ clock.burst \in Nat
  BY PositiveBounds DEF PacingTypes
<1>2. bucket.rate * Catchup \in Nat /\ clock.top * Catchup \in Nat
      /\ bucket.rate * Catchup <= clock.top * Catchup
  BY <1>1, CatchupGrows DEF Paced
<1> DEFINE rc == bucket.rate * Catchup
           tc == clock.top * Catchup
<1>3. /\ Available \in {bucket.backlog, rc}
      /\ Available <= bucket.backlog /\ Available <= rc
  <2> HIDE DEF rc
  <2>1. rc \in Int /\ bucket.backlog \in Int /\ Available = Min({bucket.backlog, rc})
    BY <1>1, <1>2 DEF Available, _cap_backlog, rc
  <2> QED BY <2>1, MinOfTwo, Zenon
<1>4. /\ clock'.burst = clock.burst + n /\ clock'.top = clock.top
      /\ bucket'.rate = bucket.rate /\ bucket'.backlog = Available - n
  BY DEF PacingTypes
<1>5. PacingTypes'
  <2>1. Available - n \in Nat /\ clock.burst + n \in Nat
    BY <1>1, <1>2, <1>3
  <2> QED BY <2>1 DEF PacingTypes
<1>6. clock.burst > 0 => clock.burst + bucket.backlog <= tc
  BY DEF Paced
<1>7. rc \in Nat /\ tc \in Nat /\ rc <= tc
  BY <1>2
<1> HIDE DEF rc, tc
<1>8. clock.burst + n + (Available - n) <= tc
  BY <1>1, <1>3, <1>6, <1>7
<1> QED BY <1>4, <1>5, <1>8 DEF Paced, tc

(* No step lets an instant exceed its catch-up.                            *)
LEMMA PacedStep ==
    ASSUME PathInv, PathNext
    PROVE  PacingTypes' /\ Paced'
<1> USE DEF PathInv
<1>0. /\ bucket.rate \in Nat /\ bucket.backlog \in Nat /\ Catchup \in Nat
      /\ clock.top \in Nat /\ clock.burst \in Nat
  BY PositiveBounds DEF PacingTypes
<1>1. ASSUME UNCHANGED <<bucket, clock>> PROVE PacingTypes' /\ Paced'
  BY <1>1 DEF PacingTypes, Paced
<1>2. ASSUME Commands PROVE PacingTypes' /\ Paced'
  <2>1. CASE Tick
    <3>1. /\ bucket' = [bucket EXCEPT !.backlog = bucket.backlog + bucket.rate]
          /\ clock' = [clock EXCEPT !.ticks = @ + 1, !.burst = 0, !.top = bucket.rate]
      BY <2>1 DEF Tick, PacingTypes
    <3>2. bucket.backlog + bucket.rate \in Nat /\ clock.ticks + 1 \in Nat
      BY <1>0 DEF PacingTypes
    <3>3. PacingTypes'
      BY <1>0, <3>1, <3>2 DEF PacingTypes
    <3>4. clock'.burst = 0 /\ clock'.top = bucket.rate /\ bucket'.rate = bucket.rate
      BY <3>1 DEF PacingTypes
    <3> QED BY <1>0, <3>3, <3>4 DEF Paced
  <2>2. CASE pause
    BY <2>2, <1>0 DEF pause, PacingTypes, Paced
  <2>3. CASE retarget
    <3>1. PICK r \in Rates : /\ bucket' = [bucket EXCEPT !.rate = r]
                             /\ clock' = [clock EXCEPT !.retargets = @ + 1, !.top = Max({@, r})]
      BY <2>3 DEF retarget
    <3>2. r \in Nat
      BY PositiveBounds
    <3> DEFINE top == Max({clock.top, r})
    <3>3. top \in Nat /\ top >= clock.top /\ top >= r
      <4>1. clock.top \in Int /\ r \in Int
        BY <1>0, <3>2
      <4>2. top \in {clock.top, r} /\ top >= clock.top /\ top >= r
        BY <4>1, MinOfTwo, Zenon
      <4> QED BY <1>0, <3>2, <4>2
    <3>4. /\ clock'.top = top /\ clock'.burst = clock.burst
          /\ bucket'.rate = r /\ bucket'.backlog = bucket.backlog
      BY <3>1 DEF PacingTypes
    <3>5. PacingTypes'
      <4> HIDE DEF top
      <4>1. clock' = [clock EXCEPT !.retargets = clock.retargets + 1, !.top = top]
        BY <3>1 DEF PacingTypes, top
      <4>2. clock.retargets + 1 \in Nat
        BY DEF PacingTypes
      <4> QED BY <3>1, <3>3, <4>1, <4>2 DEF PacingTypes
    <3> HIDE DEF top
    <3>6. clock.top * Catchup \in Nat /\ top * Catchup \in Nat
          /\ clock.top * Catchup <= top * Catchup
      BY <1>0, <3>3, CatchupGrows
    <3>7. clock.burst > 0 => clock.burst + bucket.backlog <= clock.top * Catchup
      BY DEF Paced
    <3>8. clock.burst > 0 => clock.burst + bucket.backlog <= top * Catchup
      BY <1>0, <3>6, <3>7
    <3> QED BY <3>3, <3>4, <3>5, <3>8 DEF Paced
  <2> QED BY <1>2, <2>1, <2>2, <2>3 DEF Commands
<1>3. ASSUME Engine PROVE PacingTypes' /\ Paced'
  BY <1>3, <1>1 DEF Engine, start, restart, connect, send, exhaust
<1>4. ASSUME Drain PROVE PacingTypes' /\ Paced'
  <2>1. CASE close
    BY <2>1, <1>0 DEF close, PacingTypes, Paced
  <2>2. CASE ~close
    BY <1>4, <1>1, <2>2 DEF Drain, begin_stop, sock_stop, sock_join, engine_stop,
                            flush_and_stop, abort_join
  <2> QED BY <2>1, <2>2
<1>5. ASSUME NEW c \in Conns, Reader(c) PROVE PacingTypes' /\ Paced'
  <2>1. CASE acquire(c)
    <3>1. CASE UNCHANGED <<bucket, clock>>
      BY <3>1, <1>1
    <3>2. CASE ~UNCHANGED <<bucket, clock>>
      <4> DEFINE n == Min({Wanted(c), Available})
      <4>1. /\ n > 0
            /\ bucket' = [bucket EXCEPT !.backlog = Available - n]
            /\ clock' = [clock EXCEPT !.burst = @ + n]
        BY <2>1, <3>2 DEF acquire
      <4>2. Wanted(c) \in Int
        BY DEF Wanted
      <4>3. Available \in Int
        <5>1. bucket.backlog \in Int /\ bucket.rate * Catchup \in Int
          BY <1>0
        <5>2. Available \in {bucket.backlog, bucket.rate * Catchup}
          BY <5>1, MinOfTwo, Zenon DEF Available, _cap_backlog
        <5> QED BY <1>0, <5>1, <5>2
      <4>4. n \in Int /\ n <= Available
        <5>1. n \in {Wanted(c), Available} /\ n <= Available
          BY <4>2, <4>3, MinOfTwo, Zenon
        <5> QED BY <4>2, <4>3, <5>1
      <4> HIDE DEF n
      <4> QED BY <4>1, <4>4, GrantPaced
    <3> QED BY <3>1, <3>2
  <2>2. CASE ~acquire(c)
    BY <1>1, <1>5, <2>2 DEF Reader, accept, recv, hang_up, skip, put_check, put_lines,
                            reserved, put
  <2> QED BY <2>1, <2>2
<1>6. ASSUME NEW s \in Senders, Sender(s) PROVE PacingTypes' /\ Paced'
  BY <1>1, <1>6, SenderFrame
<1> QED BY <1>2, <1>3, <1>4, <1>5, <1>6 DEF PathNext

-----------------------------------------------------------------------------
(* Readers.                                                                *)

(* What a reader's step does to the sums, from the record it leaves.       *)
LEMMA ReaderMoves ==
    ASSUME PathInv, NEW c \in Conns, NEW r \in ReaderRec, ReaderShape(r),
           reader' = [reader EXCEPT ![c] = r], UNCHANGED <<mode, sender>>,
           queue' \in Seq(Seq(Kinds)), lineEvents' \in Int, ctr' \in CounterRec,
           granted' \in [released : Nat, refused : Nat]
    PROVE  /\ ThreadTypes' /\ Shape'
           /\ InBatches' = InBatches
           /\ InReaders' = InReaders - Len(reader[c].batch) + Len(r.batch)
           /\ Reserving' = Reserving - Reservation(reader[c]) + Reservation(r)
<1>1. reader' \in [Conns -> ReaderRec]
  BY DEF PathInv, ThreadTypes
<1>2. ThreadTypes'
  BY <1>1 DEF PathInv, ThreadTypes
<1>3. reader'[c] = r /\ \A d \in Conns \ {c} : reader'[d] = reader[d]
  BY DEF PathInv, ThreadTypes
<1>4. Shape'
  <2>1. \A d \in Conns : ReaderShape(reader[d])'
    BY <1>3 DEF PathInv, Shape, ReaderShape
  <2>2. \A s \in Senders : SenderShape(sender[s])'
    BY DEF PathInv, Shape, SenderShape
  <2> QED BY <2>1, <2>2 DEF Shape
<1>5. InBatches' = InBatches
  BY DEF InBatches
<1> QED BY <1>1, <1>2, <1>3, <1>4, <1>5, ReaderSums DEF PathInv

(* A step that changes no event's place: the reader keeps its hand and its *)
(* reservation, and no counter but malformed moves.                        *)
LEMMA ReaderIdles ==
    ASSUME PathInv, NEW c \in Conns, NEW r \in ReaderRec, ReaderShape(r),
           reader' = [reader EXCEPT ![c] = r],
           UNCHANGED <<mode, sender, queue, lineEvents, granted>>,
           NEW k \in Nat, ctr' = [ctr EXCEPT !.malformed = @ + k],
           Len(r.batch) = Len(reader[c].batch), Reservation(r) = Reservation(reader[c])
    PROVE  ThreadTypes' /\ Shape' /\ Counted'
<1>1. ctr' \in CounterRec /\ ctr'.received = ctr.received /\ Resolved' = Resolved
  <2>1. ctr \in CounterRec /\ ctr.malformed + k \in Nat
    BY DEF PathInv, ThreadTypes, CounterRec
  <2> QED BY <2>1 DEF CounterRec, Resolved
<1>2. /\ queue' \in Seq(Seq(Kinds)) /\ lineEvents' \in Int
      /\ granted' \in [released : Nat, refused : Nat]
  BY DEF PathInv, ThreadTypes
<1>3. Queued' = Queued
  BY DEF Queued
<1>4. /\ ThreadTypes' /\ Shape' /\ InBatches' = InBatches
      /\ InReaders' = InReaders - Len(reader[c].batch) + Len(r.batch)
      /\ Reserving' = Reserving - Reservation(reader[c]) + Reservation(r)
  BY <1>1, <1>2, ReaderMoves
<1>5. InReaders \in Nat /\ Reserving \in Nat /\ Reservation(reader[c]) \in Nat
      /\ Len(reader[c].batch) \in Nat
  BY SumTypes DEF PathInv, ThreadTypes, ReaderRec, Reservation
<1>6. InReaders' = InReaders /\ Reserving' = Reserving
  BY <1>4, <1>5
<1> QED BY <1>1, <1>3, <1>4, <1>6 DEF PathInv, Counted, Accepted, Roomed, Released

(* Reading lines from the socket.                                          *)
LEMMA recvCounted ==
    ASSUME PathInv, NEW c \in Conns, recv(c)
    PROVE  ThreadTypes' /\ Shape' /\ Counted'
<1> DEFINE got(n) == SubSeq(wire[c], 1, n)
           kept(n) == IF mode.envelope = "hec" THEN Good(got(n)) ELSE got(n)
<1>1. PICK n \in 1 .. Len(wire[c]) :
        /\ reader' = [reader EXCEPT ![c].lines = kept(n), ![c].pc = After(kept(n))]
        /\ ctr' = [ctr EXCEPT !.malformed = @ + Len(got(n)) - Len(kept(n))]
  BY DEF recv
<1>2. wire[c] \in Seq(Kinds)
  BY DEF PathInv, GeneratorTypes
<1>3. got(n) \in Seq(Kinds)
  BY <1>2
<1>4. kept(n) \in Seq(Kinds) /\ Len(kept(n)) <= Len(got(n))
  <2> HIDE DEF got
  <2> QED BY <1>3, GoodType
<1> DEFINE g == got(n)
           lines == kept(n)
           k == Len(g) - Len(lines)
<1> HIDE DEF got, kept
<1>5. k \in Nat
  BY <1>3, <1>4
<1>6. ctr' = [ctr EXCEPT !.malformed = @ + k]
  <2>1. ctr.malformed \in Int /\ Len(g) \in Int /\ Len(lines) \in Int
    BY <1>3, <1>4 DEF PathInv, ThreadTypes, CounterRec
  <2>2. ctr.malformed + Len(g) - Len(lines) = ctr.malformed + k
    BY <2>1
  <2> QED BY <1>1, <2>2
<1> HIDE DEF g, k, lines
<1> DEFINE r == [reader[c] EXCEPT !.lines = lines, !.pc = After(lines)]
<1>7. reader[c] \in ReaderRec /\ reader[c].pc = "recv" /\ ReaderShape(reader[c])
  BY DEF PathInv, ThreadTypes, Shape, recv
<1>8. /\ r \in ReaderRec /\ ReaderShape(r) /\ r.batch = reader[c].batch
      /\ Reservation(r) = Reservation(reader[c])
  BY <1>4, <1>7 DEF ReaderRec, ReaderShape, Reservation, After, lines
<1>9. reader' = [reader EXCEPT ![c] = r]
  BY <1>1 DEF PathInv, ThreadTypes, lines
<1>10. UNCHANGED <<mode, sender, queue, lineEvents, granted>>
  BY DEF recv, hecVars
<1> HIDE DEF r
<1> QED BY <1>5, <1>6, <1>8, <1>9, <1>10, ReaderIdles

(* Accepting, hanging up, skipping a line, and finding the bucket closed.  *)
LEMMA IdleCounted ==
    ASSUME PathInv, NEW c \in Conns,
           accept(c) \/ hang_up(c) \/ skip(c) \/ (acquire(c) /\ bucket.closed)
    PROVE  ThreadTypes' /\ Shape' /\ Counted'
<1>1. reader[c] \in ReaderRec /\ ReaderShape(reader[c])
  BY DEF PathInv, ThreadTypes, Shape
<1>2. ctr \in CounterRec
  BY DEF PathInv, ThreadTypes
<1>3. ctr = [ctr EXCEPT !.malformed = @ + 0]
  BY <1>2 DEF CounterRec
<1>4. ASSUME NEW r \in ReaderRec, ReaderShape(r), reader' = [reader EXCEPT ![c] = r],
             UNCHANGED <<mode, sender, queue, lineEvents, granted>>,
             NEW k \in Nat, ctr' = [ctr EXCEPT !.malformed = @ + k],
             r.batch = <<>>, reader[c].batch = <<>>
      PROVE  ThreadTypes' /\ Shape' /\ Counted'
  <2>1. Reservation(r) = 0 /\ Reservation(reader[c]) = 0
    BY <1>4 DEF Reservation
  <2>2. Len(r.batch) = Len(reader[c].batch)
    BY <1>4
  <2> QED BY <1>4, <2>1, <2>2, ReaderIdles
<1>5. CASE accept(c)
  <2> DEFINE r == [reader[c] EXCEPT !.pc = "recv"]
  <2>1. r \in ReaderRec /\ ReaderShape(r) /\ r.batch = <<>> /\ reader[c].batch = <<>>
    BY <1>1, <1>5 DEF accept, ReaderRec, ReaderShape
  <2>2. /\ reader' = [reader EXCEPT ![c] = r]
        /\ UNCHANGED <<mode, sender, queue, lineEvents, granted, ctr>>
    BY <1>5 DEF accept, hecVars, PathInv, ThreadTypes
  <2> HIDE DEF r
  <2> QED BY <1>3, <1>4, <2>1, <2>2
<1>6. CASE hang_up(c)
  <2> DEFINE r == [reader[c] EXCEPT !.pc = "gone"]
  <2>1. r \in ReaderRec /\ ReaderShape(r) /\ r.batch = <<>> /\ reader[c].batch = <<>>
    BY <1>1, <1>6 DEF hang_up, ReaderRec, ReaderShape
  <2>2. /\ reader' = [reader EXCEPT ![c] = r]
        /\ UNCHANGED <<mode, sender, queue, lineEvents, granted, ctr>>
    BY <1>6 DEF hang_up, hecVars, PathInv, ThreadTypes
  <2> HIDE DEF r
  <2> QED BY <1>3, <1>4, <2>1, <2>2
<1>7. CASE skip(c)
  <2> DEFINE rest == Tail(reader[c].lines)
             r == [reader[c] EXCEPT !.lines = rest, !.pc = After(rest)]
  <2>1. rest \in Seq(Kinds)
    BY <1>1, <1>7 DEF skip, ReaderRec, ReaderShape
  <2>2. /\ reader' = [reader EXCEPT ![c] = r]
        /\ UNCHANGED <<mode, sender, queue, lineEvents, granted>>
        /\ ctr' = [ctr EXCEPT !.malformed = @ + 1]
    BY <1>7 DEF skip, hecVars, PathInv, ThreadTypes
  <2> HIDE DEF rest
  <2>3. r \in ReaderRec /\ ReaderShape(r) /\ r.batch = <<>> /\ reader[c].batch = <<>>
    BY <1>1, <1>7, <2>1 DEF skip, ReaderRec, ReaderShape, After
  <2> HIDE DEF r
  <2> QED BY <1>4, <2>2, <2>3
<1>8. CASE acquire(c) /\ bucket.closed
  <2> DEFINE r == [reader[c] EXCEPT !.pc = "gone", !.lines = <<>>]
  <2>1. r \in ReaderRec /\ ReaderShape(r) /\ r.batch = <<>> /\ reader[c].batch = <<>>
    BY <1>1, <1>8 DEF acquire, ReaderRec, ReaderShape
  <2>2. /\ reader' = [reader EXCEPT ![c] = r]
        /\ UNCHANGED <<mode, sender, queue, lineEvents, granted, ctr>>
    BY <1>8 DEF acquire, hecVars, PathInv, ThreadTypes
  <2> HIDE DEF r
  <2> QED BY <1>3, <1>4, <2>1, <2>2
<1> QED BY <1>5, <1>6, <1>7, <1>8

(* The bucket releases the first lines, and they are in the reader's hand. *)
LEMMA acquireCounted ==
    ASSUME PathInv, NEW c \in Conns, acquire(c), ~bucket.closed
    PROVE  ThreadTypes' /\ Shape' /\ Counted'
<1> DEFINE n == IF mode.gated THEN Min({Wanted(c), Available}) ELSE Wanted(c)
           lines == reader[c].lines
<1>1. /\ reader[c] \in ReaderRec /\ reader[c].pc = "lines" /\ lines \in Seq(Kinds)
      /\ lines # <<>> /\ reader[c].batch = <<>>
  BY DEF PathInv, ThreadTypes, Shape, ReaderShape, ReaderRec, acquire
<1>2. /\ n > 0
      /\ reader' = [reader EXCEPT ![c].pc = "check",
                                  ![c].batch = SubSeq(lines, 1, n),
                                  ![c].lines = SubSeq(@, n + 1, Len(@))]
      /\ granted' = [granted EXCEPT !.released = @ + n]
      /\ UNCHANGED <<mode, sender, queue, lineEvents, ctr>>
  BY DEF acquire, hecVars
<1>3. n \in Int /\ n <= Len(lines)
  <2>1. Wanted(c) \in Int /\ Wanted(c) <= Len(lines)
    BY <1>1 DEF Wanted
  <2>2. Available \in Int
    <3>0. bucket.backlog \in Nat /\ bucket.rate \in Nat /\ Catchup \in Nat
      BY PositiveBounds DEF PathInv, PacingTypes
    <3>1. bucket.backlog \in Int /\ bucket.rate * Catchup \in Int
      BY <3>0
    <3>2. Available \in {bucket.backlog, bucket.rate * Catchup}
      BY <3>1, MinOfTwo, Zenon DEF Available, _cap_backlog
    <3> QED BY <3>1, <3>2
  <2>3. /\ Min({Wanted(c), Available}) \in {Wanted(c), Available}
        /\ Min({Wanted(c), Available}) <= Wanted(c)
    BY <2>1, <2>2, MinOfTwo, Zenon
  <2> QED BY <2>1, <2>2, <2>3
<1> HIDE DEF n
<1> DEFINE taken == SubSeq(lines, 1, n)
           rest == SubSeq(lines, n + 1, Len(lines))
           r == [reader[c] EXCEPT !.pc = "check", !.batch = taken, !.lines = rest]
<1>4. /\ taken \in Seq(Kinds) /\ Len(taken) = n /\ rest \in Seq(Kinds) /\ n \in Nat
  BY <1>1, <1>2, <1>3
<1>5. reader' = [reader EXCEPT ![c] = r]
  BY <1>1, <1>2 DEF PathInv, ThreadTypes, ReaderRec
<1> HIDE DEF taken, rest, lines
<1>6. r \in ReaderRec /\ ReaderShape(r) /\ r.batch = taken /\ Reservation(r) = 0
  BY <1>1, <1>4 DEF ReaderRec, ReaderShape, Reservation
<1> HIDE DEF r
<1>7. /\ granted' \in [released : Nat, refused : Nat]
      /\ granted'.released = granted.released + n /\ granted'.refused = granted.refused
  <2>1. granted.released + n \in Nat /\ granted \in [released : Nat, refused : Nat]
    BY <1>4 DEF PathInv, ThreadTypes
  <2> QED BY <1>2, <2>1
<1>8. queue' \in Seq(Seq(Kinds)) /\ lineEvents' \in Int /\ ctr' \in CounterRec
  BY <1>2 DEF PathInv, ThreadTypes
<1>9. /\ ThreadTypes' /\ Shape' /\ InBatches' = InBatches
      /\ InReaders' = InReaders - Len(reader[c].batch) + Len(r.batch)
      /\ Reserving' = Reserving - Reservation(reader[c]) + Reservation(r)
  BY <1>2, <1>5, <1>6, <1>7, <1>8, ReaderMoves
<1>10. InReaders' = InReaders + n /\ Reserving' = Reserving
  <2>1. Reservation(reader[c]) = 0 /\ Len(reader[c].batch) = 0
    BY <1>1 DEF Reservation
  <2>2. InReaders \in Nat /\ Reserving \in Nat
    BY SumTypes DEF PathInv
  <2> QED BY <1>4, <1>6, <1>9, <2>1, <2>2
<1>11. Queued' = Queued /\ Resolved' = Resolved
  BY <1>2 DEF Queued, Resolved
<1>12. Released'
  <2>1. /\ InReaders \in Nat /\ ctr.received \in Nat /\ granted.refused \in Nat
        /\ granted.released \in Nat
    BY SumTypes DEF PathInv, ThreadTypes, CounterRec
  <2> QED BY <1>2, <1>4, <1>7, <1>10, <2>1 DEF PathInv, Counted, Released
<1> QED BY <1>2, <1>9, <1>10, <1>11, <1>12 DEF PathInv, Counted, Accepted, Roomed

(* A put that meets the drain gives the batch up, and its reservation.     *)
LEMMA RefuseCounted ==
    ASSUME PathInv, NEW c \in Conns, Refuse(c),
           reader[c].pc \in {"check", "reserved"},
           UNCHANGED <<mode, sender, queue, ctr>>,
           lineEvents' = lineEvents - Reservation(reader[c])
    PROVE  ThreadTypes' /\ Shape' /\ Counted'
<1> DEFINE r == [Idle EXCEPT !.pc = "gone"]
           n == Len(reader[c].batch)
<1>1. reader[c] \in ReaderRec /\ n \in Nat /\ ReaderShape(reader[c])
  BY DEF PathInv, ThreadTypes, ReaderRec, Shape
<1>2. r \in ReaderRec /\ ReaderShape(r) /\ Len(r.batch) = 0 /\ Reservation(r) = 0
  <2>1. <<>> \in Seq(Kinds) /\ Len(<<>>) = 0
    OBVIOUS
  <2>2. r.pc = "gone" /\ r.batch = <<>> /\ r \in ReaderRec
    BY <2>1 DEF ReaderRec, Idle
  <2> HIDE DEF r
  <2> QED BY <2>1, <2>2 DEF ReaderShape, Reservation
<1>3. reader' = [reader EXCEPT ![c] = r]
  BY DEF Refuse
<1> HIDE DEF r
<1>4. /\ granted' \in [released : Nat, refused : Nat]
      /\ granted'.released = granted.released /\ granted'.refused = granted.refused + n
  <2>1. granted.refused + n \in Nat /\ granted \in [released : Nat, refused : Nat]
    BY <1>1 DEF PathInv, ThreadTypes
  <2> QED BY <2>1 DEF Refuse, Held
<1>5. Reservation(reader[c]) \in Nat /\ (mode.envelope # "hec" => Reservation(reader[c]) = 0)
  BY <1>1 DEF Reservation, ReaderShape
<1>6. queue' \in Seq(Seq(Kinds)) /\ lineEvents' \in Int /\ ctr' \in CounterRec
  BY <1>5 DEF PathInv, ThreadTypes
<1>7. /\ ThreadTypes' /\ Shape' /\ InBatches' = InBatches
      /\ InReaders' = InReaders - n + Len(r.batch)
      /\ Reserving' = Reserving - Reservation(reader[c]) + Reservation(r)
  BY <1>2, <1>3, <1>4, <1>6, ReaderMoves
<1>8. Queued' = Queued /\ Resolved' = Resolved
  BY DEF Queued, Resolved
<1>9. /\ InReaders \in Nat /\ ctr.received \in Nat /\ granted.refused \in Nat
      /\ granted.released \in Nat /\ Reserving \in Nat /\ Queued \in Nat /\ lineEvents \in Int
  BY SumTypes DEF PathInv, ThreadTypes, CounterRec
<1> HIDE DEF n
<1>10. Released'
  BY <1>1, <1>2, <1>4, <1>7, <1>9 DEF PathInv, Counted, Released
<1>11. Roomed'
  BY <1>2, <1>5, <1>7, <1>8, <1>9 DEF PathInv, Counted, Roomed
<1>12. Accepted'
  BY <1>7, <1>8 DEF PathInv, Counted, Accepted
<1> QED BY <1>7, <1>10, <1>11, <1>12 DEF Counted

(* The test of _stopping and the reservation: the hand stays, the reserved *)
(* room is what the counter gained.                                        *)
LEMMA AdvanceCounted ==
    ASSUME PathInv, NEW c \in Conns,
           reader[c].pc \in {"check", "reserved", "put"},
           NEW r, r \in ReaderRec, r.pc \in {"check", "reserved", "put"},
           r.pc = "reserved" => mode.envelope = "hec", r.batch = reader[c].batch,
           reader' = [reader EXCEPT ![c] = r],
           UNCHANGED <<mode, sender, queue, ctr, granted>>,
           mode.envelope # "hec" => lineEvents' = lineEvents,
           mode.envelope = "hec" =>
             lineEvents' = lineEvents + Reservation(r) - Reservation(reader[c])
    PROVE  ThreadTypes' /\ Shape' /\ Counted'
<1>1. reader[c] \in ReaderRec /\ ReaderShape(reader[c])
  BY DEF PathInv, ThreadTypes, Shape
<1>2. ReaderShape(r)
  BY <1>1 DEF ReaderRec, ReaderShape
<1>4. Reservation(r) \in Nat /\ Reservation(reader[c]) \in Nat /\ Len(reader[c].batch) \in Nat
  BY <1>1, <1>2 DEF Reservation, ReaderRec
<1>6. /\ queue' \in Seq(Seq(Kinds)) /\ lineEvents' \in Int /\ ctr' \in CounterRec
      /\ granted' \in [released : Nat, refused : Nat]
  BY <1>4 DEF PathInv, ThreadTypes
<1>7. /\ ThreadTypes' /\ Shape' /\ InBatches' = InBatches
      /\ InReaders' = InReaders - Len(reader[c].batch) + Len(r.batch)
      /\ Reserving' = Reserving - Reservation(reader[c]) + Reservation(r)
  BY <1>2, <1>6, ReaderMoves
<1>8. Queued' = Queued /\ Resolved' = Resolved
  BY DEF Queued, Resolved
<1>9. InReaders \in Nat /\ Reserving \in Nat /\ Queued \in Nat /\ lineEvents \in Int
  BY SumTypes DEF PathInv, ThreadTypes
<1>10. InReaders' = InReaders
  BY <1>4, <1>7, <1>9
<1>11. Roomed'
  BY <1>4, <1>7, <1>8, <1>9 DEF PathInv, Counted, Roomed
<1> QED BY <1>7, <1>8, <1>10, <1>11 DEF PathInv, Counted, Accepted, Released

(* The three tests before the queue.                                       *)
LEMMA CheckCounted ==
    ASSUME PathInv, NEW c \in Conns, put_check(c) \/ put_lines(c) \/ reserved(c)
    PROVE  ThreadTypes' /\ Shape' /\ Counted'
<1>1. /\ reader[c] \in ReaderRec /\ ReaderShape(reader[c]) /\ Len(reader[c].batch) \in Nat
      /\ lineEvents \in Int
  BY DEF PathInv, ThreadTypes, Shape, ReaderRec
<1>2. CASE Refuse(c) /\ stopping
  <2>1. /\ reader[c].pc \in {"check", "reserved"} /\ UNCHANGED <<mode, sender, queue, ctr>>
        /\ lineEvents' = IF reader[c].pc = "check" THEN lineEvents
                         ELSE lineEvents - Len(reader[c].batch)
    BY <1>2 DEF put_check, put_lines, reserved, hecVars, _release_lines, Held
  <2>2. lineEvents' = lineEvents - Reservation(reader[c])
    BY <1>1, <2>1 DEF Reservation
  <2> QED BY <1>2, <2>1, <2>2, RefuseCounted
<1>3. CASE put_check(c) /\ ~stopping
  <2> DEFINE r == [reader[c] EXCEPT !.pc = "put"]
  <2>1. /\ reader[c].pc = "check" /\ mode.envelope # "hec"
        /\ reader' = [reader EXCEPT ![c] = r]
        /\ UNCHANGED <<mode, sender, queue, ctr, granted, lineEvents>>
    BY <1>1, <1>3 DEF put_check, hecVars, PathInv, ThreadTypes
  <2>2. r \in ReaderRec /\ r.pc = "put" /\ r.batch = reader[c].batch
    BY <1>1 DEF ReaderRec
  <2> HIDE DEF r
  <2> QED BY <2>1, <2>2, AdvanceCounted
<1>4. CASE put_lines(c) /\ ~stopping
  <2> DEFINE r == [reader[c] EXCEPT !.pc = "reserved"]
  <2>1. /\ reader[c].pc = "check" /\ mode.envelope = "hec"
        /\ reader' = [reader EXCEPT ![c] = r]
        /\ UNCHANGED <<mode, sender, queue, ctr, granted>>
        /\ lineEvents' = lineEvents + Len(reader[c].batch)
    BY <1>1, <1>4 DEF put_lines, Held, PathInv, ThreadTypes
  <2>2. r \in ReaderRec /\ r.pc = "reserved" /\ r.batch = reader[c].batch
    BY <1>1 DEF ReaderRec
  <2> HIDE DEF r
  <2>3. lineEvents' = lineEvents + Reservation(r) - Reservation(reader[c])
    BY <1>1, <2>1, <2>2 DEF Reservation
  <2> QED BY <2>1, <2>2, <2>3, AdvanceCounted
<1>5. CASE reserved(c) /\ ~stopping
  <2> DEFINE r == [reader[c] EXCEPT !.pc = "put"]
  <2>1. /\ reader[c].pc = "reserved"
        /\ reader' = [reader EXCEPT ![c] = r]
        /\ UNCHANGED <<mode, sender, queue, ctr, granted, lineEvents>>
    BY <1>1, <1>5 DEF reserved, PathInv, ThreadTypes
  <2>2. r \in ReaderRec /\ r.pc = "put" /\ r.batch = reader[c].batch
    BY <1>1 DEF ReaderRec
  <2> HIDE DEF r
  <2>3. lineEvents' = lineEvents + Reservation(r) - Reservation(reader[c])
    BY <1>1, <2>1, <2>2 DEF Reservation
  <2> QED BY <2>1, <2>2, <2>3, AdvanceCounted
<1> QED BY <1>2, <1>3, <1>4, <1>5 DEF put_check, put_lines, reserved

(* queue.put: the batch moves from the hand into the queue, or waits.      *)
LEMMA putCounted ==
    ASSUME PathInv, NEW c \in Conns, put(c)
    PROVE  ThreadTypes' /\ Shape' /\ Counted'
<1> DEFINE b == reader[c].batch
<1>1. /\ reader[c] \in ReaderRec /\ ReaderShape(reader[c]) /\ reader[c].pc = "put"
      /\ b \in Seq(Kinds) /\ Len(b) \in Nat /\ reader[c].lines \in Seq(Kinds)
      /\ lineEvents \in Int /\ queue \in Seq(Seq(Kinds)) /\ mode \in Modes
  BY DEF PathInv, ThreadTypes, Shape, ReaderRec, put
<1>2. CASE Len(queue) < QueueMax
  <2> DEFINE r == [reader[c] EXCEPT !.pc = After(reader[c].lines), !.batch = <<>>]
  <2>1. /\ queue' = Append(queue, b)
        /\ reader' = [reader EXCEPT ![c].pc = After(reader[c].lines), ![c].batch = <<>>]
        /\ ctr' = [ctr EXCEPT !.received = @ + Len(b)]
        /\ UNCHANGED <<mode, sender, lineEvents, granted>>
    <3>1. ~(Len(queue) >= QueueMax)
      BY <1>1, <1>2, PositiveBounds
    <3> QED BY <1>2, <3>1 DEF put, Held
  <2>2. reader' = [reader EXCEPT ![c] = r]
    BY <2>1 DEF PathInv, ThreadTypes
  <2>3. r \in ReaderRec /\ ReaderShape(r) /\ Len(r.batch) = 0 /\ Reservation(r) = 0
    <3>1. <<>> \in Seq(Kinds) /\ Len(<<>>) = 0
      OBVIOUS
    <3>2. /\ r \in ReaderRec /\ r.batch = <<>> /\ r.lines = reader[c].lines
          /\ r.pc = After(reader[c].lines)
      BY <1>1, <3>1 DEF ReaderRec, After
    <3> HIDE DEF r
    <3> QED BY <3>1, <3>2 DEF ReaderShape, Reservation, After
  <2>4. Reservation(reader[c]) = Len(b)
    BY <1>1 DEF Reservation
  <2> HIDE DEF r
  <2>5. /\ ctr' \in CounterRec /\ ctr'.received = ctr.received + Len(b) /\ Resolved' = Resolved
    <3>1. ctr \in CounterRec /\ ctr.received + Len(b) \in Nat
      BY <1>1 DEF PathInv, ThreadTypes, CounterRec
    <3> QED BY <2>1, <3>1 DEF CounterRec, Resolved
  <2>6. /\ queue' \in Seq(Seq(Kinds)) /\ lineEvents' \in Int
        /\ granted' \in [released : Nat, refused : Nat]
    <3>1. Append(queue, b) \in Seq(Seq(Kinds))
      BY <1>1
    <3> QED BY <2>1, <3>1 DEF PathInv, ThreadTypes
  <2>7. /\ ThreadTypes' /\ Shape' /\ InBatches' = InBatches
        /\ InReaders' = InReaders - Len(b) + Len(r.batch)
        /\ Reserving' = Reserving - Reservation(reader[c]) + Reservation(r)
    BY <2>1, <2>2, <2>3, <2>5, <2>6, ReaderMoves
  <2>8. Queued' = Queued + Len(b)
    <3>1. Queued = SumFunction(Lengths(queue)) /\ Queued' = SumFunction(Lengths(Append(queue, b)))
      BY <2>1 DEF Queued, Lengths
    <3> QED BY <1>1, <3>1, SumAppended
  <2>9. /\ InReaders \in Nat /\ Reserving \in Nat /\ Queued \in Nat /\ InBatches \in Nat
        /\ ctr.received \in Nat /\ Resolved \in Nat /\ granted.released \in Nat
        /\ granted.refused \in Nat
    BY SumTypes DEF PathInv, ThreadTypes, CounterRec, Resolved
  <2> DEFINE n == Len(b)
  <2>10. n \in Nat
    BY <1>1
  <2> HIDE DEF n
  <2>11. /\ InReaders' = InReaders - n /\ Reserving' = Reserving - n /\ Queued' = Queued + n
         /\ ctr'.received = ctr.received + n
    BY <2>3, <2>4, <2>5, <2>7, <2>8, <2>9, <2>10 DEF n
  <2>12. Accepted'
    <3>1. ctr.received = Queued + InBatches + Resolved
      BY DEF PathInv, Counted, Accepted
    <3>2. InBatches' = InBatches /\ Resolved' = Resolved
      BY <2>5, <2>7
    <3> QED BY <2>9, <2>10, <2>11, <3>1, <3>2 DEF Accepted
  <2>13. Roomed'
    BY <2>1, <2>9, <2>10, <2>11 DEF PathInv, Counted, Roomed
  <2>14. Released'
    BY <2>1, <2>9, <2>10, <2>11 DEF PathInv, Counted, Released
  <2> QED BY <2>7, <2>12, <2>13, <2>14 DEF Counted
<1>3. CASE Len(queue) >= QueueMax
  <2> DEFINE pc == IF mode.envelope = "hec" THEN "reserved" ELSE "check"
             r == [reader[c] EXCEPT !.pc = pc]
  <2>1. /\ reader' = [reader EXCEPT ![c] = r]
        /\ UNCHANGED <<mode, sender, queue, ctr, granted, lineEvents>>
    <3>1. ~(Len(queue) < QueueMax)
      BY <1>1, <1>3, PositiveBounds
    <3> QED BY <1>3, <3>1 DEF put, PathInv, ThreadTypes
  <2>2. r \in ReaderRec /\ r.pc = pc /\ r.batch = reader[c].batch
    BY <1>1 DEF ReaderRec
  <2>3. pc \in {"check", "reserved", "put"} /\ (pc = "reserved" <=> mode.envelope = "hec")
    OBVIOUS
  <2> HIDE DEF pc, r
  <2>4. mode.envelope = "hec" => lineEvents' = lineEvents + Reservation(r) - Reservation(reader[c])
    BY <1>1, <2>1, <2>2, <2>3 DEF Reservation
  <2> QED BY <1>1, <2>1, <2>2, <2>3, <2>4, AdvanceCounted
<1> QED BY <1>1, <1>2, <1>3, PositiveBounds DEF put

(* Every reader step keeps the count.                                      *)
LEMMA ReaderCounted ==
    ASSUME PathInv, NEW c \in Conns, Reader(c)
    PROVE  ThreadTypes' /\ Shape' /\ Counted'
<1>1. CASE acquire(c)
  BY <1>1, acquireCounted, IdleCounted
<1> QED BY <1>1, recvCounted, IdleCounted, CheckCounted, putCounted DEF Reader

-----------------------------------------------------------------------------
(* Senders.                                                                *)

(* What a sender's step does to the sums, from the record it leaves.       *)
LEMMA SenderMoves ==
    ASSUME PathInv, NEW s \in Senders, NEW x, x \in SenderRec, SenderShape(x),
           sender' = [sender EXCEPT ![s] = x], UNCHANGED <<mode, reader, granted>>,
           queue' \in Seq(Seq(Kinds)), lineEvents' \in Int, ctr' \in CounterRec
    PROVE  /\ ThreadTypes' /\ Shape'
           /\ InBatches' = InBatches - sender[s].batch + x.batch
           /\ InReaders' = InReaders /\ Reserving' = Reserving
<1>1. sender' \in [Senders -> SenderRec]
  BY DEF PathInv, ThreadTypes
<1>2. ThreadTypes'
  BY <1>1 DEF PathInv, ThreadTypes
<1>3. sender'[s] = x /\ \A t \in Senders \ {s} : sender'[t] = sender[t]
  BY DEF PathInv, ThreadTypes
<1>4. Shape'
  <2>1. \A d \in Conns : ReaderShape(reader[d])'
    BY DEF PathInv, Shape, ReaderShape
  <2>2. \A t \in Senders : SenderShape(sender[t])'
    BY <1>3 DEF PathInv, Shape, SenderShape
  <2> QED BY <2>1, <2>2 DEF Shape
<1>5. InReaders' = InReaders /\ Reserving' = Reserving
  BY DEF InReaders, Reserving, Held, Reservation
<1> QED BY <1>1, <1>2, <1>3, <1>4, <1>5, SenderSums DEF PathInv

(* Taking an item: its events go into the batch or are counted as invalid. *)
LEMMA absorbCounted ==
    ASSUME PathInv, NEW s \in Senders, _absorb(s)
    PROVE  ThreadTypes' /\ Shape' /\ Counted'
<1> DEFINE item == Head(queue)
           n == Serialised(item)
           pc == IF sender[s].batch + n > 0 THEN "fill" ELSE "get"
           x == [sender[s] EXCEPT !.batch = @ + n, !.pc = pc]
           len == Len(item)
<1>1. /\ queue \in Seq(Seq(Kinds)) /\ queue # <<>> /\ sender[s] \in SenderRec
      /\ lineEvents \in Int /\ ctr \in CounterRec
  BY DEF PathInv, ThreadTypes, _absorb
<1>2. item \in Seq(Kinds) /\ Tail(queue) \in Seq(Seq(Kinds))
  BY <1>1
<1>3. /\ queue' = Tail(queue)
      /\ lineEvents' = IF mode.envelope = "hec" THEN lineEvents - len ELSE lineEvents
      /\ sender' = [sender EXCEPT ![s].batch = @ + n, ![s].pc = pc]
      /\ ctr' = [ctr EXCEPT !.dropped_invalid = @ + len - n]
      /\ UNCHANGED <<mode, reader, granted>>
  BY DEF _absorb, _release_lines
<1>4. sender' = [sender EXCEPT ![s] = x]
  BY <1>3 DEF PathInv, ThreadTypes
<1> HIDE DEF item
<1>5. n \in Nat /\ n <= len /\ len \in Nat
  BY <1>2, SerialisedType
<1> HIDE DEF n, len
<1>6. x \in SenderRec /\ SenderShape(x) /\ x.batch = sender[s].batch + n
  <2>1. sender[s].batch \in Nat /\ sender[s].batch + n \in Nat
    BY <1>1, <1>5 DEF SenderRec
  <2> DEFINE m == sender[s].batch + n
  <2>2. pc \in {"fill", "get"} /\ (pc = "get" => m = 0)
    BY <2>1
  <2>3. x = [sender[s] EXCEPT !.batch = m, !.pc = pc]
    BY <1>1 DEF SenderRec
  <2> HIDE DEF m, pc, x
  <2>4. m \in Nat
    BY <2>1 DEF m
  <2>5. x \in SenderRec /\ x.pc = pc /\ x.batch = m
    BY <1>1, <2>2, <2>3, <2>4 DEF SenderRec
  <2> QED BY <2>2, <2>5 DEF SenderShape, m
<1> HIDE DEF x
<1>7. /\ ctr' \in CounterRec /\ ctr'.received = ctr.received
      /\ Resolved' = Resolved + len - n /\ Resolved \in Nat
  <2>1. /\ ctr.dropped_invalid + len - n \in Nat /\ ctr.dropped_invalid \in Nat
        /\ ctr.events_total \in Nat /\ ctr.dropped \in Nat
    BY <1>1, <1>5 DEF CounterRec
  <2>2. /\ ctr' \in CounterRec /\ ctr'.received = ctr.received
        /\ ctr'.dropped_invalid = ctr.dropped_invalid + len - n
        /\ ctr'.events_total = ctr.events_total /\ ctr'.dropped = ctr.dropped
    BY <1>1, <1>3, <2>1 DEF CounterRec
  <2> QED BY <1>5, <2>1, <2>2 DEF Resolved
<1>8. lineEvents' \in Int /\ queue' \in Seq(Seq(Kinds))
  BY <1>1, <1>2, <1>3, <1>5
<1>9. /\ ThreadTypes' /\ Shape' /\ InReaders' = InReaders /\ Reserving' = Reserving
      /\ InBatches' = InBatches - sender[s].batch + x.batch
  BY <1>3, <1>4, <1>6, <1>7, <1>8, SenderMoves
<1>10. Queued' = Queued - len
  <2>1. Queued = SumFunction(Lengths(queue)) /\ Queued' = SumFunction(Lengths(Tail(queue)))
    BY <1>3 DEF Queued, Lengths
  <2> QED BY <1>1, <2>1, SumBeheaded DEF len, item
<1>11. /\ Queued \in Nat /\ InBatches \in Nat /\ Reserving \in Nat /\ sender[s].batch \in Nat
       /\ ctr.received \in Nat
  BY <1>1, SumTypes DEF PathInv, SenderRec, CounterRec
<1>12. InBatches' = InBatches + n
  BY <1>5, <1>6, <1>9, <1>11
<1>13. Accepted'
  <2>1. ctr.received = Queued + InBatches + Resolved
    BY DEF PathInv, Counted, Accepted
  <2> QED BY <1>5, <1>7, <1>10, <1>11, <1>12, <2>1 DEF Accepted
<1>14. Roomed'
  BY <1>1, <1>3, <1>5, <1>9, <1>10, <1>11 DEF PathInv, Counted, Roomed
<1>15. Released'
  BY <1>3, <1>7, <1>9 DEF PathInv, Counted, Released
<1> QED BY <1>9, <1>13, <1>14, <1>15 DEF Counted

(* A batch leaves its sender for one counter.                              *)
LEMMA ResolveCounted ==
    ASSUME PathInv, NEW s \in Senders,
           NEW k \in {"events_total", "dropped", "dropped_invalid"}, Resolve(s, k),
           UNCHANGED <<mode, reader, granted, queue, lineEvents>>
    PROVE  ThreadTypes' /\ Shape' /\ Counted'
<1> DEFINE x == [pc |-> "get", batch |-> 0, attempt |-> 0]
           n == sender[s].batch
<1>1. sender[s] \in SenderRec /\ n \in Nat /\ ctr \in CounterRec
  BY DEF PathInv, ThreadTypes, SenderRec
<1>2. x \in SenderRec /\ SenderShape(x) /\ x.batch = 0
  BY DEF SenderRec, SenderShape
<1>3. sender' = [sender EXCEPT ![s] = x] /\ ctr' = [ctr EXCEPT ![k] = @ + n]
  BY DEF Resolve
<1> HIDE DEF x, n
<1>4. /\ ctr' \in CounterRec /\ ctr'.received = ctr.received
      /\ Resolved' = Resolved + n /\ Resolved \in Nat
  <2>1. /\ ctr.dropped_invalid \in Nat /\ ctr.events_total \in Nat /\ ctr.dropped \in Nat
        /\ ctr.dropped_invalid + n \in Nat /\ ctr.events_total + n \in Nat
        /\ ctr.dropped + n \in Nat
    BY <1>1 DEF CounterRec
  <2>2. CASE k = "events_total"
    BY <1>1, <1>3, <2>1, <2>2 DEF CounterRec, Resolved
  <2>3. CASE k = "dropped"
    BY <1>1, <1>3, <2>1, <2>3 DEF CounterRec, Resolved
  <2>4. CASE k = "dropped_invalid"
    BY <1>1, <1>3, <2>1, <2>4 DEF CounterRec, Resolved
  <2> QED BY <2>2, <2>3, <2>4
<1>5. queue' \in Seq(Seq(Kinds)) /\ lineEvents' \in Int
  BY DEF PathInv, ThreadTypes
<1>6. /\ ThreadTypes' /\ Shape' /\ InReaders' = InReaders /\ Reserving' = Reserving
      /\ InBatches' = InBatches - n + x.batch
  BY <1>2, <1>3, <1>4, <1>5, SenderMoves DEF n
<1>7. Queued' = Queued
  BY DEF Queued
<1>8. Queued \in Nat /\ InBatches \in Nat /\ ctr.received \in Nat
  BY <1>1, SumTypes DEF PathInv, CounterRec
<1>9. Accepted'
  <2>1. ctr.received = Queued + InBatches + Resolved
    BY DEF PathInv, Counted, Accepted
  <2> QED BY <1>1, <1>2, <1>4, <1>6, <1>7, <1>8, <2>1 DEF Accepted
<1>10. Roomed' /\ Released'
  BY <1>4, <1>6, <1>7 DEF PathInv, Counted, Roomed, Released
<1> QED BY <1>6, <1>9, <1>10 DEF Counted

(* A sender that only moves on keeps its batch.                            *)
LEMMA SenderIdles ==
    ASSUME PathInv, NEW s \in Senders, NEW x, x \in SenderRec, SenderShape(x),
           x.batch = sender[s].batch, sender' = [sender EXCEPT ![s] = x],
           UNCHANGED <<mode, reader, granted, queue, lineEvents, ctr>>
    PROVE  ThreadTypes' /\ Shape' /\ Counted'
<1>1. /\ queue' \in Seq(Seq(Kinds)) /\ lineEvents' \in Int /\ ctr' \in CounterRec
      /\ sender[s].batch \in Nat
  BY DEF PathInv, ThreadTypes, SenderRec
<1>2. /\ ThreadTypes' /\ Shape' /\ InReaders' = InReaders /\ Reserving' = Reserving
      /\ InBatches' = InBatches - sender[s].batch + x.batch
  BY <1>1, SenderMoves
<1>3. InBatches \in Nat
  BY SumTypes DEF PathInv
<1>4. InBatches' = InBatches
  BY <1>1, <1>2, <1>3
<1>5. Queued' = Queued /\ Resolved' = Resolved
  BY DEF Queued, Resolved
<1> QED BY <1>2, <1>4, <1>5 DEF PathInv, Counted, Accepted, Roomed, Released

(* Every sender step keeps the count.                                      *)
LEMMA SenderCounted ==
    ASSUME PathInv, NEW s \in Senders, Sender(s)
    PROVE  ThreadTypes' /\ Shape' /\ Counted'
<1>1. sender[s] \in SenderRec /\ SenderShape(sender[s])
  BY DEF PathInv, ThreadTypes, Shape
<1>2. ASSUME ~_absorb(s) PROVE UNCHANGED <<mode, reader, granted, queue, lineEvents>>
  BY <1>2 DEF Sender, _collect_batch, attempt, _send_batch, hecVars
<1>3. CASE _absorb(s)
  BY <1>3, absorbCounted
<1>4. CASE \E k \in {"events_total", "dropped", "dropped_invalid"} : ~_absorb(s) /\ Resolve(s, k)
  BY <1>2, <1>4, ResolveCounted
<1>5. ASSUME ~_absorb(s),
             \A k \in {"events_total", "dropped", "dropped_invalid"} : ~Resolve(s, k)
      PROVE  ThreadTypes' /\ Shape' /\ Counted'
  <2>1. CASE _collect_batch(s)
    <3>1. PICK pc \in {"post", "exit"} : /\ sender' = [sender EXCEPT ![s].pc = pc]
                                         /\ pc = "exit" => sender[s].pc = "get"
                                         /\ UNCHANGED ctr
      BY <2>1 DEF _collect_batch
    <3> DEFINE x == [sender[s] EXCEPT !.pc = pc]
    <3>2. sender' = [sender EXCEPT ![s] = x]
      BY <3>1 DEF PathInv, ThreadTypes
    <3>3. x \in SenderRec /\ SenderShape(x) /\ x.batch = sender[s].batch
      BY <1>1, <3>1 DEF SenderRec, SenderShape
    <3> HIDE DEF x
    <3> QED BY <1>2, <1>5, <3>1, <3>2, <3>3, SenderIdles
  <2>2. CASE attempt(s)
    <3>1. PICK pc \in {"post", "inflight"} : sender' = [sender EXCEPT ![s].pc = pc] /\ UNCHANGED ctr
      BY <1>5, <2>2 DEF attempt
    <3> DEFINE x == [sender[s] EXCEPT !.pc = pc]
    <3>2. sender' = [sender EXCEPT ![s] = x]
      BY <3>1 DEF PathInv, ThreadTypes
    <3>3. x \in SenderRec /\ SenderShape(x) /\ x.batch = sender[s].batch
      BY <1>1, <3>1 DEF SenderRec, SenderShape
    <3> HIDE DEF x
    <3> QED BY <1>2, <1>5, <3>1, <3>2, <3>3, SenderIdles
  <2>3. CASE _send_batch(s)
    <3> DEFINE x == [sender[s] EXCEPT !.pc = "backoff", !.attempt = @ + 1]
    <3>1. sender' = [sender EXCEPT ![s].pc = "backoff", ![s].attempt = @ + 1] /\ UNCHANGED ctr
      BY <1>5, <2>3 DEF _send_batch
    <3>2. sender' = [sender EXCEPT ![s] = x]
      BY <3>1 DEF PathInv, ThreadTypes
    <3>3. x \in SenderRec /\ SenderShape(x) /\ x.batch = sender[s].batch
      <4>1. sender[s].attempt + 1 \in Nat
        BY <1>1 DEF SenderRec
      <4> QED BY <1>1, <4>1 DEF SenderRec, SenderShape
    <3> HIDE DEF x
    <3> QED BY <1>2, <1>5, <3>1, <3>2, <3>3, SenderIdles
  <2> QED BY <1>5, <2>1, <2>2, <2>3 DEF Sender
<1> QED BY <1>3, <1>4, <1>5

-----------------------------------------------------------------------------
(* The drain's report, and the whole.                                      *)

(* With every sender gone and the queue empty, nothing is on the way.      *)
LEMMA FlushedEmpty ==
    ASSUME PathInv, Exited, queue = <<>>
    PROVE  ctr.received = ctr.events_total + ctr.dropped + ctr.dropped_invalid
<1>1. InBatches = 0
  <2> DEFINE f == [s \in Senders |-> sender[s].batch]
  <2>1. f \in [Senders -> Int] /\ \A s \in Senders : f[s] = 0
    BY DEF PathInv, ThreadTypes, SenderRec, Shape, SenderShape, Exited
  <2>2. InBatches = SumFunction(f)
    BY DEF InBatches
  <2> HIDE DEF f
  <2> QED BY <2>1, <2>2, PositiveBounds, SumZero
<1>2. Queued = 0
  <2> DEFINE g == Lengths(<<>>)
             none == 1 .. 0
  <2>1. none = {} /\ IsFiniteSet(none)
    BY FS_EmptySet
  <2>2. g \in [none -> Int] /\ \A i \in none : g[i] = 0
    BY DEF Lengths
  <2>3. Queued = SumFunction(g)
    BY DEF Queued, Lengths
  <2> HIDE DEF g, none
  <2> QED BY <2>1, <2>2, <2>3, SumZero
<1>3. Resolved \in Nat
  BY DEF PathInv, ThreadTypes, CounterRec, Resolved
<1> QED BY <1>1, <1>2, <1>3 DEF PathInv, Counted, Accepted, Resolved

(* The report is taken once, at the end.                                   *)
LEMMA SummaryStep ==
    ASSUME PathInv, PathNext
    PROVE  SummaryTrue'
<1>1. CASE UNCHANGED <<drain, summary>>
  BY <1>1 DEF PathInv, SummaryTrue
<1>2. CASE drain' # "done"
  BY <1>2 DEF SummaryTrue
<1>3. CASE flush_and_stop
  BY <1>3, <1>2, FlushedEmpty DEF flush_and_stop, Report, SummaryTrue
<1>4. CASE abort_join
  BY <1>4 DEF abort_join, Report, SummaryTrue
<1>5. CASE Engine \/ Commands
  BY <1>1, <1>5 DEF Engine, start, restart, connect, send, exhaust, Commands, Tick, pause,
                    retarget
<1>6. CASE close \/ begin_stop \/ sock_stop \/ sock_join \/ engine_stop
  BY <1>2, <1>6 DEF close, begin_stop, sock_stop, sock_join, engine_stop
<1> QED BY <1>1, <1>3, <1>4, <1>5, <1>6, ReaderFrame, SenderFrame DEF PathNext, Drain

(* Steps that touch no event.                                              *)
LEMMA AsideCounted ==
    ASSUME PathInv, Aside
    PROVE  ThreadTypes' /\ Shape' /\ Counted'
<1>1. ThreadTypes' /\ Shape'
  BY DEF PathInv, Aside, ThreadTypes, Shape, ReaderShape, SenderShape
<1>2. /\ Queued' = Queued /\ InBatches' = InBatches /\ InReaders' = InReaders
      /\ Reserving' = Reserving /\ Resolved' = Resolved
  BY DEF Aside, Queued, InBatches, InReaders, Held, Reserving, Reservation, Resolved
<1> QED BY <1>1, <1>2 DEF PathInv, Aside, Counted, Accepted, Roomed, Released

(* A run starts with nothing anywhere.                                     *)
LEMMA PathInitInv == PathInit => PathInv
<1> SUFFICES ASSUME PathInit PROVE PathInv
  OBVIOUS
<1>1. <<>> \in Seq(Kinds) /\ Len(<<>>) = 0 /\ <<>> \in Seq(Seq(Kinds))
  OBVIOUS
<1>2. Share \in Nat /\ Share \in Rates
  BY PositiveBounds
<1>3. GeneratorTypes
  BY <1>1 DEF PathInit, GeneratorTypes
<1>4. Idle \in ReaderRec
  BY <1>1 DEF Idle, ReaderRec
<1>5. ThreadTypes
  BY <1>1, <1>4, RunModesAssumption DEF PathInit, ThreadTypes, SenderRec, CounterRec
<1>6. PacingTypes /\ Paced
  BY <1>2 DEF PathInit, PacingTypes, Paced
<1>7. Shape
  BY DEF PathInit, Shape, ReaderShape, SenderShape, Idle
<1>8. SummaryTrue
  BY DEF PathInit, SummaryTrue
<1>9. InReaders = 0 /\ Reserving = 0 /\ InBatches = 0 /\ Queued = 0
  <2> DEFINE f == [c \in Conns |-> Held(c)]
             g == [c \in Conns |-> Reservation(reader[c])]
             h == [s \in Senders |-> sender[s].batch]
             k == Lengths(queue)
             none == 1 .. Len(queue)
  <2>1. /\ f \in [Conns -> Int] /\ (\A c \in Conns : f[c] = 0)
        /\ g \in [Conns -> Int] /\ (\A c \in Conns : g[c] = 0)
    BY <1>1 DEF PathInit, Held, Reservation, Idle
  <2>2. h \in [Senders -> Int] /\ (\A s \in Senders : h[s] = 0)
    BY DEF PathInit
  <2>3. none = {} /\ IsFiniteSet(none)
    BY FS_EmptySet DEF PathInit
  <2>4. k \in [none -> Int] /\ (\A i \in none : k[i] = 0)
    BY <2>3 DEF Lengths
  <2>5. /\ InReaders = SumFunction(f) /\ Reserving = SumFunction(g)
        /\ InBatches = SumFunction(h) /\ Queued = SumFunction(k)
    BY DEF InReaders, Reserving, InBatches, Queued, Lengths
  <2> HIDE DEF f, g, h, k, none
  <2>6. SumFunction(f) = 0
    BY <2>1, PositiveBounds, SumZero
  <2>7. SumFunction(g) = 0
    BY <2>1, PositiveBounds, SumZero
  <2>8. SumFunction(h) = 0
    BY <2>2, PositiveBounds, SumZero
  <2>9. SumFunction(k) = 0
    BY <2>3, <2>4, SumZero
  <2> QED BY <2>5, <2>6, <2>7, <2>8, <2>9
<1>10. Counted
  BY <1>9 DEF PathInit, Counted, Accepted, Roomed, Released, Resolved
<1> QED BY <1>3, <1>5, <1>6, <1>7, <1>8, <1>10 DEF PathInv

(* Every step keeps the invariant.                                         *)
LEMMA PathStepInv == PathInv /\ [PathNext]_PathVars => PathInv'
<1>1. ASSUME PathInv, PathNext PROVE PathInv'
  <2>1. ThreadTypes' /\ Shape' /\ Counted'
    BY <1>1, AsideFrame, AsideCounted, ReaderCounted, SenderCounted DEF PathNext
  <2> QED BY <1>1, <2>1, GeneratorStep, PacedStep, SummaryStep DEF PathInv
<1>2. ASSUME PathInv, UNCHANGED PathVars PROVE PathInv'
  <2>1. Aside /\ UNCHANGED <<gen, wire, bucket, clock, drain, summary>>
    BY <1>2 DEF PathVars, hecVars, Aside
  <2>2. GeneratorTypes' /\ PacingTypes' /\ Paced' /\ SummaryTrue'
    BY <1>2, <2>1 DEF PathInv, GeneratorTypes, PacingTypes, Paced, SummaryTrue
  <2> QED BY <1>2, <2>1, <2>2, AsideCounted DEF PathInv
<1> QED BY <1>1, <1>2

(* The invariant of the data path.                                         *)
THEOREM PathInvariant == PathSpec => []PathInv
BY PathInitInv, PathStepInv, PTL DEF PathSpec

(* The invariant places every event, and its room.                         *)
LEMMA ConservedFollows == PathInv => Conserved
<1> SUFFICES ASSUME PathInv PROVE Conserved
  OBVIOUS
<1>1. EventsPlaced
  <2>1. /\ InReaders \in Nat /\ Queued \in Nat /\ InBatches \in Nat /\ Resolved \in Nat
        /\ granted.refused \in Nat /\ granted.released \in Nat /\ ctr.received \in Nat
    BY SumTypes DEF PathInv, ThreadTypes, CounterRec, Resolved
  <2>2. /\ granted.released = InReaders + ctr.received + granted.refused
        /\ ctr.received = Queued + InBatches + Resolved
    BY DEF PathInv, Counted, Released, Accepted
  <2> QED BY <2>1, <2>2 DEF EventsPlaced
<1>2. ReservationExact
  <2> DEFINE R == {d \in Conns : reader[d].pc \in {"reserved", "put"}}
             f == [c \in R |-> Held(c)]
             g == [c \in Conns |-> Reservation(reader[c])]
  <2>1. R \subseteq Conns
    OBVIOUS
  <2>2. /\ f \in [R -> Int] /\ g \in [Conns -> Int]
        /\ \A c \in Conns : g[c] = IF c \in R THEN f[c] ELSE 0
    BY DEF PathInv, ThreadTypes, ReaderRec, Held, Reservation
  <2>3. Reserving = SumFunction(g)
    BY DEF Reserving
  <2>4. ReservationExact <=> lineEvents = IF mode.envelope = "hec" THEN Queued + SumFunction(f) ELSE 0
    BY DEF ReservationExact
  <2> HIDE DEF R, f, g
  <2>5. SumFunction(f) = SumFunction(g)
    BY <2>1, <2>2, PositiveBounds, SumPad
  <2> QED BY <2>3, <2>4, <2>5 DEF PathInv, Counted, Roomed
<1> QED BY <1>1, <1>2 DEF Conserved

(* No interleaving of readers, senders and drain loses an event the bucket *)
(* released or counts one twice, and no reservation of the HEC client's    *)
(* room leaks (hec_client.put, put_lines, _absorb, _send_batch), for any   *)
(* number of connections, sender threads and lines.                        *)
THEOREM EventsConserved == PathSpec => []Conserved
BY PathInvariant, ConservedFollows, PTL

(* A flush that reports success has resolved everything the readers        *)
(* accepted (flush_and_stop).                                              *)
THEOREM CleanFlush == PathSpec => []CleanFlushComplete
<1>1. PathInv => CleanFlushComplete
  BY DEF PathInv, SummaryTrue, CleanFlushComplete
<1> QED BY <1>1, PathInvariant, PTL

(* No instant releases more than the catch-up of its rate, however many    *)
(* readers share the bucket (TokenBucket._cap_backlog).                    *)
THEOREM BurstBounded == PathSpec => []CatchUpBounded
<1>1. PathInv => CatchUpBounded
  <2> SUFFICES ASSUME PathInv PROVE CatchUpBounded
    OBVIOUS
  <2>1. /\ clock.burst \in Nat /\ clock.top \in Nat /\ bucket.backlog \in Nat /\ Catchup \in Nat
        /\ clock.top * Catchup \in Nat
    <3>1. clock.top \in Nat /\ Catchup \in Nat
      BY PositiveBounds DEF PathInv, PacingTypes
    <3>2. clock.top * Catchup \in Nat
      BY <3>1, CatchupGrows
    <3> QED BY <3>1, <3>2 DEF PathInv, PacingTypes
  <2>2. clock.burst > 0 => clock.burst + bucket.backlog <= clock.top * Catchup
    BY DEF PathInv, Paced
  <2> DEFINE tc == clock.top * Catchup
  <2> HIDE DEF tc
  <2>3. clock.burst <= tc
    BY <2>1, <2>2 DEF tc
  <2> QED BY <2>3 DEF CatchUpBounded, tc
<1> QED BY <1>1, PathInvariant, PTL

(***************************************************************************)
(* The run's totals: samples.                                              *)
(***************************************************************************)

(* The samples of a slot: taken by now, no two at the same time.           *)
Sampled(set, t) ==
    /\ set \subseteq [ts : Nat, n : Nat]
    /\ \A x \in set : x.ts <= t
    /\ \A x, y \in set : x.ts = y.ts => x = y

Latest(x, set) == x \in set /\ \A y \in set : y.ts <= x.ts

(* A sample that no other follows is the one _latest_sample returns.       *)
LEMMA NewestIs ==
    ASSUME NEW set, NEW t, Sampled(set, t), NEW x, Latest(x, set)
    PROVE  Newest(set) = x.n
<1> DEFINE z == CHOOSE z \in set : \A y \in set : y.ts <= z.ts
<1>1. z \in set /\ \A y \in set : y.ts <= z.ts
  BY DEF Latest
<1>2. Newest(set) = z.n
  BY DEF Newest, Latest
<1> HIDE DEF z
<1>3. z.ts = x.ts
  BY <1>1 DEF Latest, Sampled
<1> QED BY <1>1, <1>2, <1>3 DEF Latest, Sampled

(* There is one, unless there are no samples.                              *)
LEMMA LatestExists ==
    ASSUME NEW set, NEW t \in Nat, Sampled(set, t), set # {}
    PROVE  \E x : Latest(x, set)
<1> DEFINE Ages == {t - x.ts : x \in set}
<1>1. Ages \subseteq Nat /\ Ages # {}
  BY DEF Sampled
<1>2. PICK a \in Ages : \A b \in Ages : a <= b
  BY <1>1, LeastNat
<1>3. PICK x \in set : a = t - x.ts
  BY <1>2
<1>4. \A y \in set : y.ts <= x.ts
  <2> SUFFICES ASSUME NEW y \in set PROVE y.ts <= x.ts
    OBVIOUS
  <2>1. t - x.ts <= t - y.ts
    BY <1>2, <1>3
  <2>2. x.ts \in Nat /\ y.ts \in Nat
    BY <1>3 DEF Sampled
  <2> QED BY <2>1, <2>2
<1> QED BY <1>3, <1>4 DEF Latest

(* The counter shown for a slot is a natural.                              *)
LEMMA NewestType ==
    ASSUME NEW set, NEW t \in Nat, Sampled(set, t)
    PROVE  Newest(set) \in Nat
<1>1. CASE set = {}
  BY <1>1 DEF Newest
<1>2. CASE set # {}
  <2>1. PICK x : Latest(x, set)
    BY <1>2, LatestExists
  <2> QED BY <2>1, NewestIs DEF Latest, Sampled
<1> QED BY <1>1, <1>2

(* A heartbeat's sample is the newest.                                     *)
LEMMA HeartbeatNewest ==
    ASSUME NEW set, NEW t \in Nat, Sampled(set, t), \A x \in set : x.ts # t, NEW k \in Nat
    PROVE  /\ Sampled(set \cup {[ts |-> t, n |-> k]}, t)
           /\ Newest(set \cup {[ts |-> t, n |-> k]}) = k
<1> DEFINE x == [ts |-> t, n |-> k]
           new == set \cup {x}
<1>1. x \in [ts : Nat, n : Nat] /\ x.ts = t /\ x.n = k
  OBVIOUS
<1> HIDE DEF x
<1>2. Sampled(new, t)
  BY <1>1 DEF Sampled
<1>3. Latest(x, new)
  BY <1>1 DEF Latest, Sampled
<1> HIDE DEF new
<1>4. Newest(new) = x.n
  BY <1>2, <1>3, NewestIs
<1> QED BY <1>1, <1>2, <1>4 DEF new, x

(* Pruning leaves the newest sample, or none.                              *)
LEMMA PruneNewest ==
    ASSUME NEW set, now \in Nat, Sampled(set, now), NEW age \in Nat
    PROVE  /\ Sampled(set \ Old(set, age), now)
           /\ set # Old(set, age) => Newest(set \ Old(set, age)) = Newest(set)
           /\ set = Old(set, age) => Newest(set \ Old(set, age)) = 0
<1> DEFINE rest == set \ Old(set, age)
<1>1. Sampled(rest, now)
  BY DEF Sampled
<1>2. ASSUME set # Old(set, age) PROVE Newest(rest) = Newest(set)
  <2>1. PICK y \in set : ~(y.ts + age < now)
    BY <1>2 DEF Old
  <2>2. PICK x : Latest(x, set)
    BY <2>1, LatestExists
  <2>3. x \in set /\ y.ts <= x.ts /\ x.ts \in Nat /\ y.ts \in Nat
    BY <2>1, <2>2 DEF Latest, Sampled
  <2>4. ~(x.ts + age < now)
    BY <2>1, <2>3
  <2>5. Latest(x, rest)
    BY <2>2, <2>3, <2>4 DEF Latest, Old
  <2> HIDE DEF rest
  <2>6. Newest(rest) = x.n
    BY <1>1, <2>5, NewestIs
  <2>7. Newest(set) = x.n
    BY <2>2, NewestIs
  <2> QED BY <2>6, <2>7
<1>3. set = Old(set, age) => Newest(rest) = 0
  BY DEF Newest
<1> QED BY <1>1, <1>2, <1>3

(* A bucket and its floor.                                                 *)
LEMMA BucketFloor ==
    ASSUME NEW t \in Nat
    PROVE  /\ t \div Bucket \in Nat /\ (t \div Bucket) * Bucket \in Nat
           /\ (t \div Bucket) * Bucket <= t
           /\ t < (t \div Bucket) * Bucket + Bucket
<1>1. Bucket \in Nat \ {0}
  BY TotalsAssumption
<1> QED BY <1>1

(* Floors are ordered as their buckets, and each lies in its own bucket.   *)
LEMMA FloorsOrdered ==
    ASSUME NEW a \in Nat, NEW b \in Nat
    PROVE  /\ a * Bucket \in Nat /\ (a * Bucket) \div Bucket = a
           /\ a < b => a * Bucket + Bucket <= b * Bucket
<1>1. Bucket \in Nat \ {0}
  BY TotalsAssumption
<1> QED BY <1>1

(* Buckets follow the order of time.                                       *)
LEMMA BucketsOrdered ==
    ASSUME NEW t \in Nat, NEW u \in Nat, t <= u
    PROVE  t \div Bucket <= u \div Bucket
<1> DEFINE a == t \div Bucket
           b == u \div Bucket
<1>1. /\ a \in Nat /\ b \in Nat /\ a * Bucket \in Nat /\ b * Bucket \in Nat
      /\ a * Bucket <= t /\ u < b * Bucket + Bucket
  BY BucketFloor
<1> HIDE DEF a, b
<1>2. b < a => b * Bucket + Bucket <= a * Bucket
  BY <1>1, FloorsOrdered
<1>3. Bucket \in Nat
  BY TotalsAssumption
<1> DEFINE p == a * Bucket
           q == b * Bucket
<1>4. p \in Nat /\ q \in Nat /\ p <= t /\ u < q + Bucket /\ (b < a => q + Bucket <= p)
  BY <1>1, <1>2
<1> HIDE DEF p, q
<1>5. ~(b < a)
  BY <1>3, <1>4
<1> QED BY <1>1, <1>5 DEF a, b

(* Rolling up keeps the newest counter of a slot.                          *)
LEMMA RollUpNewest ==
    ASSUME NEW set, now \in Nat, Sampled(set, now)
    PROVE  Sampled(_roll_up(set), now) /\ Newest(_roll_up(set)) = Newest(set)
<1> DEFINE old == Old(set, RollAfter)
           buckets == {b \in 0 .. MaxTime : Cardinality(Members(old, b)) > 1}
           agg(b) == [ts |-> b * Bucket, n |-> Newest(Members(old, b))]
           rolled == _roll_up(set)
<1>0. RollAfter \in Nat /\ MaxTime \in Nat /\ Bucket \in Nat
  BY TotalsAssumption
<1>1. \A y : y \in rolled <=>
        \/ y \in set /\ \A b \in buckets : y \notin Members(old, b)
        \/ \E b \in buckets : y = agg(b)
  BY DEF _roll_up, _aggregate_bucket
<1>2. \A b : Members(old, b) \subseteq old /\ old \subseteq set
  BY DEF Members, Old
<1>3. \A b : Sampled(Members(old, b), now)
  BY <1>2 DEF Sampled
<1>4. \A b \in buckets : b \in Nat /\ \E m : m \in Members(old, b)
  <2> SUFFICES ASSUME NEW b \in buckets PROVE b \in Nat /\ Members(old, b) # {}
    OBVIOUS
  <2>1. b \in Nat /\ Cardinality(Members(old, b)) > 1
    BY <1>0
  <2>2. Cardinality({}) = 0
    BY FS_EmptySet
  <2> HIDE DEF old
  <2> QED BY <2>1, <2>2
<1>5. \A b \in buckets : agg(b) \in [ts : Nat, n : Nat]
  <2> SUFFICES ASSUME NEW b \in buckets PROVE b * Bucket \in Nat /\ Newest(Members(old, b)) \in Nat
    OBVIOUS
  <2>1. b \in Nat
    BY <1>4
  <2> QED BY <2>1, <1>3, NewestType, FloorsOrdered
<1>6. ASSUME NEW b \in buckets, NEW m \in Members(old, b)
      PROVE  m \in set /\ m.ts \in Nat /\ m.ts \div Bucket = b /\ b * Bucket <= m.ts
             /\ m.ts + RollAfter < now
  <2>1. m \in set /\ m.ts \div Bucket = b /\ m.ts + RollAfter < now
    BY <1>6 DEF Members, Old
  <2>2. m.ts \in Nat
    BY <2>1 DEF Sampled
  <2> QED BY <2>1, <2>2, BucketFloor
<1> DEFINE floor(b) == b * Bucket
<1>7. \A b \in buckets : agg(b).ts = floor(b) /\ floor(b) \in Nat /\ b \in Nat
  BY <1>5, <1>4
<1>8. \A a, b \in buckets : floor(a) = floor(b) => a = b
  <2> SUFFICES ASSUME NEW a \in buckets, NEW b \in buckets, floor(a) = floor(b) PROVE a = b
    OBVIOUS
  <2>1. a \in Nat /\ b \in Nat /\ (a * Bucket) \div Bucket = a /\ (b * Bucket) \div Bucket = b
    BY <1>4, FloorsOrdered
  <2> QED BY <2>1
<1>9. ASSUME NEW y \in set, NEW b \in buckets, y.ts = floor(b)
      PROVE  y \in Members(old, b)
  <2>1. PICK m : m \in Members(old, b)
    BY <1>4
  <2>2. m.ts \in Nat /\ floor(b) <= m.ts /\ m.ts + RollAfter < now
    BY <1>6, <2>1
  <2>3. y.ts \in Nat
    BY DEF Sampled
  <2>4. y.ts + RollAfter < now
    BY <1>0, <1>9, <2>2, <2>3
  <2>5. b \in Nat /\ (b * Bucket) \div Bucket = b
    BY <1>4, FloorsOrdered
  <2> QED BY <1>9, <2>4, <2>5 DEF Members, Old
<1>10. Sampled(rolled, now)
  <2>1. rolled \subseteq [ts : Nat, n : Nat]
    <3> SUFFICES ASSUME NEW y \in rolled PROVE y \in [ts : Nat, n : Nat]
      OBVIOUS
    <3> HIDE DEF buckets, agg, rolled
    <3> QED BY <1>1, <1>5 DEF Sampled
  <2>2. \A y \in rolled : y.ts <= now
    <3> SUFFICES ASSUME NEW b \in buckets PROVE agg(b).ts <= now
      <4> HIDE DEF buckets, agg, rolled
      <4> QED BY <1>1 DEF Sampled
    <3>1. PICK m : m \in Members(old, b)
      BY <1>4
    <3>2. m.ts \in Nat /\ b * Bucket <= m.ts /\ m.ts + RollAfter < now
      BY <1>6, <3>1
    <3>3. floor(b) \in Nat /\ agg(b).ts = floor(b)
      BY <1>7
    <3>4. floor(b) <= m.ts
      BY <3>2
    <3> HIDE DEF floor, agg
    <3> QED BY <1>0, <3>2, <3>3, <3>4
  <2>3. ASSUME NEW x \in rolled, NEW y \in rolled, x.ts = y.ts PROVE x = y
    <3> HIDE DEF buckets, agg, rolled, floor, old
    <3>1. CASE x \in set /\ y \in set
      BY <2>3, <3>1 DEF Sampled
    <3>2. CASE \E a \in buckets : x = agg(a)
      <4>1. PICK a \in buckets : x = agg(a)
        BY <3>2
      <4>2. ASSUME y \in set, \A b \in buckets : y \notin Members(old, b) PROVE FALSE
        BY <1>7, <1>9, <2>3, <4>1, <4>2
      <4>3. ASSUME NEW b \in buckets, y = agg(b) PROVE x = y
        BY <1>7, <1>8, <2>3, <4>1, <4>3
      <4> QED BY <1>1, <4>2, <4>3
    <3>3. CASE \E b \in buckets : y = agg(b)
      <4>1. PICK b \in buckets : y = agg(b)
        BY <3>3
      <4>2. ASSUME x \in set, \A a \in buckets : x \notin Members(old, a) PROVE FALSE
        BY <1>7, <1>9, <2>3, <4>1, <4>2
      <4>3. ASSUME NEW a \in buckets, x = agg(a) PROVE x = y
        BY <1>7, <1>8, <2>3, <4>1, <4>3
      <4> QED BY <1>1, <4>2, <4>3
    <3> QED BY <1>1, <3>1, <3>2, <3>3
  <2> QED BY <2>1, <2>2, <2>3 DEF Sampled
<1>11. CASE set = {}
  <2>1. rolled = {}
    <3> SUFFICES ASSUME NEW b \in buckets PROVE FALSE
      BY <1>1, <1>11
    <3> QED BY <1>2, <1>4, <1>11
  <2> QED BY <1>10, <1>11, <2>1
<1>12. ASSUME NEW x, Latest(x, set) PROVE Newest(rolled) = Newest(set)
  <2>0. /\ x \in set /\ x.ts \in Nat /\ Newest(set) = x.n
        /\ \A y \in set : y.ts \in Nat /\ y.ts <= x.ts
    BY <1>12, NewestIs DEF Latest, Sampled
  <2>1. CASE \A b \in buckets : x \notin Members(old, b)
    <3>1. \A b \in buckets : agg(b).ts <= x.ts
      <4> SUFFICES ASSUME NEW b \in buckets PROVE agg(b).ts <= x.ts
        OBVIOUS
      <4>1. PICK m : m \in Members(old, b)
        BY <1>4
      <4>2. m.ts \in Nat /\ floor(b) <= m.ts /\ m.ts <= x.ts
        BY <1>6, <2>0, <4>1
      <4>3. agg(b).ts = floor(b) /\ floor(b) \in Nat
        BY <1>7
      <4> HIDE DEF floor, agg, buckets
      <4> QED BY <2>0, <4>2, <4>3
    <3> HIDE DEF buckets, agg, rolled, floor, old
    <3>2. Latest(x, rolled)
      BY <1>1, <2>0, <2>1, <3>1 DEF Latest
    <3> QED BY <1>10, <2>0, <3>2, NewestIs
  <2>2. ASSUME NEW b \in buckets, x \in Members(old, b) PROVE Newest(rolled) = Newest(set)
    <3>1. /\ x.ts \div Bucket = b /\ b * Bucket <= x.ts /\ x.ts + RollAfter < now /\ b \in Nat
      BY <1>6, <1>4, <2>2
    <3>2. agg(b).n = x.n
      <4>1. Latest(x, Members(old, b))
        BY <1>2, <2>0, <2>2 DEF Latest
      <4>2. Newest(Members(old, b)) = x.n
        BY <1>3, <4>1, NewestIs
      <4> QED BY <4>2
    <3>3. \A y \in set : y.ts <= floor(b) \/ y \in Members(old, b)
      <4> SUFFICES ASSUME NEW y \in set, y \notin Members(old, b) PROVE y.ts <= floor(b)
        OBVIOUS
      <4>1. y.ts \in Nat /\ y.ts <= x.ts
        BY <2>0
      <4>2. y.ts + RollAfter < now
        BY <1>0, <2>0, <3>1, <4>1
      <4>3. y.ts \div Bucket # b
        BY <4>2 DEF Members, Old
      <4> DEFINE a == y.ts \div Bucket
      <4>4. a \in Nat /\ a <= b /\ y.ts < a * Bucket + Bucket
        BY <2>0, <3>1, <4>1, BucketsOrdered, BucketFloor
      <4>5. a < b
        BY <3>1, <4>3, <4>4
      <4> HIDE DEF a
      <4>6. a * Bucket + Bucket <= b * Bucket /\ a * Bucket \in Nat /\ b * Bucket \in Nat
        BY <3>1, <4>4, <4>5, FloorsOrdered
      <4> DEFINE p == a * Bucket
                 q == b * Bucket
      <4>7. y.ts < p + Bucket /\ p + Bucket <= q /\ p \in Nat /\ q \in Nat
        BY <4>4, <4>6
      <4> HIDE DEF p, q
      <4>8. y.ts <= q
        BY <1>0, <4>1, <4>7
      <4> QED BY <4>8 DEF q
    <3>4. \A a \in buckets : floor(a) <= floor(b)
      <4> SUFFICES ASSUME NEW a \in buckets PROVE floor(a) <= floor(b)
        OBVIOUS
      <4>1. PICK m : m \in Members(old, a)
        BY <1>4
      <4>2. m \in set /\ m.ts \in Nat /\ m.ts \div Bucket = a /\ a \in Nat
        BY <1>4, <1>6, <4>1
      <4>3. a <= b
        BY <2>0, <3>1, <4>2, BucketsOrdered
      <4>4. /\ a * Bucket \in Nat /\ b * Bucket \in Nat
            /\ a < b => a * Bucket + Bucket <= b * Bucket
        BY <3>1, <4>2, FloorsOrdered
      <4> DEFINE p == a * Bucket
                 q == b * Bucket
      <4>5. p \in Nat /\ q \in Nat /\ (a < b => p + Bucket <= q) /\ (a = b => p = q)
        BY <4>4
      <4> HIDE DEF p, q
      <4>6. p <= q
        BY <1>0, <3>1, <4>2, <4>3, <4>5
      <4> QED BY <4>6 DEF p, q
    <3>5. agg(b).ts = floor(b) /\ floor(b) \in Nat
      BY <1>7
    <3>6. \A a \in buckets : agg(a).ts = floor(a)
      BY <1>7
    <3> HIDE DEF buckets, agg, rolled, floor, old
    <3>7. Latest(agg(b), rolled)
      BY <1>1, <2>2, <3>3, <3>4, <3>5, <3>6 DEF Latest
    <3> QED BY <1>10, <2>0, <3>2, <3>7, NewestIs
  <2> QED BY <2>1, <2>2
<1> QED BY <1>10, <1>11, <1>12, LatestExists

(***************************************************************************)
(* The run's totals: the inductive invariant.                              *)
(***************************************************************************)

TotalsTypes ==
    /\ now \in Nat
    /\ lease \in [Slots -> {"none", "free", "held", "lost", "done", "vacant"}]
    /\ count \in [Slots -> Nat] /\ before \in [Slots -> Nat] /\ acked \in [Slots -> Nat]
    /\ totals \in Nat
    /\ final \in [Slots -> [pc : {"idle", "open"}, base : Nat]]
    /\ stop \in [pc : {"idle", "open", "done"}, base : Nat]
    /\ trail \in [overlap : BOOLEAN, refolded : BOOLEAN, dropped : SUBSET Slots]

SamplesTaken == DOMAIN samples = Slots /\ \A s \in Slots : Sampled(samples[s], now)

Live(s) == lease[s] \notin {"none", "done"}
Sample(s) == Newest(samples[s])
LiveSample(s) == IF Live(s) THEN Sample(s) ELSE 0

(* A removed slot counts nothing and its loss is recorded; only a forced   *)
(* stop leaves a slot vacant.                                              *)
SlotShape ==
    \A s \in Slots :
        /\ lease[s] = "none" => count[s] = 0 /\ s \in trail.dropped
        /\ lease[s] = "vacant" => stop.pc = "done"

(* What a slot may have put into a total: all it sent once it is folded,   *)
(* before that what its earlier workers sent, less a sample of theirs that *)
(* is still to be added.                                                   *)
Ceiling(s) ==
    IF ~Live(s) THEN before[s] + count[s]
    ELSE IF Sample(s) <= count[s] THEN before[s] ELSE before[s] + count[s] - Sample(s)

Ceilings == SumFunction([s \in Slots |-> Ceiling(s)])

(* The total, and every copy of it that a handler loaded, is within that.  *)
Capped ==
    /\ totals <= Ceilings
    /\ \A s \in Slots : final[s].pc = "open" => final[s].base <= Ceilings
    /\ stop.pc = "open" => stop.base <= Ceilings

(* What a folded slot reported, and what is still to be folded.            *)
Folded(s) == IF lease[s] = "done" /\ s \notin trail.dropped THEN acked[s] ELSE 0
Foldings == SumFunction([s \in Slots |-> Folded(s)])

Acknowledged == \A s \in Slots : Live(s) /\ s \notin trail.dropped => acked[s] <= Sample(s)

TotalsInv ==
    /\ TotalsTypes /\ SamplesTaken /\ SlotShape /\ Acknowledged
    /\ ~trail.refolded => Capped
    /\ ~trail.overlap => totals >= Foldings

-----------------------------------------------------------------------------
(* The sums of the totals.                                                 *)

Loadings == SumFunction([s \in Slots |-> LiveSample(s)])

(* The sums are of integers, and the live sum is over the slots with a     *)
(* row that is not done.                                                   *)
LEMMA TotalsSums ==
    ASSUME TotalsTypes, SamplesTaken
    PROVE  /\ \A s \in Slots : /\ Sample(s) \in Nat /\ LiveSample(s) \in Nat
                               /\ Ceiling(s) \in Int /\ Folded(s) \in Nat
           /\ Ceilings \in Int /\ Foldings \in Nat /\ Loadings \in Nat
           /\ \A b : live_totals(b) = b + Loadings
<1>1. \A s \in Slots : Sample(s) \in Nat
  BY NewestType DEF TotalsTypes, SamplesTaken, Sample
<1>2. \A s \in Slots : count[s] \in Nat /\ before[s] \in Nat /\ acked[s] \in Nat
  BY DEF TotalsTypes
<1>3. \A s \in Slots : LiveSample(s) \in Nat /\ Ceiling(s) \in Int /\ Folded(s) \in Nat
  BY <1>1, <1>2 DEF LiveSample, Ceiling, Folded
<1> DEFINE f == [s \in Slots |-> Ceiling(s)]
           g == [s \in Slots |-> Folded(s)]
           h == [s \in Slots |-> LiveSample(s)]
           R == {t \in Slots : lease[t] \notin {"none", "done"}}
           k == [s \in R |-> Newest(samples[s])]
<1>4. /\ f \in [Slots -> Int] /\ g \in [Slots -> Nat] /\ h \in [Slots -> Nat]
      /\ h \in [Slots -> Int] /\ k \in [R -> Int] /\ R \subseteq Slots
  BY <1>1, <1>3 DEF Sample
<1>5. \A s \in Slots : h[s] = IF s \in R THEN k[s] ELSE 0
  BY DEF LiveSample, Live, Sample
<1>6. Ceilings = SumFunction(f) /\ Foldings = SumFunction(g) /\ Loadings = SumFunction(h)
  BY DEF Ceilings, Foldings, Loadings
<1>7. \A b : live_totals(b) = b + SumFunction(k)
  BY DEF live_totals
<1> HIDE DEF f, g, h, k, R
<1>8. SumFunction(k) = SumFunction(h)
  BY <1>4, <1>5, TotalsAssumption, SumPad
<1>9. SumFunction(f) \in Int /\ SumFunction(g) \in Nat /\ SumFunction(h) \in Nat
  BY <1>4, TotalsAssumption, SumFunctionType
<1> QED BY <1>1, <1>3, <1>6, <1>7, <1>8, <1>9

(* Ceilings that rise by at least what each slot loads rise by as much.    *)
LEMMA CeilingsRise ==
    ASSUME TotalsTypes, SamplesTaken, TotalsTypes', SamplesTaken',
           NEW g \in [Slots -> Int], \A s \in Slots : Ceiling(s) + g[s] <= Ceiling(s)'
    PROVE  Ceilings + SumFunction(g) <= Ceilings'
<1> DEFINE f == [s \in Slots |-> Ceiling(s)]
           h == [s \in Slots |-> Ceiling(s)']
           k == [s \in Slots |-> Ceiling(s) + g[s]]
<1>1. \A s \in Slots : Ceiling(s) \in Int
  BY TotalsSums
<1>2. \A s \in Slots : Ceiling(s)' \in Int
  <2>1. \A s \in Slots : Sample(s)' \in Nat
    BY NewestType DEF TotalsTypes, SamplesTaken, Sample
  <2>2. \A s \in Slots : count'[s] \in Nat /\ before'[s] \in Nat
    BY DEF TotalsTypes
  <2> QED BY <2>1, <2>2 DEF Ceiling
<1>3. f \in [Slots -> Int] /\ h \in [Slots -> Int] /\ k \in [Slots -> Int]
  BY <1>1, <1>2
<1>4. /\ \A s \in Slots : k[s] = f[s] + g[s]
      /\ \A s \in Slots : k[s] <= h[s]
  OBVIOUS
<1>5. Ceilings = SumFunction(f) /\ Ceilings' = SumFunction(h)
  BY DEF Ceilings
<1> HIDE DEF f, h, k
<1>6. SumFunction(k) = SumFunction(f) + SumFunction(g)
  BY <1>3, <1>4, TotalsAssumption, SumPlus
<1>7. SumFunction(k) <= SumFunction(h)
  BY <1>3, <1>4, TotalsAssumption, SumLeq
<1> QED BY <1>5, <1>6, <1>7

(* Ceilings that do not fall.                                              *)
LEMMA CeilingsKept ==
    ASSUME TotalsTypes, SamplesTaken, TotalsTypes', SamplesTaken',
           \A s \in Slots : Ceiling(s) <= Ceiling(s)'
    PROVE  Ceilings <= Ceilings'
<1> DEFINE g == [s \in Slots |-> 0]
<1>1. g \in [Slots -> Int] /\ \A s \in Slots : g[s] = 0
  OBVIOUS
<1>2. \A s \in Slots : Ceiling(s) \in Int
  BY TotalsSums
<1> HIDE DEF g
<1>3. SumFunction(g) = 0
  BY <1>1, TotalsAssumption, SumZero
<1>4. \A s \in Slots : Ceiling(s) + g[s] <= Ceiling(s)'
  BY <1>1, <1>2
<1>5. Ceilings + SumFunction(g) <= Ceilings'
  BY <1>1, <1>4, CeilingsRise
<1>6. Ceilings \in Int
  BY TotalsSums
<1> QED BY <1>3, <1>5, <1>6

(* What the folds must hold grows by at most what each slot adds.          *)
LEMMA FoldingsRise ==
    ASSUME TotalsTypes, SamplesTaken, TotalsTypes', SamplesTaken',
           NEW g \in [Slots -> Int], \A s \in Slots : Folded(s)' <= Folded(s) + g[s]
    PROVE  Foldings' <= Foldings + SumFunction(g)
<1> DEFINE f == [s \in Slots |-> Folded(s)]
           h == [s \in Slots |-> Folded(s)']
           k == [s \in Slots |-> Folded(s) + g[s]]
<1>1. \A s \in Slots : Folded(s) \in Int /\ Folded(s)' \in Int
  BY DEF TotalsTypes, Folded
<1>3. f \in [Slots -> Int] /\ h \in [Slots -> Int] /\ k \in [Slots -> Int]
  BY <1>1
<1>4. /\ \A s \in Slots : k[s] = f[s] + g[s]
      /\ \A s \in Slots : h[s] <= k[s]
  OBVIOUS
<1>5. Foldings = SumFunction(f) /\ Foldings' = SumFunction(h)
  BY DEF Foldings
<1> HIDE DEF f, h, k
<1>6. SumFunction(k) = SumFunction(f) + SumFunction(g)
  BY <1>3, <1>4, TotalsAssumption, SumPlus
<1>7. SumFunction(h) <= SumFunction(k)
  BY <1>3, <1>4, TotalsAssumption, SumLeq
<1> QED BY <1>5, <1>6, <1>7

(* Folds that ask for no more.                                             *)
LEMMA FoldingsKept ==
    ASSUME TotalsTypes, SamplesTaken, TotalsTypes', SamplesTaken',
           \A s \in Slots : Folded(s)' <= Folded(s)
    PROVE  Foldings' <= Foldings
<1> DEFINE g == [s \in Slots |-> 0]
<1>1. g \in [Slots -> Int] /\ \A s \in Slots : g[s] = 0
  OBVIOUS
<1>2. \A s \in Slots : Folded(s) \in Int
  BY DEF TotalsTypes, Folded
<1> HIDE DEF g
<1>3. SumFunction(g) = 0
  BY <1>1, TotalsAssumption, SumZero
<1>4. \A s \in Slots : Folded(s)' <= Folded(s) + g[s]
  BY <1>1, <1>2
<1>5. Foldings' <= Foldings + SumFunction(g)
  BY <1>1, <1>4, FoldingsRise
<1>6. Foldings \in Int
  BY TotalsSums
<1> QED BY <1>3, <1>5, <1>6

(* They are numbers before a step and after it.                            *)
LEMMA SumsNumbers ==
    (TotalsTypes /\ SamplesTaken)' => (Ceilings \in Int /\ Foldings \in Nat /\ Loadings \in Nat)'
<1>1. TotalsTypes /\ SamplesTaken => Ceilings \in Int /\ Foldings \in Nat /\ Loadings \in Nat
  BY TotalsSums
<1> QED BY <1>1, PTL

(* A step that commits no total: each slot's ceiling does not fall, and    *)
(* its fold asks for no more.                                              *)
LEMMA NoCommit ==
    ASSUME TotalsInv, TotalsTypes', SamplesTaken', UNCHANGED totals,
           trail.refolded => trail'.refolded, trail.overlap => trail'.overlap,
           ~trail'.refolded => \A s \in Slots : Ceiling(s) <= Ceiling(s)',
           \A s \in Slots : Folded(s)' <= Folded(s),
           \A s \in Slots : final'[s].pc = "open" =>
               \/ final[s].pc = "open" /\ final'[s].base = final[s].base
               \/ final'[s].base = totals,
           stop'.pc = "open" => stop' = stop \/ stop'.base = totals
    PROVE  /\ ~trail'.refolded => Capped'
           /\ ~trail'.overlap => totals' >= Foldings'
<1>1. TotalsTypes /\ SamplesTaken
  BY DEF TotalsInv
<1>2. ASSUME ~trail'.refolded PROVE Capped'
  <2>1. Ceilings <= Ceilings'
    BY <1>1, <1>2, CeilingsKept
  <2>2. Ceilings \in Int
    BY <1>1, TotalsSums
  <2>3. Ceilings' \in Int
    BY SumsNumbers
  <2>4. Capped
    BY <1>2 DEF TotalsInv, TotalsTypes
  <2>5. totals \in Nat /\ stop.base \in Nat /\ \A s \in Slots : final[s].base \in Nat
    BY <1>1 DEF TotalsTypes
  <2>6. totals' <= Ceilings'
    BY <2>1, <2>2, <2>3, <2>4, <2>5 DEF Capped
  <2>7. ASSUME NEW s \in Slots, final'[s].pc = "open" PROVE final'[s].base <= Ceilings'
    BY <2>1, <2>2, <2>3, <2>4, <2>5, <2>7 DEF Capped
  <2>8. stop'.pc = "open" => stop'.base <= Ceilings'
    BY <2>1, <2>2, <2>3, <2>4, <2>5 DEF Capped
  <2> QED BY <2>6, <2>7, <2>8 DEF Capped
<1>3. ASSUME ~trail'.overlap PROVE totals' >= Foldings'
  <2>1. Foldings' <= Foldings
    BY <1>1, FoldingsKept
  <2>2. Foldings \in Nat
    BY <1>1, TotalsSums
  <2>3. Foldings' \in Nat
    BY SumsNumbers
  <2>4. totals \in Nat /\ totals >= Foldings
    BY <1>3 DEF TotalsInv, TotalsTypes
  <2> QED BY <2>1, <2>2, <2>3, <2>4
<1> QED BY <1>2, <1>3

-----------------------------------------------------------------------------
(* Types, samples and shapes.                                              *)

SlotStep(s) ==
    \/ deliver(s) \/ record_heartbeat(s) \/ lapse(s) \/ claim(s)
    \/ final_loads(s) \/ record_final(s) \/ scale_down(s) \/ scale_up(s)

(* Every step keeps the types.                                             *)
LEMMA TotalsTypesStep ==
    ASSUME TotalsInv, TotalsNext
    PROVE  TotalsTypes'
<1>0. TotalsTypes
  BY DEF TotalsInv
<1>1. CASE TimePasses
  BY <1>0, <1>1 DEF TotalsTypes, TimePasses
<1>2. CASE stop_loads
  BY <1>0, <1>2 DEF TotalsTypes, stop_loads
<1>3. CASE stop_run
  <2>1. totals' = stop.base + Loadings /\ Loadings \in Nat
    BY <1>3, TotalsSums DEF TotalsInv, stop_run, _fold_heartbeat_totals
  <2>2. totals' \in Nat
    BY <1>0, <2>1 DEF TotalsTypes
  <2>3. lease' \in [Slots -> {"none", "free", "held", "lost", "done", "vacant"}]
    BY <1>0, <1>3 DEF TotalsTypes, stop_run
  <2>4. trail' \in [overlap : BOOLEAN, refolded : BOOLEAN, dropped : SUBSET Slots]
    BY <1>0, <1>3 DEF TotalsTypes, stop_run
  <2> QED BY <1>0, <1>3, <2>2, <2>3, <2>4 DEF TotalsTypes, stop_run
<1>4. CASE roll_up
  BY <1>0, <1>4 DEF TotalsTypes, roll_up
<1>5. CASE _prune
  BY <1>0, <1>5 DEF TotalsTypes, _prune
<1>6. ASSUME NEW s \in Slots, SlotStep(s) PROVE TotalsTypes'
  <2>0. count[s] + 1 \in Nat /\ before[s] + count[s] \in Nat /\ count[s] \in Nat
    BY <1>0 DEF TotalsTypes
  <2>1. CASE deliver(s)
    BY <1>0, <2>0, <2>1 DEF TotalsTypes, deliver
  <2>2. CASE record_heartbeat(s)
    BY <1>0, <2>0, <2>2 DEF TotalsTypes, record_heartbeat
  <2>3. CASE lapse(s)
    BY <1>0, <2>3 DEF TotalsTypes, lapse
  <2>4. CASE claim(s)
    BY <1>0, <2>0, <2>4 DEF TotalsTypes, claim, NoRequest
  <2>5. CASE final_loads(s)
    BY <1>0, <2>5 DEF TotalsTypes, final_loads
  <2>6. CASE record_final(s)
    <3>1. final[s].base + count[s] \in Nat
      BY <1>0, <2>0 DEF TotalsTypes
    <3>2. totals' \in Nat /\ UNCHANGED <<now, count, before, stop>>
      BY <1>0, <2>6, <3>1 DEF TotalsTypes, record_final, fold_totals
    <3>3. /\ lease' \in [Slots -> {"none", "free", "held", "lost", "done", "vacant"}]
          /\ acked' \in [Slots -> Nat]
      BY <1>0, <2>0, <2>6 DEF TotalsTypes, record_final
    <3>4. trail' \in [overlap : BOOLEAN, refolded : BOOLEAN, dropped : SUBSET Slots]
      BY <1>0, <2>6 DEF TotalsTypes, record_final
    <3>5. final' \in [Slots -> [pc : {"idle", "open"}, base : Nat]]
      BY <1>0, <2>6 DEF TotalsTypes, record_final, NoRequest
    <3> QED BY <1>0, <3>2, <3>3, <3>4, <3>5 DEF TotalsTypes
  <2>7. CASE scale_down(s)
    <3>1. trail' \in [overlap : BOOLEAN, refolded : BOOLEAN, dropped : SUBSET Slots]
      BY <1>0, <2>7 DEF TotalsTypes, scale_down
    <3> QED BY <1>0, <2>0, <2>7, <3>1 DEF TotalsTypes, scale_down, NoRequest
  <2>8. CASE scale_up(s)
    BY <1>0, <2>8 DEF TotalsTypes, scale_up
  <2> QED BY <1>6, <2>1, <2>2, <2>3, <2>4, <2>5, <2>6, <2>7, <2>8 DEF SlotStep
<1> QED BY <1>1, <1>2, <1>3, <1>4, <1>5, <1>6 DEF TotalsNext, SlotStep

(* Every step keeps the samples in order.                                  *)
LEMMA SamplesStep ==
    ASSUME TotalsInv, TotalsNext
    PROVE  SamplesTaken'
<1>0. TotalsTypes /\ SamplesTaken /\ now \in Nat
  BY DEF TotalsInv, TotalsTypes
<1>1. CASE UNCHANGED <<samples, now>>
  BY <1>0, <1>1 DEF SamplesTaken
<1>2. CASE TimePasses
  BY <1>0, <1>2 DEF TimePasses, SamplesTaken, Sampled
<1>3. ASSUME NEW s \in Slots, record_heartbeat(s) PROVE SamplesTaken'
  <2> DEFINE new == samples[s] \cup {[ts |-> now, n |-> count[s]]}
  <2>1. Sampled(new, now)
    <3>1. count[s] \in Nat /\ Sampled(samples[s], now) /\ \A x \in samples[s] : x.ts # now
      BY <1>0, <1>3 DEF TotalsTypes, SamplesTaken, record_heartbeat
    <3> QED BY <1>0, <3>1, HeartbeatNewest
  <2>2. samples' = [samples EXCEPT ![s] = new] /\ now' = now
    BY <1>3 DEF record_heartbeat
  <2> HIDE DEF new
  <2>3. /\ DOMAIN samples' = Slots
        /\ \A t \in Slots : samples'[t] = new \/ samples'[t] = samples[t]
    BY <1>0, <2>2 DEF SamplesTaken
  <2> QED BY <1>0, <2>1, <2>2, <2>3 DEF SamplesTaken
<1>4. CASE roll_up
  <2>1. /\ now' = now /\ DOMAIN samples' = Slots
        /\ \A s \in Slots : samples'[s] = _roll_up(samples[s])
    BY <1>4 DEF roll_up
  <2>2. ASSUME NEW s \in Slots PROVE Sampled(samples'[s], now)
    <3>1. Sampled(samples[s], now) /\ now \in Nat
      BY <1>0 DEF SamplesTaken
    <3>2. Sampled(_roll_up(samples[s]), now)
      BY <3>1, RollUpNewest
    <3> QED BY <2>1, <3>2
  <2> QED BY <2>1, <2>2 DEF SamplesTaken
<1>5. CASE _prune
  <2>1. /\ now' = now /\ DOMAIN samples' = Slots
        /\ \A s \in Slots : samples'[s] = samples[s] \ Old(samples[s], PruneAfter)
    BY <1>5 DEF _prune
  <2>2. PruneAfter \in Nat
    BY TotalsAssumption
  <2>3. ASSUME NEW s \in Slots PROVE Sampled(samples'[s], now)
    <3>1. Sampled(samples[s], now) /\ now \in Nat
      BY <1>0 DEF SamplesTaken
    <3>2. Sampled(samples[s] \ Old(samples[s], PruneAfter), now)
      BY <2>2, <3>1, PruneNewest
    <3> QED BY <2>1, <3>2
  <2> QED BY <2>1, <2>3 DEF SamplesTaken
<1> QED BY <1>1, <1>2, <1>3, <1>4, <1>5 DEF TotalsNext, stop_loads, stop_run, deliver, lapse,
            claim, final_loads, record_final, scale_down, scale_up

(* Every step keeps the shape of slots.                                    *)
LEMMA SlotShapeStep ==
    ASSUME TotalsInv, TotalsNext
    PROVE  SlotShape'
<1>0. TotalsTypes /\ SlotShape
  BY DEF TotalsInv
<1>1. CASE TimePasses \/ roll_up
  BY <1>0, <1>1 DEF TimePasses, roll_up, SlotShape
<1>2. CASE stop_loads
  BY <1>0, <1>2 DEF TotalsTypes, SlotShape, stop_loads
<1>3. CASE stop_run
  BY <1>0, <1>3 DEF TotalsTypes, SlotShape, stop_run, Finalised
<1>4. CASE _prune
  BY <1>0, <1>4 DEF TotalsTypes, SlotShape, _prune
<1>5. ASSUME NEW s \in Slots, SlotStep(s) PROVE SlotShape'
  <2>1. CASE deliver(s)
    BY <1>0, <2>1 DEF TotalsTypes, SlotShape, deliver
  <2>2. CASE record_heartbeat(s)
    BY <1>0, <2>2 DEF TotalsTypes, SlotShape, record_heartbeat
  <2>3. CASE lapse(s)
    BY <1>0, <2>3 DEF TotalsTypes, SlotShape, lapse
  <2>4. CASE claim(s)
    BY <1>0, <2>4 DEF TotalsTypes, SlotShape, claim
  <2>5. CASE final_loads(s)
    BY <1>0, <2>5 DEF TotalsTypes, SlotShape, final_loads
  <2>6. CASE record_final(s)
    BY <1>0, <2>6 DEF TotalsTypes, SlotShape, record_final
  <2>7. CASE scale_down(s)
    BY <1>0, <2>7 DEF TotalsTypes, SlotShape, scale_down
  <2>8. CASE scale_up(s)
    BY <1>0, <2>8 DEF TotalsTypes, SlotShape, scale_up
  <2> QED BY <1>5, <2>1, <2>2, <2>3, <2>4, <2>5, <2>6, <2>7, <2>8 DEF SlotStep
<1> QED BY <1>1, <1>2, <1>3, <1>4, <1>5 DEF TotalsNext, SlotStep

-----------------------------------------------------------------------------
(* What each step does to the newest samples: a heartbeat replaces its own *)
(* slot's, a roll-up changes none, pruning only those it notes as dropped. *)
LEMMA SampleSteps ==
    ASSUME TotalsInv, TotalsNext
    PROVE  /\ UNCHANGED samples => \A t \in Slots : Sample(t)' = Sample(t)
           /\ roll_up => \A t \in Slots : Sample(t)' = Sample(t)
           /\ _prune => \A t \in Slots : /\ Sample(t)' <= Sample(t)
                                         /\ t \notin trail'.dropped => Sample(t)' = Sample(t)
           /\ \A s \in Slots : record_heartbeat(s) =>
                /\ Sample(s)' = count[s]
                /\ \A t \in Slots \ {s} : Sample(t)' = Sample(t)
<1>0. TotalsTypes /\ SamplesTaken /\ now \in Nat
  BY DEF TotalsInv, TotalsTypes
<1>1. UNCHANGED samples => \A t \in Slots : Sample(t)' = Sample(t)
  BY DEF Sample
<1>2. ASSUME roll_up, NEW t \in Slots PROVE Sample(t)' = Sample(t)
  <2>1. samples'[t] = _roll_up(samples[t]) /\ Sampled(samples[t], now)
    BY <1>0, <1>2 DEF roll_up, SamplesTaken
  <2> QED BY <1>0, <2>1, RollUpNewest DEF Sample
<1>3. ASSUME _prune, NEW t \in Slots
      PROVE  Sample(t)' <= Sample(t) /\ (t \notin trail'.dropped => Sample(t)' = Sample(t))
  <2> DEFINE set == samples[t]
             old == Old(samples[t], PruneAfter)
  <2>1. samples'[t] = set \ old /\ Sampled(set, now) /\ PruneAfter \in Nat
    BY <1>0, <1>3, TotalsAssumption DEF _prune, SamplesTaken
  <2>2. /\ set # old => Newest(set \ old) = Newest(set)
        /\ set = old => Newest(set \ old) = 0
    BY <1>0, <2>1, PruneNewest
  <2>3. set # {} /\ set = old => t \in trail'.dropped
    BY <1>0, <1>3 DEF _prune, TotalsTypes
  <2>4. Newest(set) \in Nat
    BY <1>0, <2>1, NewestType
  <2>5. set = {} => Newest(set) = 0
    BY DEF Newest
  <2> HIDE DEF set, old
  <2>6. Sample(t)' = Newest(set \ old) /\ Sample(t) = Newest(set)
    BY <2>1 DEF Sample, set
  <2> QED BY <2>2, <2>3, <2>4, <2>5, <2>6
<1>4. ASSUME NEW s \in Slots, record_heartbeat(s)
      PROVE  Sample(s)' = count[s] /\ \A t \in Slots \ {s} : Sample(t)' = Sample(t)
  <2> DEFINE new == samples[s] \cup {[ts |-> now, n |-> count[s]]}
  <2>1. samples' = [samples EXCEPT ![s] = new]
    BY <1>4 DEF record_heartbeat
  <2>2. count[s] \in Nat /\ Sampled(samples[s], now) /\ \A x \in samples[s] : x.ts # now
    BY <1>0, <1>4 DEF TotalsTypes, SamplesTaken, record_heartbeat
  <2>3. Newest(new) = count[s]
    BY <1>0, <2>2, HeartbeatNewest
  <2>4. s \in DOMAIN samples
    BY <1>0 DEF SamplesTaken
  <2> HIDE DEF new
  <2> QED BY <2>1, <2>3, <2>4 DEF Sample
<1> QED BY <1>1, <1>2, <1>3, <1>4

(* What the control plane accepted stays in the newest sample until it is  *)
(* folded.                                                                 *)
LEMMA AcknowledgedStep ==
    ASSUME TotalsInv, TotalsNext
    PROVE  Acknowledged'
<1>0. TotalsTypes /\ SlotShape /\ Acknowledged /\ \A t \in Slots : Sample(t) \in Nat
  BY TotalsSums DEF TotalsInv
<1>1. CASE TimePasses \/ stop_loads
  <2>1. UNCHANGED <<samples, lease, acked, trail>>
    BY <1>1 DEF TimePasses, stop_loads
  <2> QED BY <1>0, <2>1, SampleSteps DEF Acknowledged, Live
<1>2. CASE roll_up
  BY <1>0, <1>2, SampleSteps DEF roll_up, Acknowledged, Live
<1>3. CASE _prune
  <2>1. trail.dropped \subseteq trail'.dropped /\ UNCHANGED <<lease, acked>>
    BY <1>0, <1>3 DEF _prune, TotalsTypes
  <2> QED BY <1>0, <1>3, <2>1, SampleSteps DEF Acknowledged, Live
<1>4. CASE stop_run
  <2>1. /\ UNCHANGED <<samples, acked>> /\ trail'.dropped = trail.dropped
        /\ \A t \in Slots : Live(t)' => Live(t)
    BY <1>0, <1>4 DEF stop_run, TotalsTypes, Live, Finalised
  <2> QED BY <1>0, <2>1, SampleSteps DEF Acknowledged
<1>5. ASSUME NEW s \in Slots, SlotStep(s) PROVE Acknowledged'
  <2>1. CASE deliver(s) \/ final_loads(s)
    <3>1. UNCHANGED <<samples, lease, acked, trail>>
      BY <2>1 DEF deliver, final_loads
    <3> QED BY <1>0, <3>1, SampleSteps DEF Acknowledged, Live
  <2>2. CASE record_heartbeat(s)
    <3>1. /\ UNCHANGED <<lease, trail>>
          /\ acked' = IF lease[s] = "done" THEN acked ELSE [acked EXCEPT ![s] = count[s]]
      BY <2>2 DEF record_heartbeat
    <3>2. /\ Sample(s)' = count[s] /\ count[s] \in Nat
          /\ \A t \in Slots \ {s} : Sample(t)' = Sample(t)
      BY <1>0, <2>2, SampleSteps DEF TotalsTypes
    <3> QED BY <1>0, <3>1, <3>2 DEF Acknowledged, Live, TotalsTypes
  <2>3. CASE lapse(s)
    <3>1. UNCHANGED <<samples, acked, trail>> /\ \A t \in Slots : Live(t)' => Live(t)
      BY <1>0, <2>3 DEF lapse, Live, TotalsTypes
    <3> QED BY <1>0, <3>1, SampleSteps DEF Acknowledged
  <2>4. CASE claim(s) \/ scale_down(s)
    <3>1. /\ UNCHANGED samples /\ trail.dropped \subseteq trail'.dropped
          /\ acked' = [acked EXCEPT ![s] = 0]
          /\ \A t \in Slots \ {s} : lease'[t] = lease[t]
      BY <1>0, <2>4 DEF claim, scale_down, TotalsTypes
    <3>2. acked'[s] = 0 /\ \A t \in Slots \ {s} : acked'[t] = acked[t]
      BY <1>0, <3>1 DEF TotalsTypes
    <3>3. \A t \in Slots : Sample(t)' = Sample(t)
      BY <3>1, SampleSteps
    <3> QED BY <1>0, <3>1, <3>2, <3>3 DEF Acknowledged, Live
  <2>5. CASE record_final(s)
    <3>1. /\ UNCHANGED samples /\ trail'.dropped = trail.dropped
          /\ \A t \in Slots \ {s} : lease'[t] = lease[t] /\ acked'[t] = acked[t]
          /\ UNCHANGED <<lease, acked>> \/ lease'[s] = "done"
      BY <1>0, <2>5 DEF record_final, TotalsTypes
    <3>2. \A t \in Slots : Sample(t)' = Sample(t)
      BY <3>1, SampleSteps
    <3> QED BY <1>0, <3>1, <3>2 DEF Acknowledged, Live
  <2>6. CASE scale_up(s)
    <3>1. /\ UNCHANGED <<samples, acked>> /\ trail'.dropped = trail.dropped
          /\ s \in trail.dropped /\ \A t \in Slots \ {s} : lease'[t] = lease[t]
      BY <1>0, <2>6 DEF scale_up, TotalsTypes, SlotShape
    <3>2. \A t \in Slots : Sample(t)' = Sample(t)
      BY <3>1, SampleSteps
    <3> QED BY <1>0, <3>1, <3>2 DEF Acknowledged, Live
  <2> QED BY <1>5, <2>1, <2>2, <2>3, <2>4, <2>5, <2>6 DEF SlotStep
<1> QED BY <1>1, <1>2, <1>3, <1>4, <1>5 DEF TotalsNext, SlotStep

-----------------------------------------------------------------------------
(* Totals.                                                                 *)

(* The steps that commit no total.                                         *)
LEMMA QuietTotals ==
    ASSUME TotalsInv, TotalsNext, ~stop_run, \A s \in Slots : ~record_final(s)
    PROVE  /\ ~trail'.refolded => Capped'
           /\ ~trail'.overlap => totals' >= Foldings'
<1>0. /\ TotalsTypes /\ SamplesTaken /\ SlotShape
      /\ \A t \in Slots : Sample(t) \in Nat /\ count[t] \in Nat /\ before[t] \in Nat
      /\ \A t \in Slots : acked[t] \in Nat
  BY TotalsSums DEF TotalsInv, TotalsTypes
<1>1. TotalsTypes' /\ SamplesTaken'
  BY TotalsTypesStep, SamplesStep
<1>2. ASSUME NEW s \in Slots, SlotStep(s), ~record_final(s)
      PROVE  /\ UNCHANGED totals
             /\ trail.refolded => trail'.refolded
             /\ trail.overlap => trail'.overlap
             /\ ~trail'.refolded => \A t \in Slots : Ceiling(t) <= Ceiling(t)'
             /\ \A t \in Slots : Folded(t)' <= Folded(t)
             /\ \A t \in Slots : final'[t].pc = "open" =>
                  \/ final[t].pc = "open" /\ final'[t].base = final[t].base
                  \/ final'[t].base = totals
             /\ UNCHANGED stop
  <2>1. CASE deliver(s)
    <3>1. /\ UNCHANGED <<samples, lease, before, acked, trail, totals, final, stop>>
          /\ count' = [count EXCEPT ![s] = @ + 1]
      BY <2>1 DEF deliver
    <3>2. \A t \in Slots : count'[t] \in Nat /\ count'[t] >= count[t]
      BY <1>0, <3>1 DEF TotalsTypes
    <3>3. \A t \in Slots : Sample(t)' = Sample(t)
      BY <3>1, SampleSteps
    <3>4. \A t \in Slots : Ceiling(t) <= Ceiling(t)'
      BY <1>0, <3>1, <3>2, <3>3 DEF Ceiling, Live
    <3>5. \A t \in Slots : Folded(t)' <= Folded(t)
      BY <1>0, <3>1 DEF Folded
    <3> QED BY <3>1, <3>4, <3>5
  <2>2. CASE record_heartbeat(s)
    <3>1. /\ UNCHANGED <<lease, count, before, trail, totals, final, stop>>
          /\ acked' = IF lease[s] = "done" THEN acked ELSE [acked EXCEPT ![s] = count[s]]
      BY <2>2 DEF record_heartbeat
    <3>2. Sample(s)' = count[s] /\ \A t \in Slots \ {s} : Sample(t)' = Sample(t)
      BY <2>2, SampleSteps
    <3>3. \A t \in Slots : Ceiling(t) <= Ceiling(t)'
      BY <1>0, <3>1, <3>2 DEF Ceiling, Live
    <3>4. \A t \in Slots : Folded(t)' <= Folded(t)
      BY <1>0, <3>1 DEF Folded, TotalsTypes
    <3> QED BY <3>1, <3>3, <3>4
  <2>3. CASE lapse(s)
    <3>1. /\ UNCHANGED <<samples, count, before, acked, trail, totals, final, stop>>
          /\ \A t \in Slots : Live(t)' = Live(t) /\ (lease'[t] = "done" => lease[t] = "done")
      BY <1>0, <2>3 DEF lapse, Live, TotalsTypes
    <3>3. \A t \in Slots : Sample(t)' = Sample(t)
      BY <3>1, SampleSteps
    <3>4. \A t \in Slots : Ceiling(t) <= Ceiling(t)'
      BY <1>0, <3>1, <3>3 DEF Ceiling
    <3>5. \A t \in Slots : Folded(t)' <= Folded(t)
      BY <1>0, <3>1 DEF Folded
    <3> QED BY <3>1, <3>4, <3>5
  <2>4. CASE claim(s) \/ scale_down(s)
    <3>1. /\ UNCHANGED <<samples, totals, stop>> /\ trail.dropped \subseteq trail'.dropped
          /\ trail'.refolded = trail.refolded /\ trail'.overlap = trail.overlap
          /\ acked' = [acked EXCEPT ![s] = 0] /\ count' = [count EXCEPT ![s] = 0]
          /\ before' = [before EXCEPT ![s] = @ + count[s]]
          /\ final' = [final EXCEPT ![s] = NoRequest]
          /\ lease'[s] \in {"held", "none"} /\ (lease'[s] = "held" => Live(s))
          /\ \A t \in Slots \ {s} : lease'[t] = lease[t]
      BY <1>0, <2>4 DEF claim, scale_down, TotalsTypes, Live
    <3>2. /\ count'[s] = 0 /\ before'[s] = before[s] + count[s] /\ final'[s].pc = "idle"
          /\ \A t \in Slots \ {s} : /\ count'[t] = count[t] /\ before'[t] = before[t]
                                    /\ acked'[t] = acked[t] /\ final'[t] = final[t]
      BY <1>0, <3>1 DEF TotalsTypes, NoRequest
    <3>3. \A t \in Slots : Sample(t)' = Sample(t)
      BY <3>1, SampleSteps
    <3>4. \A t \in Slots \ {s} : Ceiling(t) <= Ceiling(t)' /\ Folded(t)' <= Folded(t)
      <4> SUFFICES ASSUME NEW t \in Slots \ {s}
                   PROVE  Ceiling(t) <= Ceiling(t)' /\ Folded(t)' <= Folded(t)
        OBVIOUS
      <4>1. Ceiling(t)' = Ceiling(t) /\ Ceiling(t) \in Int
        BY <1>0, <3>1, <3>2, <3>3 DEF Ceiling, Live
      <4>2. Folded(t)' <= Folded(t)
        BY <1>0, <3>1, <3>2 DEF Folded
      <4> QED BY <4>1, <4>2
    <3>5. Ceiling(s) <= Ceiling(s)' /\ Folded(s)' <= Folded(s)
      <4>1. Folded(s)' = 0 /\ Folded(s) \in Nat
        BY <1>0, <3>1 DEF Folded
      <4>2. Ceiling(s) <= Ceiling(s)'
        BY <1>0, <3>1, <3>2, <3>3 DEF Ceiling, Live
      <4> QED BY <4>1, <4>2
    <3> QED BY <3>1, <3>2, <3>4, <3>5
  <2>5. CASE final_loads(s)
    <3>1. /\ UNCHANGED <<samples, lease, count, before, acked, trail, totals, stop>>
          /\ final' = [final EXCEPT ![s] = [pc |-> "open", base |-> totals]]
      BY <2>5 DEF final_loads
    <3>2. \A t \in Slots : Sample(t)' = Sample(t)
      BY <3>1, SampleSteps
    <3>3. \A t \in Slots : Ceiling(t) <= Ceiling(t)' /\ Folded(t)' <= Folded(t)
      BY <1>0, <3>1, <3>2 DEF Ceiling, Folded, Live
    <3>4. final'[s].base = totals /\ \A t \in Slots \ {s} : final'[t] = final[t]
      BY <1>0, <3>1 DEF TotalsTypes
    <3> QED BY <3>1, <3>3, <3>4
  <2>6. CASE scale_up(s)
    <3>1. /\ UNCHANGED <<samples, count, before, acked, totals, final, stop>>
          /\ trail'.dropped = trail.dropped /\ trail'.overlap = trail.overlap
          /\ trail'.refolded = (trail.refolded \/ Sample(s) > 0)
          /\ lease[s] = "none" /\ lease'[s] = "free" /\ count[s] = 0
          /\ \A t \in Slots \ {s} : lease'[t] = lease[t]
      BY <1>0, <2>6 DEF scale_up, TotalsTypes, SlotShape, Sample
    <3>2. \A t \in Slots : Sample(t)' = Sample(t)
      BY <3>1, SampleSteps
    <3>3. ASSUME ~trail'.refolded, NEW t \in Slots PROVE Ceiling(t) <= Ceiling(t)'
      <4>0. Sample(s) > 0 => trail'.refolded
        BY <3>1
      <4>1. Sample(s) = 0
        BY <1>0, <3>3, <4>0
      <4> QED BY <1>0, <3>1, <3>2, <4>1 DEF Ceiling, Live
    <3>4. \A t \in Slots : Folded(t)' <= Folded(t)
      BY <1>0, <3>1 DEF Folded
    <3> QED BY <3>1, <3>3, <3>4
  <2> QED BY <1>2, <2>1, <2>2, <2>3, <2>4, <2>5, <2>6 DEF SlotStep
<1>3. ASSUME TimePasses \/ roll_up \/ _prune \/ stop_loads
      PROVE  /\ UNCHANGED <<totals, final>>
             /\ trail'.refolded = trail.refolded /\ trail'.overlap = trail.overlap
             /\ \A t \in Slots : Ceiling(t) <= Ceiling(t)' /\ Folded(t)' <= Folded(t)
             /\ UNCHANGED stop \/ stop'.base = totals
  <2>1. /\ UNCHANGED <<lease, count, before, acked, totals, final>>
        /\ trail'.refolded = trail.refolded /\ trail'.overlap = trail.overlap
        /\ trail.dropped \subseteq trail'.dropped
        /\ UNCHANGED stop \/ stop'.base = totals
    BY <1>0, <1>3 DEF TimePasses, roll_up, _prune, stop_loads, TotalsTypes
  <2>2. \A t \in Slots : Sample(t)' <= Sample(t) /\ Sample(t)' \in Nat
    <3>1. \A t \in Slots : Sample(t)' <= Sample(t)
      BY <1>0, <1>3, SampleSteps DEF TimePasses, stop_loads
    <3>2. \A t \in Slots : Sample(t)' \in Nat
      BY <1>1, NewestType DEF TotalsTypes, SamplesTaken, Sample
    <3> QED BY <3>1, <3>2
  <2>3. \A t \in Slots : Ceiling(t) <= Ceiling(t)'
    BY <1>0, <2>1, <2>2 DEF Ceiling, Live
  <2>4. \A t \in Slots : Folded(t)' <= Folded(t)
    BY <1>0, <2>1 DEF Folded
  <2> QED BY <2>1, <2>3, <2>4
<1>4. CASE \E s \in Slots : SlotStep(s)
  <2>1. PICK s \in Slots : SlotStep(s)
    BY <1>4
  <2> QED BY <1>1, <1>2, <2>1, NoCommit
<1>5. CASE TimePasses \/ roll_up \/ _prune \/ stop_loads
  BY <1>1, <1>3, <1>5, NoCommit
<1> QED BY <1>4, <1>5 DEF TotalsNext, SlotStep

(* A commit: what it adds raises the ceilings by as much, the folds ask    *)
(* for at most that, and the total it started from was some total.         *)
LEMMA CommitTotals ==
    ASSUME TotalsInv, TotalsTypes', SamplesTaken',
           trail.refolded => trail'.refolded, trail.overlap => trail'.overlap,
           NEW base \in Nat, ~trail.refolded => base <= Ceilings,
           base # totals => trail'.overlap,
           NEW g \in [Slots -> Int], \A s \in Slots : g[s] >= 0,
           totals' = base + SumFunction(g),
           ~trail'.refolded => \A s \in Slots : Ceiling(s) + g[s] <= Ceiling(s)',
           \A s \in Slots : Folded(s)' <= Folded(s) + g[s],
           \A s \in Slots : final'[s].pc = "open" => final'[s] = final[s],
           stop'.pc = "open" => stop' = stop
    PROVE  /\ ~trail'.refolded => Capped'
           /\ ~trail'.overlap => totals' >= Foldings'
<1>1. TotalsTypes /\ SamplesTaken
  BY DEF TotalsInv
<1>2. SumFunction(g) \in Nat
  <2>1. g \in [Slots -> Nat]
    OBVIOUS
  <2> QED BY <2>1, TotalsAssumption, SumFunctionType
<1>3. Ceilings \in Int /\ Foldings \in Nat /\ Ceilings' \in Int /\ Foldings' \in Nat
  BY <1>1, TotalsSums, SumsNumbers
<1>4. ASSUME ~trail'.refolded PROVE Capped'
  <2>1. Ceilings + SumFunction(g) <= Ceilings'
    BY <1>1, <1>4, CeilingsRise
  <2>2. Capped /\ base <= Ceilings
    BY <1>4 DEF TotalsInv
  <2>3. stop.base \in Nat /\ \A s \in Slots : final[s].base \in Nat
    BY <1>1 DEF TotalsTypes
  <2>4. totals' <= Ceilings'
    BY <1>2, <1>3, <2>1, <2>2
  <2>5. ASSUME NEW s \in Slots, final'[s].pc = "open" PROVE final'[s].base <= Ceilings'
    BY <1>2, <1>3, <2>1, <2>2, <2>3, <2>5 DEF Capped
  <2>6. stop'.pc = "open" => stop'.base <= Ceilings'
    BY <1>2, <1>3, <2>1, <2>2, <2>3 DEF Capped
  <2> QED BY <2>4, <2>5, <2>6 DEF Capped
<1>5. ASSUME ~trail'.overlap PROVE totals' >= Foldings'
  <2>1. Foldings' <= Foldings + SumFunction(g)
    BY <1>1, FoldingsRise
  <2>2. base = totals /\ totals >= Foldings
    BY <1>5 DEF TotalsInv
  <2> QED BY <1>2, <1>3, <2>1, <2>2
<1> QED BY <1>4, <1>5

(* A final report.                                                         *)
LEMMA FinalTotals ==
    ASSUME TotalsInv, TotalsNext, NEW s \in Slots, record_final(s)
    PROVE  /\ ~trail'.refolded => Capped'
           /\ ~trail'.overlap => totals' >= Foldings'
<1>0. /\ TotalsTypes /\ SamplesTaken /\ SlotShape
      /\ \A t \in Slots : Sample(t) \in Nat /\ count[t] \in Nat /\ before[t] \in Nat
      /\ \A t \in Slots : acked[t] \in Nat /\ Ceiling(t) \in Int /\ Folded(t) \in Nat
  BY TotalsSums DEF TotalsInv, TotalsTypes
<1>1. TotalsTypes' /\ SamplesTaken'
  BY TotalsTypesStep, SamplesStep
<1>2. /\ UNCHANGED <<count, before, samples, stop>> /\ final[s].pc = "open"
      /\ final'[s].pc = "idle" /\ \A t \in Slots \ {s} : final'[t] = final[t]
  BY <1>0 DEF record_final, TotalsTypes, NoRequest
<1>3. \A t \in Slots : Sample(t)' = Sample(t)
  BY <1>2, SampleSteps
<1>4. CASE lease[s] \notin {"held", "lost"}
  <2>1. UNCHANGED <<totals, lease, acked, trail>>
    BY <1>4 DEF record_final
  <2>2. \A t \in Slots : Ceiling(t) <= Ceiling(t)' /\ Folded(t)' <= Folded(t)
    BY <1>0, <1>2, <1>3, <2>1 DEF Ceiling, Folded, Live
  <2> QED BY <1>1, <1>2, <2>1, <2>2, NoCommit
<1>5. CASE lease[s] \in {"held", "lost"}
  <2> DEFINE base == final[s].base
             g == [t \in Slots |-> IF t = s THEN count[s] ELSE 0]
             none == [t \in Slots |-> 0]
  <2>1. /\ totals' = base + count[s]
        /\ lease' = [lease EXCEPT ![s] = "done"]
        /\ acked' = [acked EXCEPT ![s] = count[s]]
        /\ trail' = [trail EXCEPT !.overlap = @ \/ base # totals]
    BY <1>5 DEF record_final, fold_totals
  <2>2. /\ trail'.refolded = trail.refolded /\ trail'.dropped = trail.dropped
        /\ trail.overlap => trail'.overlap
        /\ base # totals => trail'.overlap
    BY <1>0, <2>1 DEF TotalsTypes
  <2>3. /\ lease'[s] = "done" /\ acked'[s] = count[s]
        /\ \A t \in Slots \ {s} : lease'[t] = lease[t] /\ acked'[t] = acked[t]
    BY <1>0, <2>1 DEF TotalsTypes
  <2>4. /\ g \in [Slots -> Int] /\ none \in [Slots -> Int] /\ g[s] = count[s]
        /\ \A t \in Slots : g[t] >= 0 /\ none[t] = 0
        /\ \A t \in Slots \ {s} : g[t] = none[t]
    BY <1>0
  <2>5. base \in Nat
    BY <1>0 DEF TotalsTypes
  <2>6. ~trail.refolded => base <= Ceilings
    BY <1>2 DEF TotalsInv, Capped
  <2> HIDE DEF g, none, base
  <2>7. SumFunction(none) = 0 /\ SumFunction(g) = SumFunction(none) - none[s] + g[s]
    BY <2>4, TotalsAssumption, SumZero, SumUpdate
  <2>8. totals' = base + SumFunction(g)
    BY <1>0, <2>1, <2>4, <2>7
  <2>9. \A t \in Slots : Ceiling(t) + g[t] <= Ceiling(t)'
    <3>1. Ceiling(s) <= before[s] /\ Ceiling(s)' = before[s] + count[s]
      BY <1>0, <1>2, <1>5, <2>3 DEF Ceiling, Live
    <3>2. \A t \in Slots \ {s} : Ceiling(t)' = Ceiling(t)
      BY <1>2, <1>3, <2>3 DEF Ceiling, Live
    <3> QED BY <1>0, <2>4, <3>1, <3>2
  <2>10. \A t \in Slots : Folded(t)' <= Folded(t) + g[t]
    <3>1. Folded(s)' <= count[s]
      BY <1>0, <2>3 DEF Folded
    <3>2. \A t \in Slots \ {s} : Folded(t)' = Folded(t)
      BY <2>2, <2>3 DEF Folded
    <3>3. Folded(s)' \in Nat
      BY <1>0, <2>3 DEF Folded
    <3> QED BY <1>0, <2>4, <3>1, <3>2, <3>3
  <2>11. \A t \in Slots : final'[t].pc = "open" => final'[t] = final[t]
    BY <1>2
  <2> QED BY <1>1, <1>2, <2>2, <2>4, <2>5, <2>6, <2>8, <2>9, <2>10, <2>11, CommitTotals
<1> QED BY <1>4, <1>5

(* A forced stop.                                                          *)
LEMMA StopTotals ==
    ASSUME TotalsInv, TotalsNext, stop_run
    PROVE  /\ ~trail'.refolded => Capped'
           /\ ~trail'.overlap => totals' >= Foldings'
<1>0. /\ TotalsTypes /\ SamplesTaken /\ SlotShape /\ Acknowledged
      /\ \A t \in Slots : Sample(t) \in Nat /\ count[t] \in Nat /\ before[t] \in Nat
      /\ \A t \in Slots : /\ acked[t] \in Nat /\ Ceiling(t) \in Int /\ Folded(t) \in Nat
                          /\ LiveSample(t) \in Nat
  BY TotalsSums DEF TotalsInv, TotalsTypes
<1>1. TotalsTypes' /\ SamplesTaken'
  BY TotalsTypesStep, SamplesStep
<1> DEFINE base == stop.base
           g == [t \in Slots |-> LiveSample(t)]
<1>2. /\ UNCHANGED <<count, before, samples, final, acked>>
      /\ stop.pc = "open" /\ stop'.pc = "done"
  BY DEF stop_run
<1>3. totals' = base + SumFunction(g)
  <2>1. totals' = base + Loadings
    BY <1>0, TotalsSums DEF stop_run, _fold_heartbeat_totals
  <2> QED BY <2>1 DEF Loadings
<1>4. /\ trail'.dropped = trail.dropped
      /\ trail.overlap => trail'.overlap
      /\ base # totals => trail'.overlap
      /\ trail.refolded => trail'.refolded
      /\ Refolded # {} => trail'.refolded
  BY <1>0 DEF stop_run, TotalsTypes
<1>5. \A t \in Slots :
        /\ lease[t] = "held" => lease'[t] = "done"
        /\ lease[t] = "free" => lease'[t] = "vacant"
        /\ lease[t] \notin {"held", "free"} => lease'[t] = lease[t]
        /\ lease[t] # "vacant"
  BY <1>0, <1>2 DEF stop_run, Finalised, SlotShape
<1>6. \A t \in Slots : Sample(t)' = Sample(t)
  BY <1>2, SampleSteps
<1>7. g \in [Slots -> Int] /\ \A t \in Slots : g[t] >= 0 /\ g[t] = LiveSample(t)
  BY <1>0
<1>8. base \in Nat /\ (~trail.refolded => base <= Ceilings)
  BY <1>0, <1>2 DEF TotalsTypes, TotalsInv, Capped
<1> HIDE DEF base, g
<1>9. ASSUME ~trail'.refolded, NEW t \in Slots PROVE Ceiling(t) + g[t] <= Ceiling(t)'
  <2>1. lease[t] \in {"free", "lost"} => Sample(t) = 0
    BY <1>0, <1>4, <1>9 DEF Refolded, Sample
  <2>2. CASE lease[t] = "held"
    BY <1>0, <1>2, <1>5, <1>7, <2>2 DEF Ceiling, Live, LiveSample
  <2>3. CASE lease[t] \in {"free", "lost"}
    BY <1>0, <1>2, <1>5, <1>6, <1>7, <2>1, <2>3 DEF Ceiling, Live, LiveSample
  <2>4. CASE lease[t] \in {"none", "done"}
    BY <1>0, <1>2, <1>5, <1>7, <2>4 DEF Ceiling, Live, LiveSample
  <2> QED BY <1>0, <1>5, <2>2, <2>3, <2>4 DEF TotalsTypes
<1>10. ASSUME NEW t \in Slots PROVE Folded(t)' <= Folded(t) + g[t]
  <2>1. CASE lease[t] = "held" /\ t \notin trail.dropped
    <3>1. Folded(t)' = acked[t] /\ acked[t] <= Sample(t) /\ g[t] = Sample(t)
      BY <1>0, <1>2, <1>4, <1>5, <1>7, <2>1 DEF Folded, Acknowledged, Live, LiveSample
    <3> QED BY <1>0, <3>1
  <2>2. CASE ~(lease[t] = "held" /\ t \notin trail.dropped)
    <3>1. Folded(t)' = Folded(t)
      BY <1>2, <1>4, <1>5, <2>2 DEF Folded
    <3> QED BY <1>0, <1>7, <3>1
  <2> QED BY <2>1, <2>2
<1> QED BY <1>1, <1>2, <1>3, <1>4, <1>7, <1>8, <1>9, <1>10, CommitTotals

-----------------------------------------------------------------------------
(* The theorems.                                                           *)

(* A run starts with nothing counted.                                      *)
LEMMA TotalsInitInv == TotalsInit => TotalsInv
<1> SUFFICES ASSUME TotalsInit PROVE TotalsInv
  OBVIOUS
<1>1. TotalsTypes
  BY DEF TotalsInit, TotalsTypes, NoRequest
<1>2. SamplesTaken
  BY DEF TotalsInit, SamplesTaken, Sampled
<1>3. SlotShape
  BY DEF TotalsInit, SlotShape
<1>4. \A s \in Slots : Sample(s) = 0
  BY DEF TotalsInit, Sample, Newest
<1>5. Acknowledged
  BY <1>4 DEF TotalsInit, Acknowledged
<1>6. \A s \in Slots : Ceiling(s) = 0 /\ Folded(s) = 0
  BY <1>4 DEF TotalsInit, Ceiling, Folded, Live
<1>7. Ceilings = 0 /\ Foldings = 0
  <2> DEFINE f == [s \in Slots |-> Ceiling(s)]
             g == [s \in Slots |-> Folded(s)]
  <2>1. f \in [Slots -> Int] /\ g \in [Slots -> Int] /\ \A s \in Slots : f[s] = 0 /\ g[s] = 0
    BY <1>6
  <2>2. Ceilings = SumFunction(f) /\ Foldings = SumFunction(g)
    BY DEF Ceilings, Foldings
  <2> HIDE DEF f, g
  <2> QED BY <2>1, <2>2, TotalsAssumption, SumZero
<1>8. Capped /\ totals >= Foldings
  BY <1>7 DEF TotalsInit, Capped, NoRequest
<1> QED BY <1>1, <1>2, <1>3, <1>5, <1>8 DEF TotalsInv

(* Every step keeps the invariant.                                         *)
LEMMA TotalsStepInv == TotalsInv /\ [TotalsNext]_TotalsVars => TotalsInv'
<1>1. ASSUME TotalsInv, TotalsNext PROVE TotalsInv'
  <2>1. (~trail'.refolded => Capped') /\ (~trail'.overlap => totals' >= Foldings')
    BY <1>1, QuietTotals, FinalTotals, StopTotals
  <2> QED BY <1>1, <2>1, TotalsTypesStep, SamplesStep, SlotShapeStep, AcknowledgedStep
          DEF TotalsInv
<1>2. ASSUME TotalsInv, UNCHANGED TotalsVars PROVE TotalsInv'
  <2>1. UNCHANGED <<now, lease, count, before, samples, totals, final, stop, acked, trail>>
    BY <1>2 DEF TotalsVars
  <2>2. \A s \in Slots : Sample(s)' = Sample(s)
    BY <2>1 DEF Sample
  <2>3. TotalsTypes' /\ SamplesTaken' /\ SlotShape' /\ Acknowledged'
    BY <1>2, <2>1, <2>2 DEF TotalsInv, TotalsTypes, SamplesTaken, SlotShape, Acknowledged, Live
  <2>4. Ceilings' = Ceilings /\ Foldings' = Foldings
    BY <2>1, <2>2 DEF Ceilings, Foldings, Ceiling, Folded, Live
  <2> QED BY <1>2, <2>1, <2>3, <2>4 DEF TotalsInv, Capped
<1> QED BY <1>1, <1>2

(* The invariant of the totals.                                            *)
THEOREM TotalsInvariant == TotalsSpec => []TotalsInv
BY TotalsInitInv, TotalsStepInv, PTL DEF TotalsSpec

(* "Nothing is counted twice": however finals, heartbeats, lapses,         *)
(* takeovers and a forced stop interleave, with handlers committing totals *)
(* they loaded before others, a run never shows more events than its       *)
(* workers had accepted (record_final, stop_run, live_totals).             *)
THEOREM CountedOnce == TotalsSpec => []NothingCountedTwice
<1>1. TotalsInv => NothingCountedTwice
  <2> SUFFICES ASSUME TotalsInv, ~trail.refolded PROVE Shown <= Sent
    BY DEF NothingCountedTwice
  <2>1. /\ TotalsTypes /\ SamplesTaken /\ totals <= Ceilings /\ totals \in Nat
    BY DEF TotalsInv, TotalsTypes, Capped
  <2>2. Shown = totals + Loadings /\ Loadings \in Nat /\ Ceilings \in Int
    BY <2>1, TotalsSums DEF Shown
  <2> DEFINE f == [s \in Slots |-> Ceiling(s)]
             g == [s \in Slots |-> LiveSample(s)]
             h == [s \in Slots |-> Ceiling(s) + LiveSample(s)]
             k == [s \in Slots |-> before[s] + count[s]]
  <2>3. \A s \in Slots : /\ Ceiling(s) \in Int /\ LiveSample(s) \in Int
                         /\ before[s] \in Nat /\ count[s] \in Nat /\ Sample(s) \in Nat
    BY <2>1, TotalsSums DEF TotalsTypes
  <2>4. \A s \in Slots : Ceiling(s) + LiveSample(s) <= before[s] + count[s]
    BY <2>3 DEF Ceiling, LiveSample, Live
  <2>5. /\ f \in [Slots -> Int] /\ g \in [Slots -> Int] /\ h \in [Slots -> Int]
        /\ k \in [Slots -> Int]
        /\ \A s \in Slots : h[s] = f[s] + g[s] /\ h[s] <= k[s]
    BY <2>3, <2>4
  <2>6. Ceilings = SumFunction(f) /\ Loadings = SumFunction(g) /\ Sent = SumFunction(k)
    BY DEF Ceilings, Loadings, Sent
  <2> HIDE DEF f, g, h, k
  <2>7. SumFunction(h) = SumFunction(f) + SumFunction(g)
    BY <2>5, TotalsAssumption, SumPlus
  <2>8. SumFunction(h) <= SumFunction(k)
    BY <2>5, TotalsAssumption, SumLeq
  <2>9. SumFunction(k) \in Int
    BY <2>5, TotalsAssumption, SumFunctionType
  <2> QED BY <2>1, <2>2, <2>6, <2>7, <2>8, <2>9
<1> QED BY <1>1, TotalsInvariant, PTL

(* What the control plane accepted from the worker that holds a slot stays *)
(* in the total, and rolling samples up changes no total that is shown     *)
(* (record_heartbeat, record_final, stop_run, _roll_up).                   *)
THEOREM TotalsNeverForget == TotalsSpec => TotalsKept
<1>1. TotalsInv => NothingForgotten
  <2> SUFFICES ASSUME TotalsInv, ~trail.overlap
               PROVE  Shown >= SumFunction([s \in Slots \ trail.dropped |-> acked[s]])
    BY DEF NothingForgotten
  <2>1. /\ TotalsTypes /\ SamplesTaken /\ SlotShape /\ Acknowledged
        /\ totals >= Foldings /\ totals \in Nat
    BY DEF TotalsInv, TotalsTypes
  <2>2. Shown = totals + Loadings /\ Loadings \in Nat /\ Foldings \in Nat
    BY <2>1, TotalsSums DEF Shown
  <2> DEFINE R == Slots \ trail.dropped
             a == [s \in R |-> acked[s]]
             b == [s \in Slots |-> IF s \in R THEN acked[s] ELSE 0]
             f == [s \in Slots |-> Folded(s)]
             g == [s \in Slots |-> LiveSample(s)]
             h == [s \in Slots |-> Folded(s) + LiveSample(s)]
  <2>3. \A s \in Slots : /\ Folded(s) \in Nat /\ LiveSample(s) \in Nat
                         /\ acked[s] \in Nat /\ Sample(s) \in Nat
    BY <2>1, TotalsSums DEF TotalsTypes
  <2>4. ASSUME NEW s \in Slots PROVE b[s] <= Folded(s) + LiveSample(s)
    BY <2>1, <2>3 DEF Folded, LiveSample, Live, SlotShape, Acknowledged
  <2>5. /\ f \in [Slots -> Int] /\ g \in [Slots -> Int] /\ h \in [Slots -> Int]
        /\ a \in [R -> Int] /\ b \in [Slots -> Int] /\ R \subseteq Slots
        /\ \A s \in Slots : h[s] = f[s] + g[s] /\ b[s] = IF s \in R THEN a[s] ELSE 0
    BY <2>3
  <2>6. \A s \in Slots : b[s] <= h[s]
    BY <2>4
  <2>7. Foldings = SumFunction(f) /\ Loadings = SumFunction(g)
    BY DEF Foldings, Loadings
  <2> HIDE DEF a, b, f, g, h, R
  <2>8. SumFunction(h) = SumFunction(f) + SumFunction(g)
    BY <2>5, TotalsAssumption, SumPlus
  <2>9. SumFunction(b) <= SumFunction(h)
    BY <2>5, <2>6, TotalsAssumption, SumLeq
  <2>10. SumFunction(a) = SumFunction(b)
    BY <2>5, TotalsAssumption, SumPad
  <2>11. SumFunction(b) \in Int
    BY <2>5, TotalsAssumption, SumFunctionType
  <2>12. Shown >= SumFunction(a)
    BY <2>1, <2>2, <2>7, <2>8, <2>9, <2>10, <2>11
  <2> QED BY <2>12 DEF a, R
<1>2. TotalsInv /\ TotalsInv' /\ [TotalsNext]_TotalsVars =>
        [roll_up => Shown' = Shown]_TotalsVars
  <2> SUFFICES ASSUME TotalsInv, TotalsInv', TotalsNext, roll_up PROVE Shown' = Shown
    OBVIOUS
  <2>1. \A t \in Slots : Sample(t)' = Sample(t)
    BY SampleSteps
  <2>2. UNCHANGED <<lease, totals>>
    BY DEF roll_up
  <2> QED BY <2>1, <2>2 DEF Shown, live_totals, Sample
<1>3. TotalsSpec => []NothingForgotten
  BY <1>1, TotalsInvariant, PTL
<1>4. TotalsSpec => RollUpNeutral
  BY <1>2, TotalsInvariant, PTL DEF TotalsSpec, RollUpNeutral
<1> QED BY <1>3, <1>4, PTL DEF TotalsKept


(***************************************************************************)
(* The engines: the inductive invariant.                                   *)
(***************************************************************************)

Stages == {"off", "starting", "connecting", "connected", "up", "idle", "exit0", "exit1", "exit2"}
UnitRec == [pc : Stages, open : BOOLEAN, total : 1 .. MaxFleet, until : Int, tick : Int,
            first : Int, next : Nat, base : Nat \cup {NoTime}, offset : Nat, prev : Int,
            due : Nat \cup {NoTime}]
PointRec == [item : Nat, time : Int]

EngineTypes ==
    /\ job \in Jobs /\ wall \in Nat /\ fleet \in 1 .. MaxFleet
    /\ unit \in [FleetSlots -> UnitRec]
    /\ stream \in [FleetSlots -> Seq(PointRec)]

Shard(s, u) == {k \in 0 .. job.series - 1 : k % u.total = s}
OnGrid(t) == \E n \in Int : t = n * Step

(* Ticks and series in the order they are sent.                            *)
Earlier(p, t, k) == p.time < t \/ (p.time = t /\ p.item < k)

(* The shard of s tick by tick: what lies before the place u has come to   *)
(* has been sent, once and in order, and nothing else.                     *)
Aligned(u) == OnGrid(u.first) /\ OnGrid(u.tick) /\ u.first <= u.tick
OfShard(s, u, st) ==
    \A i \in 1 .. Len(st) : /\ st[i].item \in Shard(s, u)
                            /\ Earlier(st[i], u.tick, u.next)
InOrderSent(st) == \A i, j \in 1 .. Len(st) : i < j => Earlier(st[i], st[j].time, st[j].item)
Complete(s, u, st) ==
    \A k \in Shard(s, u) : \A t \in Int :
        OnGrid(t) /\ u.first <= t /\ (t < u.tick \/ (t = u.tick /\ k < u.next)) =>
            \E i \in 1 .. Len(st) : st[i].item = k /\ st[i].time = t
Swept(s, u, st) ==
    /\ Aligned(u) /\ OfShard(s, u, st) /\ InOrderSent(st) /\ Complete(s, u, st)
    /\ job.mode = "grid" => \A i \in 1 .. Len(st) : st[i].time <= wall
    /\ u.pc = "up" => \E k \in Shard(s, u) : k >= u.next
    /\ u.pc = "idle" => Shard(s, u) = {}

Recording == _iter_lines(job.data)

(* A loop over the recording.                                              *)
Looped(u, st) ==
    LET n == Len(Recording) IN
    /\ \A i \in 1 .. Len(st) : st[i].item = ((i - 1) % n) + 1 /\ st[i].time = NoTime
    /\ Len(st) > 0 => n > 0
    /\ u.next = IF n = 0 THEN 0 ELSE Len(st) % n

(* The gap the recording has before line i, if it has one.                 *)
When(i) == parse_time(Recording[i])
Spaced(i, gap) ==
    When(i - 1) # NoTime /\ When(i) # NoTime /\ When(i - 1) <= When(i) =>
        gap = (When(i) - When(i - 1)) * Multiple

(* A recording played once.                                                *)
Told(st) ==
    /\ \A i \in 1 .. Len(st) : st[i].item = i /\ st[i].time <= wall
    /\ \A i \in 2 .. Len(st) : /\ st[i - 1].time <= st[i].time
                               /\ Spaced(i, st[i].time - st[i - 1].time)
Resting(u, st) ==
    u.base # NoTime /\ u.due = NoTime =>
        /\ u.next >= 1 /\ st[u.next].time = u.base + u.offset
        /\ When(u.next) # NoTime => u.prev = When(u.next)
Sleeping(u, st) ==
    u.due # NoTime =>
        /\ u.next < Len(Recording) /\ u.base # NoTime /\ u.base + u.offset <= u.due
        /\ When(u.next + 1) # NoTime => u.prev = When(u.next + 1)
        /\ u.next >= 1 => /\ st[u.next].time <= u.base + u.offset
                          /\ Spaced(u.next + 1, u.base + u.offset - st[u.next].time)
Played(u, st) ==
    /\ Len(st) = u.next /\ u.next <= Len(Recording)
    /\ Told(st) /\ Resting(u, st) /\ Sleeping(u, st)
    /\ u.base = NoTime => u.next = 0 /\ u.due = NoTime /\ u.offset = 0 /\ u.prev = NoTime
    /\ u.pc = "exit0" /\ u.open => Len(st) = Len(Recording)

(* A process that has not begun has sent nothing.                          *)
Blank(u, st) ==
    /\ st = <<>> /\ u.next = 0 /\ u.tick = 0 /\ u.first = 0
    /\ u.base = NoTime /\ u.due = NoTime /\ u.offset = 0 /\ u.prev = NoTime

EngineFits(s, u, st) ==
    /\ u.pc \in {"off", "starting", "connecting", "connected"} => Blank(u, st)
    /\ Metrics => Swept(s, u, st)
    /\ job.mode = "rate" => Looped(u, st)
    /\ job.mode = "cadence" => Played(u, st)

EngineInv == EngineTypes /\ \A s \in FleetSlots : EngineFits(s, unit[s], stream[s])

-----------------------------------------------------------------------------
(* The grid.                                                               *)

LEMMA StepPositive == Step \in Nat /\ Step > 0
BY GeneratorsAssumption DEF Step

LEMMA GridGap ==
    ASSUME NEW a \in Int, NEW b \in Int, NEW d \in Nat, d > 0, a * d < b * d
    PROVE  a * d + d <= b * d
<1>1. a < b
  <2>1. SUFFICES ASSUME b <= a PROVE b * d <= a * d
    OBVIOUS
  <2>2. a - b \in Nat
    BY <2>1
  <2>3. (a - b) * d >= 0
    BY <2>2
  <2> QED BY <2>3
<1>2. b - a - 1 \in Nat
  BY <1>1
<1>3. (b - a - 1) * d >= 0
  BY <1>2
<1> QED BY <1>3

LEMMA GridApart ==
    ASSUME NEW t, NEW u, OnGrid(t), OnGrid(u), t < u
    PROVE  t + Step <= u
<1>1. PICK a \in Int : t = a * Step
  BY DEF OnGrid
<1>2. PICK b \in Int : u = b * Step
  BY DEF OnGrid
<1>3. Step \in Nat /\ Step > 0
  BY StepPositive
<1> HIDE DEF Step
<1>4. a * Step + Step <= b * Step
  BY <1>1, <1>2, <1>3, GridGap
<1> QED BY <1>1, <1>2, <1>4

LEMMA GridNext ==
    ASSUME NEW t, OnGrid(t)
    PROVE  t \in Int /\ t + Step \in Int /\ OnGrid(t + Step)
<1>1. PICK a \in Int : t = a * Step
  BY DEF OnGrid
<1>2. Step \in Nat
  BY StepPositive
<1>3. t + Step = (a + 1) * Step /\ a + 1 \in Int /\ t \in Int
  BY <1>1, <1>2
<1> QED BY <1>2, <1>3 DEF OnGrid

LEMMA GridFloor ==
    ASSUME NEW x \in Nat
    PROVE  Floor(x, Step) \in Int /\ OnGrid(Floor(x, Step))
<1>1. Step \in Nat \ {0}
  BY StepPositive
<1>2. x \div Step \in Nat
  BY <1>1, Division
<1>3. PICK q \in Nat : q = x \div Step
  BY <1>2
<1>4. Floor(x, Step) = q * Step /\ q * Step \in Int
  BY <1>1, <1>3 DEF Floor
<1> QED BY <1>4 DEF OnGrid

LEMMA GridZero == OnGrid(0)
<1>1. Step \in Nat
  BY StepPositive
<1>2. 0 = 0 * Step
  BY <1>1
<1> QED BY <1>2 DEF OnGrid

-----------------------------------------------------------------------------
(* Reading a recording.                                                    *)

Picks(g, data, n) ==
    g = [i \in 0 .. n |->
           IF i = 0 THEN <<>>
           ELSE IF data[i].blank THEN g[i - 1] ELSE Append(g[i - 1], data[i])]

(* The recursion of _iter_lines has a solution.                            *)
LEMMA PicksExist ==
    ASSUME NEW data, NEW n \in Nat
    PROVE  \E g : Picks(g, data, n)
<1> DEFINE Bad == {m \in Nat : ~ \E g : Picks(g, data, m)}
<1>1. SUFFICES ASSUME Bad # {} PROVE FALSE
  OBVIOUS
<1>2. PICK m \in Bad : \A k \in Bad : m <= k
  BY <1>1, LeastNat
<1>3. m # 0
  <2> DEFINE g == [i \in 0 .. 0 |-> <<>>]
  <2>1. Picks(g, data, 0)
    BY DEF Picks
  <2> QED BY <2>1, <1>2
<1>4. m - 1 \in Nat /\ m - 1 \notin Bad
  BY <1>2, <1>3
<1>5. PICK h : Picks(h, data, m - 1)
  BY <1>4
<1> DEFINE g == [i \in 0 .. m |->
                   IF i = m
                   THEN IF data[m].blank THEN h[m - 1] ELSE Append(h[m - 1], data[m])
                   ELSE h[i]]
<1>6. Picks(g, data, m)
  <2>1. SUFFICES ASSUME NEW i \in 0 .. m
        PROVE  g[i] = IF i = 0 THEN <<>>
                      ELSE IF data[i].blank THEN g[i - 1] ELSE Append(g[i - 1], data[i])
    BY DEF Picks
  <2>2. CASE i = m
    <3>1. i - 1 \in 0 .. m /\ i - 1 # m
      BY <2>2, <1>3, <1>2
    <3> QED BY <2>2, <1>3, <3>1
  <2>3. CASE i # m
    <3>1. i \in 0 .. m - 1
      BY <2>3, <1>2
    <3>2. h[i] = IF i = 0 THEN <<>>
                 ELSE IF data[i].blank THEN h[i - 1] ELSE Append(h[i - 1], data[i])
      BY <3>1, <1>5 DEF Picks
    <3>3. i # 0 => i - 1 \in 0 .. m /\ i - 1 # m
      BY <2>1, <1>2
    <3> QED BY <2>3, <3>2, <3>3
  <2> QED BY <2>2, <2>3
<1> QED BY <1>6, <1>2

Written(data) == {data[i] : i \in {i \in 1 .. Len(data) : ~data[i].blank}}

(* _iter_lines returns lines of the recording that are not blank.          *)
LEMMA LinesOf ==
    ASSUME NEW data, Len(data) \in Nat
    PROVE  _iter_lines(data) \in Seq(Written(data))
<1> DEFINE n == Len(data)
           W == Written(data)
<1>1. n \in Nat
  OBVIOUS
<1>2. PICK g : Picks(g, data, n) /\ _iter_lines(data) = g[n]
  <2>1. \E g : Picks(g, data, n)
    BY <1>1, PicksExist
  <2> QED BY <2>1 DEF Picks, _iter_lines
<1> DEFINE Bad == {i \in Nat : i <= n /\ g[i] \notin Seq(W)}
<1>3. SUFFICES ASSUME Bad # {} PROVE FALSE
  BY <1>1, <1>2
<1>4. PICK i \in Bad : \A k \in Bad : i <= k
  BY <1>3, LeastNat
<1>5. g[i] = IF i = 0 THEN <<>>
             ELSE IF data[i].blank THEN g[i - 1] ELSE Append(g[i - 1], data[i])
  <2>1. i \in 0 .. n
    BY <1>4, <1>1
  <2> HIDE DEF n, Bad
  <2> QED BY <1>2, <2>1 DEF Picks
<1>6. i # 0
  <2>1. <<>> \in Seq(W)
    OBVIOUS
  <2>2. i = 0 => g[i] = <<>>
    BY <1>5
  <2>3. g[i] \notin Seq(W)
    BY <1>4
  <2> HIDE DEF n, Bad, W
  <2> QED BY <2>1, <2>2, <2>3
<1>7. i - 1 \in Nat /\ i - 1 \notin Bad /\ i \in 1 .. n
  BY <1>6, <1>4, <1>1
<1>8. g[i - 1] \in Seq(W)
  BY <1>7
<1>9. ~data[i].blank => data[i] \in W
  BY <1>7 DEF Written
<1>10. g[i] \in Seq(W)
  <2> HIDE DEF W, n, Bad
  <2>1. CASE data[i].blank
    BY <2>1, <1>5, <1>6, <1>8
  <2>2. CASE ~data[i].blank
    <3>1. Append(g[i - 1], data[i]) \in Seq(W)
      BY <2>2, <1>8, <1>9
    <3> QED BY <2>2, <3>1, <1>5, <1>6
  <2> QED BY <2>1, <2>2
<1> QED BY <1>4, <1>10

(* So a line that is read is one of the recording, and has times.          *)
LEMMA RecordingType ==
    ASSUME job \in Jobs
    PROVE  /\ Len(Recording) \in Nat
           /\ Recording # <<>> => Len(Recording) > 0
           /\ \A i \in 1 .. Len(Recording) : When(i) \in Int
<1> DEFINE W == Written(job.data)
<1>1. /\ job.regex \in {"none", "shapes", "strptime"}
      /\ job.data \in Seq({job.data[i] : i \in DOMAIN job.data})
      /\ \A i \in DOMAIN job.data :
           \/ job.data[i].blank
           \/ job.data[i].shapes \in Seq(Int) /\ job.data[i].group \in Seq(Int) /\ job.data[i].strp \in Int
  BY JobsAssumption
<1>2. Len(job.data) \in Nat /\ DOMAIN job.data = 1 .. Len(job.data)
  BY <1>1
<1>3. Recording \in Seq(W)
  BY <1>2, LinesOf DEF Recording
<1>4. \A l \in W : l.shapes \in Seq(Int) /\ l.group \in Seq(Int) /\ l.strp \in Int
  BY <1>1, <1>2 DEF Written
<1>5. ASSUME NEW sh \in Seq(Int) PROVE _parse_builtin(sh) \in Int
  <2> DEFINE good == {i \in DOMAIN sh : sh[i] >= 0}
  <2>1. CASE good = {}
    BY <2>1 DEF _parse_builtin, NoTime
  <2>2. CASE good # {}
    <3>1. good \subseteq Nat /\ good \subseteq DOMAIN sh
      OBVIOUS
    <3>2. \E i \in good : \A j \in good : i <= j
      BY <3>1, <2>2, LeastNat
    <3>3. PICK i : i = CHOOSE m \in good : \A j \in good : m <= j
      OBVIOUS
    <3>4. i \in good
      BY <3>2, <3>3
    <3>5. _parse_builtin(sh) = sh[i]
      BY <3>3, <2>2 DEF _parse_builtin
    <3> QED BY <3>4, <3>5
  <2> QED BY <2>1, <2>2
<1>6. \A l \in W : parse_time(l) \in Int
  BY <1>1, <1>4, <1>5 DEF parse_time, NoTime
<1> HIDE DEF W
<1>7. \A i \in 1 .. Len(Recording) : Recording[i] \in W
  BY <1>3
<1>8. Len(Recording) \in Nat /\ (Recording # <<>> => Len(Recording) > 0)
  BY <1>3
<1> QED BY <1>6, <1>7, <1>8 DEF When

(* Counting round n.                                                       *)
LEMMA NextRound ==
    ASSUME NEW a \in Nat, NEW n \in Nat, n > 0
    PROVE  ((a % n) + 1) % n = (a + 1) % n /\ a % n \in Nat /\ a % n < n
<1> DEFINE q == a \div n  r == a % n  p == (a + 1) \div n  m == (a + 1) % n
<1>1. q \in Nat /\ r \in 0 .. n - 1 /\ a = n * q + r
  BY Division
<1>2. p \in Nat /\ m \in 0 .. n - 1 /\ a + 1 = n * p + m
  BY Division
<1>3. r + 1 = n * (p - q) + m
  <2> HIDE DEF q, r, p, m
  <2> QED BY <1>1, <1>2
<1> HIDE DEF q, r, p, m
<1>4. PICK z \in Int : z = p - q
  BY <1>1, <1>2
<1>5. r + 1 = n * z + m
  BY <1>3, <1>4
<1>6. z = 0 \/ z = 1
  <2>1. CASE z < 0
    <3>1. -z - 1 \in Nat /\ n * (-z - 1) >= 0
      BY <2>1
    <3>2. n * z <= -n
      BY <3>1
    <3> QED BY <3>2, <1>1, <1>2, <1>5
  <2>2. CASE z > 1
    <3>1. z - 2 \in Nat /\ n * (z - 2) >= 0
      BY <2>2
    <3>2. n * z >= n + n
      BY <3>1
    <3> QED BY <3>2, <1>1, <1>2, <1>5
  <2> QED BY <2>1, <2>2
<1>7. CASE z = 0
  <2>1. r + 1 = m /\ r + 1 \in 0 .. n - 1
    BY <1>7, <1>5, <1>1, <1>2
  <2>2. (r + 1) % n = r + 1
    BY <2>1
  <2> QED BY <2>1, <2>2, <1>1 DEF r, m
<1>8. CASE z = 1
  <2>1. r + 1 = n /\ m = 0
    BY <1>8, <1>5, <1>1, <1>2
  <2>2. n % n = 0
    OBVIOUS
  <2> QED BY <2>1, <2>2, <1>1 DEF r, m
<1> QED BY <1>6, <1>7, <1>8

-----------------------------------------------------------------------------
(* Steps.                                                                  *)

(* What fits, fits later: only the clock moves, and forward.               *)
LEMMA FitsLater ==
    ASSUME job' = job, wall \in Nat, wall' \in Nat, wall <= wall',
           NEW s, NEW u, NEW st \in Seq(PointRec), EngineFits(s, u, st)
    PROVE  EngineFits(s, u, st)'
<1>1. Step' = Step /\ Metrics' = Metrics /\ Recording' = Recording
  BY DEF Step, Metrics, Recording
<1>2. \A i : When(i)' = When(i)
  BY <1>1 DEF When, parse_time
<1>3. Shard(s, u)' = Shard(s, u)
  BY DEF Shard
<1>4. \A t : OnGrid(t)' = OnGrid(t)
  BY <1>1 DEF OnGrid
<1>5. \A i \in 1 .. Len(st) : st[i].time \in Int
  <2>1. \A i \in 1 .. Len(st) : st[i] \in PointRec
    OBVIOUS
  <2> QED BY <2>1 DEF PointRec
<1>6. ASSUME Swept(s, u, st) PROVE Swept(s, u, st)'
  <2>1. Aligned(u)'
    BY <1>6, <1>4 DEF Swept, Aligned
  <2>2. OfShard(s, u, st)'
    BY <1>6, <1>3 DEF Swept, OfShard, Earlier
  <2>3. InOrderSent(st)'
    BY <1>6 DEF Swept, InOrderSent, Earlier
  <2>4. Complete(s, u, st)'
    BY <1>6, <1>3, <1>4 DEF Swept, Complete
  <2>5. job'.mode = "grid" => \A i \in 1 .. Len(st) : st[i].time <= wall'
    BY <1>6, <1>5 DEF Swept
  <2> QED BY <1>6, <1>3, <2>1, <2>2, <2>3, <2>4, <2>5 DEF Swept
<1>7. ASSUME Looped(u, st) PROVE Looped(u, st)'
  BY <1>7, <1>1 DEF Looped
<1>8. ASSUME Played(u, st) PROVE Played(u, st)'
  <2>1. \A i, gap : Spaced(i, gap)' = Spaced(i, gap)
    BY <1>2 DEF Spaced
  <2>2. Told(st)'
    BY <1>8, <1>5, <2>1 DEF Played, Told
  <2>3. Resting(u, st)'
    BY <1>8, <1>2 DEF Played, Resting
  <2>4. Sleeping(u, st)'
    BY <1>8, <1>1, <1>2, <2>1 DEF Played, Sleeping
  <2> QED BY <1>8, <1>1, <2>2, <2>3, <2>4 DEF Played
<1>9. Blank(u, st) => Blank(u, st)'
  BY DEF Blank
<1> QED BY <1>1, <1>6, <1>7, <1>8, <1>9 DEF EngineFits

(* One slot moves.                                                         *)
OneMoves(s, u, st) ==
    /\ unit' \in [FleetSlots -> UnitRec] /\ stream' \in [FleetSlots -> Seq(PointRec)]
    /\ unit'[s] = u /\ stream'[s] = st
    /\ \A r \in FleetSlots \ {s} : unit'[r] = unit[r] /\ stream'[r] = stream[r]

LEMMA EngineSlotStep ==
    ASSUME EngineInv, NEW s \in FleetSlots, NEW u, NEW st,
           UNCHANGED <<wall, job, fleet>>, OneMoves(s, u, st), EngineFits(s, u, st)
    PROVE  EngineInv'
<1>1. EngineTypes'
  BY DEF EngineInv, EngineTypes, OneMoves, FleetSlots
<1>2. wall \in Nat /\ wall <= wall /\ stream \in [FleetSlots -> Seq(PointRec)]
  BY DEF EngineInv, EngineTypes
<1>3. ASSUME NEW r \in FleetSlots PROVE EngineFits(r, unit[r], stream[r])'
  <2>1. PICK v : v = unit'[r]
    OBVIOUS
  <2>2. PICK tt \in Seq(PointRec) : tt = stream'[r]
    BY <1>3, <1>1 DEF EngineTypes, FleetSlots
  <2>3. EngineFits(r, v, tt)
    BY <2>1, <2>2 DEF EngineInv, OneMoves
  <2>4. EngineFits(r, v, tt)'
    BY <2>3, <1>2, FitsLater
  <2> QED BY <2>1, <2>2, <2>4
<1>4. FleetSlots' = FleetSlots
  BY DEF FleetSlots
<1> QED BY <1>1, <1>3 DEF EngineInv, FleetSlots

LEMMA SecondStep == ASSUME EngineInv, Second PROVE EngineInv'
<1>1. /\ wall \in Nat /\ wall' \in Nat /\ wall <= wall' /\ job' = job /\ fleet' = fleet
      /\ unit' = unit /\ stream' = stream
  BY DEF EngineInv, EngineTypes, Second
<1>2. EngineTypes'
  BY <1>1 DEF EngineInv, EngineTypes, FleetSlots
<1>3. ASSUME NEW r \in FleetSlots PROVE EngineFits(r, unit[r], stream[r])'
  <2>1. PICK v : v = unit[r]
    OBVIOUS
  <2>2. PICK tt \in Seq(PointRec) : tt = stream[r]
    BY <1>3 DEF EngineInv, EngineTypes
  <2>3. EngineFits(r, v, tt)
    BY <2>1, <2>2 DEF EngineInv
  <2>4. EngineFits(r, v, tt)'
    BY <2>3, <1>1, FitsLater
  <2> QED BY <1>1, <2>1, <2>2, <2>4
<1> QED BY <1>2, <1>3 DEF EngineInv, FleetSlots

(* A process that has not begun.                                           *)
LEMMA BlankFits ==
    ASSUME job \in Jobs, NEW s, NEW u, NEW st, Blank(u, st), u.pc \notin {"up", "idle", "exit0"}
    PROVE  EngineFits(s, u, st)
<1>1. Len(Recording) \in Nat
  BY RecordingType
<1>2. st = <<>> /\ Len(st) = 0
  BY DEF Blank
<1>3. Swept(s, u, st)
  <2>1. Aligned(u)
    BY GridZero DEF Aligned, Blank
  <2>2. OfShard(s, u, st) /\ InOrderSent(st)
    BY <1>2 DEF OfShard, InOrderSent
  <2>3. ASSUME NEW k \in Shard(s, u) PROVE k >= 0
    BY DEF Shard
  <2>4. Complete(s, u, st)
    BY <2>3 DEF Complete, Blank, Shard
  <2> QED BY <1>2, <2>1, <2>2, <2>4 DEF Swept
<1>4. Looped(u, st)
  <2>1. Len(Recording) # 0 => 0 % Len(Recording) = 0
    BY <1>1
  <2> QED BY <1>2, <2>1 DEF Looped, Blank
<1>5. Played(u, st)
  BY <1>1, <1>2 DEF Played, Told, Resting, Sleeping, Blank
<1> QED BY <1>3, <1>4, <1>5 DEF EngineFits

(* Its agent hangs up.                                                     *)
LEMMA CloseFits ==
    ASSUME NEW s, NEW u \in UnitRec, NEW st, EngineFits(s, u, st), NEW v,
           v = [u EXCEPT !.open = FALSE]
    PROVE  v \in UnitRec /\ EngineFits(s, v, st)
<1>1. /\ v \in UnitRec /\ v.pc = u.pc /\ v.total = u.total /\ v.tick = u.tick /\ v.first = u.first
      /\ v.next = u.next /\ v.base = u.base /\ v.offset = u.offset /\ v.prev = u.prev
      /\ v.due = u.due /\ ~v.open
  BY DEF UnitRec
<1>2. Shard(s, v) = Shard(s, u)
  BY <1>1 DEF Shard
<1>3. Swept(s, u, st) => Swept(s, v, st)
  <2>1. (Aligned(u) => Aligned(v)) /\ (OfShard(s, u, st) => OfShard(s, v, st))
    BY <1>1, <1>2 DEF Aligned, OfShard
  <2>2. Complete(s, u, st) => Complete(s, v, st)
    BY <1>1, <1>2 DEF Complete
  <2> QED BY <1>1, <1>2, <2>1, <2>2 DEF Swept
<1>4. Looped(u, st) => Looped(v, st)
  BY <1>1 DEF Looped
<1>5. Played(u, st) => Played(v, st)
  BY <1>1 DEF Played, Told, Resting, Sleeping
<1>6. Blank(u, st) => Blank(v, st)
  BY <1>1 DEF Blank
<1> QED BY <1>1, <1>3, <1>4, <1>5, <1>6 DEF EngineFits

(* It ends; a cadence replay ends well only when it is through.            *)
LEMMA ExitFits ==
    ASSUME NEW s, NEW u \in UnitRec, NEW st, EngineFits(s, u, st), NEW v, NEW code \in Stages,
           v = [u EXCEPT !.pc = code], code \in {"exit0", "exit1"},
           job.mode = "cadence" /\ code = "exit0" /\ u.open => Len(st) = Len(Recording)
    PROVE  v \in UnitRec /\ EngineFits(s, v, st)
<1>1. /\ v \in UnitRec /\ v.pc = code /\ v.total = u.total /\ v.tick = u.tick /\ v.first = u.first
      /\ v.next = u.next /\ v.base = u.base /\ v.offset = u.offset /\ v.prev = u.prev
      /\ v.due = u.due /\ v.open = u.open
  BY DEF UnitRec
<1>2. Shard(s, v) = Shard(s, u)
  BY <1>1 DEF Shard
<1>3. Swept(s, u, st) => Swept(s, v, st)
  <2>1. (Aligned(u) => Aligned(v)) /\ (OfShard(s, u, st) => OfShard(s, v, st))
    BY <1>1, <1>2 DEF Aligned, OfShard
  <2>2. Complete(s, u, st) => Complete(s, v, st)
    BY <1>1, <1>2 DEF Complete
  <2> QED BY <1>1, <1>2, <2>1, <2>2 DEF Swept
<1>4. Looped(u, st) => Looped(v, st)
  BY <1>1 DEF Looped
<1>5. job.mode = "cadence" /\ Played(u, st) => Played(v, st)
  BY <1>1 DEF Played, Told, Resting, Sleeping
<1> QED BY <1>1, <1>3, <1>4, <1>5 DEF EngineFits

(* It begins, on the grid, with nothing sent.                              *)
LEMMA BeginFits ==
    ASSUME job \in Jobs, NEW s, NEW u \in UnitRec, NEW st, Blank(u, st),
           NEW from \in Int, OnGrid(from), NEW code \in Stages, code \in {"idle", "up"},
           Metrics => (code = "idle" <=> Shard(s, u) = {}),
           NEW v, v = [u EXCEPT !.pc = code, !.tick = from, !.first = from]
    PROVE  v \in UnitRec /\ EngineFits(s, v, st)
<1>1. /\ v \in UnitRec /\ v.pc = code /\ v.total = u.total /\ v.tick = from /\ v.first = from
      /\ v.next = u.next /\ v.base = u.base /\ v.offset = u.offset /\ v.prev = u.prev
      /\ v.due = u.due
  <2>2. PICK w : w = [u EXCEPT !.pc = code, !.tick = from]
    OBVIOUS
  <2>3. /\ w \in UnitRec /\ w.pc = code /\ w.total = u.total /\ w.tick = from
        /\ w.next = u.next /\ w.base = u.base /\ w.offset = u.offset /\ w.prev = u.prev
        /\ w.due = u.due
    BY <2>2 DEF UnitRec
  <2>4. v = [w EXCEPT !.first = from]
    BY <2>2
  <2> QED BY <2>3, <2>4 DEF UnitRec
<1>2. Len(Recording) \in Nat
  BY RecordingType
<1>3. st = <<>> /\ Len(st) = 0 /\ u.next = 0
  BY DEF Blank
<1>4. Shard(s, v) = Shard(s, u)
  BY <1>1 DEF Shard
<1>5. \A k \in Shard(s, u) : k \in Nat
  BY JobsAssumption DEF Shard
<1>6. Metrics => Swept(s, v, st)
  <2>1. Aligned(v)
    BY <1>1 DEF Aligned
  <2>2. OfShard(s, v, st) /\ InOrderSent(st)
    BY <1>3 DEF OfShard, InOrderSent
  <2>3. Complete(s, v, st)
    BY <1>1, <1>3, <1>4, <1>5 DEF Complete
  <2> QED BY <1>1, <1>3, <1>4, <1>5, <2>1, <2>2, <2>3 DEF Swept
<1>7. Looped(v, st)
  <2>1. Len(Recording) # 0 => 0 % Len(Recording) = 0
    BY <1>2
  <2> QED BY <1>1, <1>3, <2>1 DEF Looped
<1>8. Played(v, st)
  BY <1>1, <1>2, <1>3 DEF Played, Told, Resting, Sleeping, Blank
<1> QED BY <1>1, <1>6, <1>7, <1>8 DEF EngineFits

(* A sequence one longer.                                                  *)
LEMMA Longer ==
    ASSUME NEW st \in Seq(PointRec), NEW p \in PointRec, NEW sn, sn = Append(st, p)
    PROVE  /\ sn \in Seq(PointRec) /\ Len(st) \in Nat /\ Len(sn) = Len(st) + 1
           /\ \A i \in 1 .. Len(st) : sn[i] = st[i] /\ st[i] \in PointRec
           /\ sn[Len(st) + 1] = p
           /\ \A i \in 1 .. Len(sn) : i = Len(st) + 1 \/ i \in 1 .. Len(st)
OBVIOUS

(* The next point of the sweep.                                            *)
LEMMA TickFits ==
    ASSUME job \in Jobs, Metrics, NEW s, NEW u \in UnitRec, NEW st \in Seq(PointRec),
           Swept(s, u, st), u.pc = "up", job.mode = "grid" => u.tick <= wall,
           NEW k \in Shard(s, u), k >= u.next, \A j \in Shard(s, u) : j >= u.next => k <= j,
           NEW sn, sn = Append(st, [item |-> k, time |-> u.tick]),
           NEW v, v = IF \E j \in Shard(s, u) : j > k THEN [u EXCEPT !.next = k + 1]
                      ELSE [u EXCEPT !.next = 0, !.tick = @ + Step]
    PROVE  v \in UnitRec /\ sn \in Seq(PointRec) /\ EngineFits(s, v, sn)
<1> DEFINE n == Len(st)
           p == [item |-> k, time |-> u.tick]
<1>1. \A j \in Shard(s, u) : j \in Nat
  BY JobsAssumption DEF Shard
<1>2. k \in Nat /\ u.tick \in Int /\ u.next \in Nat /\ u.first \in Int /\ Step \in Nat /\ Step > 0
  BY <1>1, StepPositive DEF UnitRec
<1>3. p \in PointRec
  BY <1>2 DEF PointRec
<1>4. /\ sn \in Seq(PointRec) /\ n \in Nat /\ Len(sn) = n + 1
      /\ \A i \in 1 .. n : sn[i] = st[i] /\ st[i] \in PointRec
      /\ sn[n + 1] = p /\ \A i \in 1 .. Len(sn) : i = n + 1 \/ i \in 1 .. n
  BY <1>3, Longer
<1>5. \A i \in 1 .. n : st[i].item \in Nat /\ st[i].time \in Int
  BY <1>4 DEF PointRec
<1>6. p.item = k /\ p.time = u.tick
  OBVIOUS
<1> HIDE DEF p
<1>7. /\ v \in UnitRec /\ v.pc = "up" /\ v.first = u.first /\ v.total = u.total
      /\ \/ v.next = k + 1 /\ v.tick = u.tick /\ \E j \in Shard(s, u) : j > k
         \/ v.next = 0 /\ v.tick = u.tick + Step /\ ~ \E j \in Shard(s, u) : j > k
  <2>1. CASE \E j \in Shard(s, u) : j > k
    <3>1. v = [u EXCEPT !.next = k + 1]
      BY <2>1
    <3>2. k + 1 \in Nat
      BY <1>2
    <3>3. /\ v \in UnitRec /\ v.pc = u.pc /\ v.first = u.first /\ v.total = u.total
          /\ v.next = k + 1 /\ v.tick = u.tick
      BY <3>1, <3>2 DEF UnitRec
    <3> QED BY <2>1, <3>3
  <2>2. CASE ~ \E j \in Shard(s, u) : j > k
    <3>1. v = [u EXCEPT !.next = 0, !.tick = u.tick + Step]
      BY <2>2
    <3>2. u.tick + Step \in Int
      BY <1>2
    <3> HIDE DEF Step
    <3>3. PICK x \in Int : x = u.tick + Step
      BY <3>2
    <3>4. v = [u EXCEPT !.next = 0, !.tick = x]
      BY <3>1, <3>3
    <3>5. /\ v \in UnitRec /\ v.pc = u.pc /\ v.first = u.first /\ v.total = u.total
          /\ v.next = 0 /\ v.tick = x
      <4>1. PICK w : w = [u EXCEPT !.next = 0]
        OBVIOUS
      <4>2. /\ w \in UnitRec /\ w.pc = u.pc /\ w.first = u.first /\ w.total = u.total
            /\ w.next = 0
        BY <4>1 DEF UnitRec
      <4>3. v = [w EXCEPT !.tick = x]
        BY <3>4, <4>1
      <4> QED BY <4>2, <4>3 DEF UnitRec
    <3> QED BY <2>2, <3>3, <3>5
  <2> QED BY <2>1, <2>2
<1>8. Shard(s, v) = Shard(s, u)
  BY <1>7 DEF Shard
<1> HIDE DEF Step
<1>9. Aligned(v)
  <2>1. OnGrid(u.tick + Step)
    BY GridNext DEF Swept, Aligned
  <2> QED BY <1>2, <1>7, <2>1 DEF Swept, Aligned
<1>10. OfShard(s, v, sn)
  <2>1. ASSUME NEW i \in 1 .. Len(sn)
        PROVE  sn[i].item \in Shard(s, v) /\ Earlier(sn[i], v.tick, v.next)
    <3>1. CASE i = n + 1
      BY <3>1, <1>2, <1>4, <1>6, <1>7, <1>8 DEF Earlier
    <3>2. CASE i \in 1 .. n
      <4>1. sn[i] = st[i] /\ st[i].item \in Shard(s, u) /\ Earlier(st[i], u.tick, u.next)
        BY <3>2, <1>4 DEF Swept, OfShard
      <4> QED BY <3>2, <4>1, <1>2, <1>5, <1>7, <1>8 DEF Earlier
    <3> QED BY <3>1, <3>2, <1>4
  <2> QED BY <2>1 DEF OfShard
<1>11. InOrderSent(sn)
  <2>1. ASSUME NEW i \in 1 .. Len(sn), NEW j \in 1 .. Len(sn), i < j
        PROVE  Earlier(sn[i], sn[j].time, sn[j].item)
    <3>1. i \in 1 .. n
      BY <2>1, <1>4
    <3>2. CASE j = n + 1
      <4>1. sn[i] = st[i] /\ Earlier(st[i], u.tick, u.next)
        BY <3>1, <1>4 DEF Swept, OfShard
      <4> QED BY <3>1, <3>2, <4>1, <1>2, <1>4, <1>5, <1>6 DEF Earlier
    <3>3. CASE j \in 1 .. n
      BY <2>1, <3>1, <3>3, <1>4 DEF Swept, InOrderSent
    <3> QED BY <3>2, <3>3, <1>4
  <2> QED BY <2>1 DEF InOrderSent
<1>12. Complete(s, v, sn)
  <2>1. SUFFICES ASSUME NEW q \in Shard(s, u), NEW t \in Int, OnGrid(t), u.first <= t,
                        t < v.tick \/ (t = v.tick /\ q < v.next)
                 PROVE  \E i \in 1 .. Len(sn) : sn[i].item = q /\ sn[i].time = t
    BY <1>7, <1>8 DEF Complete
  <2>2. t <= u.tick
    <3>1. CASE u.tick < t
      <4>1. u.tick + Step <= t
        <5>1. OnGrid(u.tick)
          BY DEF Swept, Aligned
        <5> QED BY <3>1, <5>1, <2>1, GridApart
      <4> QED BY <4>1, <2>1, <1>1, <1>2, <1>7
    <3> QED BY <3>1, <1>2, <2>1
  <2>3. (t < u.tick \/ (t = u.tick /\ q < u.next)) \/ (t = u.tick /\ q = k)
    BY <1>1, <1>2, <1>7, <2>1, <2>2
  <2>4. CASE t = u.tick /\ q = k
    <3>1. n + 1 \in 1 .. Len(sn)
      BY <1>4
    <3> QED BY <2>4, <3>1, <1>4, <1>6
  <2>5. CASE t < u.tick \/ (t = u.tick /\ q < u.next)
    <3>1. PICK i \in 1 .. n : st[i].item = q /\ st[i].time = t
      BY <2>1, <2>5 DEF Swept, Complete
    <3>2. i \in 1 .. Len(sn) /\ sn[i] = st[i]
      BY <1>4
    <3> QED BY <3>1, <3>2
  <2> QED BY <2>3, <2>4, <2>5
<1>13. Swept(s, v, sn)
  <2>1. ASSUME job.mode = "grid", NEW i \in 1 .. Len(sn) PROVE sn[i].time <= wall
    BY <2>1, <1>4, <1>6 DEF Swept
  <2>2. \E j \in Shard(s, v) : j >= v.next
    BY <1>1, <1>2, <1>7, <1>8
  <2> QED BY <1>7, <1>9, <1>10, <1>11, <1>12, <2>1, <2>2 DEF Swept
<1> QED BY <1>4, <1>7, <1>13 DEF EngineFits, Metrics

(* The next line of a loop.                                                *)
LEMMA LoopFits ==
    ASSUME job \in Jobs, job.mode = "rate", NEW s, NEW u \in UnitRec, NEW st \in Seq(PointRec),
           Looped(u, st), u.pc = "up", Recording # <<>>,
           NEW sn, sn = Append(st, [item |-> u.next + 1, time |-> NoTime]),
           NEW v, v = [u EXCEPT !.next = (u.next + 1) % Len(Recording)]
    PROVE  v \in UnitRec /\ sn \in Seq(PointRec) /\ EngineFits(s, v, sn)
<1>1. PICK m \in Nat : m = Len(Recording) /\ m > 0
  BY RecordingType
<1> DEFINE n == Len(st)
           p == [item |-> u.next + 1, time |-> NoTime]
<1>2. n \in Nat /\ u.next \in Nat
  BY DEF UnitRec
<1>3. u.next = n % m
  BY <1>1 DEF Looped
<1>4. p \in PointRec
  BY <1>2 DEF PointRec, NoTime
<1>5. /\ sn \in Seq(PointRec) /\ Len(sn) = n + 1
      /\ \A i \in 1 .. n : sn[i] = st[i] /\ st[i] \in PointRec
      /\ sn[n + 1] = p /\ \A i \in 1 .. Len(sn) : i = n + 1 \/ i \in 1 .. n
  BY <1>4, Longer
<1>6. ((n % m) + 1) % m = (n + 1) % m
  BY <1>1, <1>2, NextRound
<1>7. PICK x : x = (n + 1) % m
  OBVIOUS
<1>8. x \in Nat
  <2>1. n + 1 \in Nat
    BY <1>2
  <2> QED BY <2>1, <1>1, <1>7, NextRound
<1>9. v = [u EXCEPT !.next = x]
  BY <1>1, <1>3, <1>6, <1>7
<1>10. v \in UnitRec /\ v.next = x /\ v.pc = "up"
  BY <1>8, <1>9 DEF UnitRec
<1>11. p.item = (n % m) + 1 /\ p.time = NoTime
  BY <1>3
<1> HIDE DEF p
<1>12. ASSUME NEW i \in 1 .. Len(sn) PROVE sn[i].item = ((i - 1) % m) + 1 /\ sn[i].time = NoTime
  <2>1. CASE i = n + 1
    <3>1. i - 1 = n
      BY <2>1, <1>2
    <3> QED BY <2>1, <3>1, <1>5, <1>11
  <2>2. CASE i \in 1 .. n
    <3>1. st[i].item = ((i - 1) % m) + 1 /\ st[i].time = NoTime
      BY <2>2, <1>1 DEF Looped
    <3> QED BY <2>2, <3>1, <1>5
  <2> QED BY <2>1, <2>2, <1>5
<1>13. Looped(v, sn)
  <2>1. v.next = Len(sn) % m
    BY <1>5, <1>7, <1>10
  <2> QED BY <2>1, <1>1, <1>12 DEF Looped
<1> QED BY <1>5, <1>10, <1>13 DEF EngineFits, Metrics

LEMMA GapType ==
    ASSUME NEW a \in Int, NEW b \in Int
    PROVE  /\ _gap(a, b) \in Nat
           /\ a # NoTime /\ b # NoTime /\ a <= b => _gap(a, b) = (b - a) * Multiple
<1>1. FallbackGap \in Nat /\ Multiple \in Nat
  BY GeneratorsAssumption
<1>2. FallbackGap * Multiple \in Nat
  BY <1>1
<1>3. CASE a = NoTime \/ b = NoTime \/ b < a
  BY <1>2, <1>3 DEF _gap
<1>4. CASE a # NoTime /\ b # NoTime /\ a <= b
  <2>1. b - a \in Nat
    BY <1>4
  <2>2. (b - a) * Multiple \in Nat
    BY <2>1, <1>1
  <2>3. _gap(a, b) = (b - a) * Multiple
    BY <1>4 DEF _gap
  <2> QED BY <2>2, <2>3
<1> QED BY <1>3, <1>4

(* The engine sleeps the gap before its next line.                         *)
LEMMA SleepFits ==
    ASSUME job \in Jobs, job.mode = "cadence", wall \in Nat, NEW s, NEW u \in UnitRec,
           NEW st \in Seq(PointRec), Played(u, st), u.pc = "up", u.due = NoTime,
           u.next < Len(Recording),
           NEW ts, ts = When(u.next + 1),
           NEW gap, gap = IF u.base = NoTime THEN 0 ELSE _gap(u.prev, ts),
           NEW v, v \in UnitRec, v.pc = "up", v.next = u.next,
           v.base = IF u.base = NoTime THEN wall ELSE u.base,
           v.offset = u.offset + gap, v.due = wall + gap,
           v.prev = IF ts = NoTime THEN u.prev ELSE ts
    PROVE  EngineFits(s, v, st)
<1>1. /\ u.next \in Nat /\ u.offset \in Nat /\ u.prev \in Int /\ u.base \in Nat \cup {NoTime}
      /\ Len(st) = u.next
  BY DEF UnitRec, Played
<1>2. Len(Recording) \in Nat /\ \A i \in 1 .. Len(Recording) : When(i) \in Int
  BY RecordingType
<1>3. ts \in Int
  <2>1. u.next + 1 \in 1 .. Len(Recording)
    BY <1>1, <1>2
  <2> QED BY <2>1, <1>2
<1>4. gap \in Nat
  BY <1>1, <1>3, GapType
<1>5. v.due \in Nat /\ v.due # NoTime /\ v.base \in Nat /\ v.base # NoTime
  BY <1>1, <1>4 DEF NoTime
<1>6. \A i \in 1 .. Len(st) : st[i].time \in Int
  <2>1. \A i \in 1 .. Len(st) : st[i] \in PointRec
    OBVIOUS
  <2> QED BY <2>1 DEF PointRec
<1>7. v.base + v.offset <= v.due
  <2>1. CASE u.base = NoTime
    BY <2>1, <1>4 DEF Played
  <2>2. CASE u.base # NoTime
    <3>1. u.next >= 1 /\ st[u.next].time = u.base + u.offset
      BY <2>2 DEF Played, Resting
    <3>2. st[u.next].time <= wall
      BY <3>1, <1>1 DEF Played, Told
    <3> QED BY <2>2, <3>1, <3>2, <1>1, <1>4
  <2> QED BY <2>1, <2>2
<1>8. Resting(v, st)
  BY <1>5 DEF Resting
<1>9. ASSUME u.next >= 1
      PROVE  /\ st[u.next].time <= v.base + v.offset
             /\ Spaced(u.next + 1, v.base + v.offset - st[u.next].time)
  <2>1. u.base # NoTime
    BY <1>1, <1>9 DEF Played
  <2>2. /\ st[u.next].time = u.base + u.offset
        /\ When(u.next) # NoTime => u.prev = When(u.next)
    BY <2>1 DEF Played, Resting
  <2>3. /\ v.base = u.base /\ v.offset = u.offset + gap /\ gap = _gap(u.prev, ts)
        /\ u.base \in Nat
    BY <2>1, <1>1
  <2>4. v.base + v.offset - st[u.next].time = gap
    BY <2>2, <2>3, <1>1, <1>4
  <2>5. st[u.next].time <= v.base + v.offset
    BY <2>2, <2>3, <1>1, <1>4
  <2>6. (u.next + 1) - 1 = u.next
    BY <1>1
  <2>7. When(u.next) # NoTime /\ ts # NoTime /\ When(u.next) <= ts => gap = (ts - When(u.next)) * Multiple
    BY <2>2, <2>3, <1>1, <1>3, GapType
  <2>8. Spaced(u.next + 1, gap)
    BY <2>6, <2>7 DEF Spaced
  <2> QED BY <2>4, <2>5, <2>8
<1>10. Sleeping(v, st)
  BY <1>5, <1>7, <1>9 DEF Sleeping
<1>11. Played(v, st)
  BY <1>1, <1>5, <1>8, <1>10 DEF Played
<1> QED BY <1>11 DEF EngineFits, Metrics

(* And sends it.                                                           *)
LEMMA PlayFits ==
    ASSUME job \in Jobs, job.mode = "cadence", wall \in Nat, NEW s, NEW u \in UnitRec,
           NEW st \in Seq(PointRec), Played(u, st), u.pc = "up", u.due # NoTime, u.due <= wall,
           NEW sn, sn = Append(st, [item |-> u.next + 1, time |-> u.base + u.offset]),
           NEW v, v = [u EXCEPT !.next = u.next + 1, !.due = NoTime]
    PROVE  v \in UnitRec /\ sn \in Seq(PointRec) /\ EngineFits(s, v, sn)
<1> DEFINE n == Len(st)
           p == [item |-> u.next + 1, time |-> u.base + u.offset]
<1>1. /\ u.next \in Nat /\ u.offset \in Nat /\ u.prev \in Int /\ u.base \in Nat \cup {NoTime}
      /\ n = u.next /\ u.due \in Nat \cup {NoTime}
  BY DEF UnitRec, Played
<1>2. Len(Recording) \in Nat
  BY RecordingType
<1>3. /\ u.next < Len(Recording) /\ u.base # NoTime /\ u.base + u.offset <= u.due
      /\ When(u.next + 1) # NoTime => u.prev = When(u.next + 1)
      /\ u.next >= 1 => /\ st[u.next].time <= u.base + u.offset
                        /\ Spaced(u.next + 1, u.base + u.offset - st[u.next].time)
  BY DEF Played, Sleeping
<1>4. p \in PointRec /\ p.item = n + 1 /\ p.time = u.base + u.offset /\ p.time <= wall
  BY <1>1, <1>3 DEF PointRec
<1> HIDE DEF p
<1>5. /\ sn \in Seq(PointRec) /\ Len(sn) = n + 1 /\ n \in Nat
      /\ \A i \in 1 .. n : sn[i] = st[i] /\ st[i] \in PointRec
      /\ sn[n + 1] = p /\ \A i \in 1 .. Len(sn) : i = n + 1 \/ i \in 1 .. n
  BY <1>4, Longer DEF p
<1>6. /\ v \in UnitRec /\ v.pc = "up" /\ v.next = n + 1 /\ v.due = NoTime /\ v.base = u.base
      /\ v.offset = u.offset /\ v.prev = u.prev
  <2>1. PICK w : w = [u EXCEPT !.next = u.next + 1]
    OBVIOUS
  <2>2. u.next + 1 \in Nat
    BY <1>1
  <2>3. /\ w \in UnitRec /\ w.pc = "up" /\ w.next = n + 1 /\ w.base = u.base
        /\ w.offset = u.offset /\ w.prev = u.prev
    BY <1>1, <2>1, <2>2 DEF UnitRec
  <2>4. v = [w EXCEPT !.due = NoTime]
    BY <2>1
  <2> QED BY <2>3, <2>4 DEF UnitRec
<1>7. Told(sn)
  <2>1. ASSUME NEW i \in 1 .. Len(sn) PROVE sn[i].item = i /\ sn[i].time <= wall
    <3>1. CASE i = n + 1
      BY <3>1, <1>4, <1>5
    <3>2. CASE i \in 1 .. n
      BY <3>2, <1>5 DEF Played, Told
    <3> QED BY <3>1, <3>2, <1>5
  <2>2. ASSUME NEW i \in 2 .. Len(sn)
        PROVE  sn[i - 1].time <= sn[i].time /\ Spaced(i, sn[i].time - sn[i - 1].time)
    <3>1. i - 1 \in 1 .. n /\ sn[i - 1] = st[i - 1]
      BY <2>2, <1>5
    <3>2. CASE i = n + 1
      <4>1. sn[i].time = u.base + u.offset /\ i - 1 = u.next /\ i = u.next + 1 /\ u.next >= 1
        BY <3>1, <3>2, <1>1, <1>4, <1>5
      <4>2. sn[i - 1] = st[u.next]
        BY <4>1, <3>1
      <4>3. sn[i].time - sn[i - 1].time = u.base + u.offset - st[u.next].time
        <5>1. sn[i - 1].time \in Int
          BY <3>1, <1>5 DEF PointRec
        <5>2. u.base \in Int /\ u.offset \in Int
          BY <1>1 DEF NoTime
        <5>3. PICK b \in Int, o \in Int, z \in Int : b = u.base /\ o = u.offset /\ z = st[u.next].time
          BY <5>1, <5>2, <4>2
        <5>4. b + o - z = (b + o) - z
          OBVIOUS
        <5>5. sn[i].time = b + o /\ sn[i - 1].time = z
          BY <5>3, <4>1, <4>2
        <5> QED BY <5>3, <5>4, <5>5
      <4>4. Spaced(u.next + 1, u.base + u.offset - st[u.next].time) /\ st[u.next].time <= u.base + u.offset
        BY <4>1, <1>3
      <4>5. Spaced(i, sn[i].time - sn[i - 1].time)
        BY <4>1, <4>3, <4>4
      <4> QED BY <4>1, <4>2, <4>4, <4>5
    <3>3. CASE i \in 1 .. n
      <4>1. i \in 2 .. n /\ sn[i] = st[i]
        BY <2>2, <3>3, <1>5
      <4> QED BY <4>1, <3>1 DEF Played, Told
    <3> QED BY <3>2, <3>3, <2>2, <1>5
  <2> QED BY <2>1, <2>2 DEF Told
<1>8. Resting(v, sn)
  BY <1>1, <1>3, <1>4, <1>5, <1>6 DEF Resting
<1>9. Sleeping(v, sn)
  BY <1>6 DEF Sleeping
<1>10. Played(v, sn)
  BY <1>1, <1>2, <1>3, <1>5, <1>6, <1>7, <1>8, <1>9 DEF Played
<1> QED BY <1>5, <1>6, <1>10 DEF EngineFits, Metrics

-----------------------------------------------------------------------------
(* The actions.                                                            *)

LEMMA OffType == Off \in UnitRec /\ Off.total = 1
<1>1. 1 \in 1 .. MaxFleet
  BY GeneratorsAssumption
<1>2. "off" \in Stages
  BY DEF Stages
<1>3. NoTime \in Int
  BY DEF NoTime
<1> QED BY <1>1, <1>2, <1>3 DEF Off, UnitRec

LEMMA NewUnit ==
    ASSUME NEW n \in 1 .. MaxFleet, NEW v,
           v = [Off EXCEPT !.pc = "starting", !.open = TRUE, !.total = n]
    PROVE  v \in UnitRec /\ v.pc = "starting" /\ Blank(v, <<>>)
<1>1. "starting" \in Stages
  BY DEF Stages
<1>2. PICK w : w = [Off EXCEPT !.pc = "starting"]
  OBVIOUS
<1>3. w \in UnitRec /\ w.pc = "starting" /\ Blank(w, <<>>)
  BY <1>1, <1>2, OffType DEF Off, UnitRec, Blank
<1>4. PICK x : x = [w EXCEPT !.open = TRUE]
  OBVIOUS
<1>5. x \in UnitRec /\ x.pc = "starting" /\ Blank(x, <<>>)
  BY <1>3, <1>4 DEF UnitRec, Blank
<1>6. v = [x EXCEPT !.total = n]
  BY <1>2, <1>4
<1> QED BY <1>5, <1>6 DEF UnitRec, Blank

LEMMA AgentSteps ==
    ASSUME EngineInv, NEW s \in FleetSlots, AgentStep(s)
    PROVE  EngineInv'
<1>1. /\ job \in Jobs /\ fleet \in 1 .. MaxFleet /\ unit \in [FleetSlots -> UnitRec]
      /\ stream \in [FleetSlots -> Seq(PointRec)] /\ unit[s] \in UnitRec
      /\ EngineFits(s, unit[s], stream[s])
  BY DEF EngineInv, EngineTypes
<1>2. UNCHANGED <<wall, job, fleet>>
  BY DEF AgentStep, build_engine, restart_engine, replaced, drained
<1>3. unit[s].total \in 1 .. MaxFleet
  BY <1>1 DEF UnitRec
<1>4. CASE build_engine(s) \/ restart_engine(s)
  <2>1. PICK n \in 1 .. MaxFleet :
          unit' = [unit EXCEPT ![s] = [Off EXCEPT !.pc = "starting", !.open = TRUE, !.total = n]]
    BY <1>1, <1>3, <1>4 DEF build_engine, restart_engine
  <2>2. PICK v : v = [Off EXCEPT !.pc = "starting", !.open = TRUE, !.total = n]
    OBVIOUS
  <2>3. v \in UnitRec /\ v.pc = "starting" /\ Blank(v, <<>>)
    BY <2>2, NewUnit
  <2>4. stream' = [stream EXCEPT ![s] = <<>>]
    <3>1. CASE build_engine(s)
      <4>1. stream' = stream /\ stream[s] = <<>>
        BY <3>1, <1>1 DEF build_engine, EngineFits, Blank
      <4> QED BY <4>1, <1>1
    <3> QED BY <3>1, <1>4 DEF restart_engine
  <2>5. unit' = [unit EXCEPT ![s] = v]
    BY <2>1, <2>2
  <2>6. OneMoves(s, v, <<>>)
    BY <1>1, <2>3, <2>4, <2>5 DEF OneMoves
  <2>7. EngineFits(s, v, <<>>)
    BY <1>1, <2>3, BlankFits
  <2> QED BY <1>2, <2>6, <2>7, EngineSlotStep
<1>5. CASE replaced(s)
  <2>1. PICK v : v = Off
    OBVIOUS
  <2>2. v \in UnitRec /\ v.pc = "off" /\ Blank(v, <<>>)
    BY <2>1, OffType DEF Off, Blank
  <2>3. OneMoves(s, v, <<>>)
    BY <1>1, <1>5, <2>1, <2>2 DEF OneMoves, replaced
  <2>4. EngineFits(s, v, <<>>)
    BY <1>1, <2>2, BlankFits
  <2> QED BY <1>2, <2>3, <2>4, EngineSlotStep
<1>6. CASE drained(s)
  <2>1. PICK u \in UnitRec, st \in Seq(PointRec) : u = unit[s] /\ st = stream[s]
    BY <1>1
  <2>2. PICK v : v = [u EXCEPT !.open = FALSE]
    OBVIOUS
  <2>3. v \in UnitRec /\ EngineFits(s, v, st)
    BY <1>1, <2>1, <2>2, CloseFits
  <2>4. unit' = [unit EXCEPT ![s] = v] /\ stream' = stream
    BY <1>6, <1>1, <2>1, <2>2 DEF drained
  <2>5. OneMoves(s, v, st)
    BY <1>1, <2>1, <2>3, <2>4 DEF OneMoves
  <2> QED BY <1>2, <2>3, <2>5, EngineSlotStep
<1> QED BY <1>4, <1>5, <1>6 DEF AgentStep

LEMMA ScaleStep ==
    ASSUME EngineInv, NEW n \in 1 .. MaxFleet, scale_fleet(n)
    PROVE  EngineInv'
<1>1. /\ job \in Jobs /\ wall \in Nat /\ unit \in [FleetSlots -> UnitRec]
      /\ stream \in [FleetSlots -> Seq(PointRec)]
  BY DEF EngineInv, EngineTypes
<1>2. job' = job /\ wall' = wall /\ stream' = stream /\ fleet' = n
  BY DEF scale_fleet
<1>3. ASSUME NEW r \in FleetSlots
      PROVE  unit'[r] \in UnitRec /\ EngineFits(r, unit[r], stream[r])'
  <2>1. PICK u \in UnitRec : u = unit[r]
    BY <1>1
  <2>2. PICK tt \in Seq(PointRec) : tt = stream[r]
    BY <1>1
  <2>3. EngineFits(r, u, tt)
    BY <2>1, <2>2 DEF EngineInv
  <2>4. PICK v : v = [u EXCEPT !.open = FALSE]
    OBVIOUS
  <2>5. v \in UnitRec /\ EngineFits(r, v, tt)
    BY <2>3, <2>4, CloseFits
  <2>6. unit'[r] = u \/ unit'[r] = v
    BY <2>1, <2>4 DEF scale_fleet
  <2>7. EngineFits(r, u, tt)' /\ EngineFits(r, v, tt)'
    <3>1. wall <= wall' /\ wall' \in Nat
      BY <1>1, <1>2
    <3> QED BY <1>1, <1>2, <3>1, <2>3, <2>5, FitsLater
  <2> QED BY <1>2, <2>2, <2>5, <2>6, <2>7
<1>4. EngineTypes'
  <2>1. unit' \in [FleetSlots -> UnitRec]
    BY <1>3 DEF scale_fleet
  <2> QED BY <1>1, <1>2, <2>1 DEF EngineTypes, FleetSlots
<1> QED BY <1>3, <1>4 DEF EngineInv, FleetSlots

(* The engine's process moves alone, from u and st to v and sn.            *)
LEMMA EngineMoves ==
    ASSUME EngineInv, NEW s \in FleetSlots, UNCHANGED <<wall, job, fleet>>,
           NEW v \in UnitRec, NEW sn \in Seq(PointRec), EngineFits(s, v, sn),
           unit' = [unit EXCEPT ![s] = v],
           stream' = [stream EXCEPT ![s] = sn] \/ (stream' = stream /\ sn = stream[s])
    PROVE  EngineInv'
<1>1. unit \in [FleetSlots -> UnitRec] /\ stream \in [FleetSlots -> Seq(PointRec)]
  BY DEF EngineInv, EngineTypes
<1>2. OneMoves(s, v, sn)
  BY <1>1 DEF OneMoves
<1> QED BY <1>2, EngineSlotStep

LEMMA ExitStep ==
    ASSUME EngineInv, NEW s \in FleetSlots, NEW code \in Stages, Exit(s, code),
           UNCHANGED <<wall, job, fleet, stream>>, code \in {"exit0", "exit1"},
           job.mode = "cadence" /\ code = "exit0" /\ unit[s].open => Len(stream[s]) = Len(Recording)
    PROVE  EngineInv'
<1>1. /\ unit \in [FleetSlots -> UnitRec] /\ unit[s] \in UnitRec /\ stream[s] \in Seq(PointRec)
      /\ EngineFits(s, unit[s], stream[s])
  BY DEF EngineInv, EngineTypes
<1>2. PICK u \in UnitRec, st \in Seq(PointRec) : u = unit[s] /\ st = stream[s]
  BY <1>1
<1>3. PICK v : v = [u EXCEPT !.pc = code]
  OBVIOUS
<1>4. v \in UnitRec /\ EngineFits(s, v, st)
  BY <1>1, <1>2, <1>3, ExitFits
<1>5. unit' = [unit EXCEPT ![s] = v]
  BY <1>1, <1>2, <1>3 DEF Exit
<1> QED BY <1>2, <1>4, <1>5, EngineMoves

LEMMA LoadStep ==
    ASSUME EngineInv, NEW s \in FleetSlots, NEW ok \in BOOLEAN, Loaded(s, ok)
    PROVE  EngineInv'
<1>1. /\ unit \in [FleetSlots -> UnitRec] /\ unit[s] \in UnitRec /\ stream[s] \in Seq(PointRec)
      /\ EngineFits(s, unit[s], stream[s]) /\ job \in Jobs /\ wall \in Nat
  BY DEF EngineInv, EngineTypes
<1>2. PICK u \in UnitRec, st \in Seq(PointRec) : u = unit[s] /\ st = stream[s]
  BY <1>1
<1>3. u.pc = "starting" /\ Blank(u, st)
  BY <1>1, <1>2 DEF Loaded, EngineFits
<1>4. PICK code \in Stages, x \in Int :
        code = (IF ok THEN "connecting" ELSE "exit2") /\ x = wall + ConnectRetry
  BY <1>1, GeneratorsAssumption DEF Stages
<1>5. PICK w : w = [u EXCEPT !.pc = code]
  OBVIOUS
<1>6. w \in UnitRec /\ w.pc = code /\ Blank(w, st)
  BY <1>3, <1>5 DEF UnitRec, Blank
<1>7. PICK v : v = [w EXCEPT !.until = x]
  OBVIOUS
<1>8. v \in UnitRec /\ v.pc = code /\ Blank(v, st)
  BY <1>6, <1>7 DEF UnitRec, Blank
<1>9. EngineFits(s, v, st)
  BY <1>1, <1>4, <1>8, BlankFits
<1>10. unit' = [unit EXCEPT ![s] = v]
  BY <1>1, <1>2, <1>4, <1>5, <1>7 DEF Loaded
<1> QED BY <1>2, <1>8, <1>9, <1>10, EngineMoves DEF Loaded

LEMMA ConnectStep ==
    ASSUME EngineInv, NEW s \in FleetSlots, _connect(s)
    PROVE  EngineInv'
<1>1. /\ unit \in [FleetSlots -> UnitRec] /\ unit[s] \in UnitRec /\ stream[s] \in Seq(PointRec)
      /\ EngineFits(s, unit[s], stream[s]) /\ job \in Jobs
  BY DEF EngineInv, EngineTypes
<1>2. PICK u \in UnitRec, st \in Seq(PointRec) : u = unit[s] /\ st = stream[s]
  BY <1>1
<1>3. Blank(u, st)
  BY <1>1, <1>2 DEF _connect, EngineFits
<1>4. PICK code \in Stages : code \in {"connected", "exit1"} /\ Exit(s, code)
  BY DEF _connect, Stages
<1>5. PICK v : v = [u EXCEPT !.pc = code]
  OBVIOUS
<1>6. v \in UnitRec /\ v.pc = code /\ Blank(v, st)
  BY <1>3, <1>5 DEF UnitRec, Blank
<1>7. EngineFits(s, v, st)
  BY <1>1, <1>4, <1>6, BlankFits
<1>8. unit' = [unit EXCEPT ![s] = v]
  BY <1>1, <1>2, <1>4, <1>5 DEF Exit
<1> QED BY <1>2, <1>6, <1>7, <1>8, EngineMoves DEF _connect

LEMMA RunStep ==
    ASSUME EngineInv, NEW s \in FleetSlots, run_engine(s)
    PROVE  EngineInv'
<1>1. /\ unit \in [FleetSlots -> UnitRec] /\ unit[s] \in UnitRec /\ stream[s] \in Seq(PointRec)
      /\ EngineFits(s, unit[s], stream[s]) /\ job \in Jobs /\ wall \in Nat
  BY DEF EngineInv, EngineTypes
<1>2. PICK u \in UnitRec, st \in Seq(PointRec) : u = unit[s] /\ st = stream[s]
  BY <1>1
<1>3. Blank(u, st)
  BY <1>1, <1>2 DEF run_engine, EngineFits
<1>4. series_shard(s) = Shard(s, u)
  BY <1>2 DEF series_shard, Shard
<1>5. PICK from \in Int : OnGrid(from) /\ from = Floor(IF job.mode = "grid" THEN wall ELSE Window.start, Step)
  BY <1>1, GeneratorsAssumption, GridFloor
<1>6. PICK code \in Stages : code = IF Metrics /\ series_shard(s) = {} THEN "idle" ELSE "up"
  BY DEF Stages
<1>7. PICK v : v = [u EXCEPT !.pc = code, !.tick = from, !.first = from]
  OBVIOUS
<1>8. v \in UnitRec /\ EngineFits(s, v, st)
  <2>1. code \in {"idle", "up"} /\ (Metrics => (code = "idle" <=> Shard(s, u) = {}))
    BY <1>4, <1>6
  <2> QED BY <1>1, <1>3, <1>5, <1>7, <2>1, BeginFits
<1>9. unit' = [unit EXCEPT ![s] = v]
  BY <1>1, <1>2, <1>5, <1>6, <1>7 DEF run_engine
<1> QED BY <1>2, <1>8, <1>9, EngineMoves DEF run_engine

(* The next point of a tick, or the end of a closed connection.            *)
LEMMA TickStep ==
    ASSUME EngineInv, NEW s \in FleetSlots, SendTick(s), Metrics, unit[s].pc = "up",
           job.mode = "grid" => unit[s].tick <= wall, UNCHANGED <<wall, job, fleet>>
    PROVE  EngineInv'
<1>1. /\ unit \in [FleetSlots -> UnitRec] /\ unit[s] \in UnitRec /\ stream[s] \in Seq(PointRec)
      /\ EngineFits(s, unit[s], stream[s]) /\ job \in Jobs
      /\ stream \in [FleetSlots -> Seq(PointRec)]
  BY DEF EngineInv, EngineTypes
<1>2. PICK u \in UnitRec, st \in Seq(PointRec) : u = unit[s] /\ st = stream[s]
  BY <1>1
<1>3. Swept(s, u, st) /\ u.pc = "up"
  BY <1>1, <1>2 DEF EngineFits
<1>4. series_shard(s) = Shard(s, u)
  BY <1>2 DEF series_shard, Shard
<1> DEFINE Rest == {j \in Shard(s, u) : j >= u.next}
           First(k) == k \in Shard(s, u) /\ k >= u.next /\ \A j \in Shard(s, u) : j >= u.next => k <= j
<1>5. \E k \in Shard(s, u) : First(k)
  <2>1. Rest # {} /\ Rest \subseteq Nat
    <3>1. \A j \in Shard(s, u) : j \in Nat
      BY <1>1, JobsAssumption DEF Shard
    <3>2. \E j \in Shard(s, u) : j >= u.next
      BY <1>3 DEF Swept
    <3> QED BY <3>1, <3>2
  <2>2. PICK k \in Rest : \A j \in Rest : k <= j
    BY <2>1, LeastNat
  <2> QED BY <2>2
<1>6. PICK k : k = CHOOSE m \in series_shard(s) :
                     m >= unit[s].next /\ \A j \in series_shard(s) : j >= unit[s].next => m <= j
  OBVIOUS
<1>7. First(k)
  BY <1>2, <1>4, <1>5, <1>6
<1>8. CASE unit[s].open /\ Send(s, k, unit[s].tick) /\ unit' = [unit EXCEPT ![s] = Advanced(s, k)]
  <2>1. PICK sn : sn = Append(st, [item |-> k, time |-> u.tick])
    OBVIOUS
  <2>2. PICK v : v = IF \E j \in Shard(s, u) : j > k THEN [u EXCEPT !.next = k + 1]
                     ELSE [u EXCEPT !.next = 0, !.tick = @ + Step]
    OBVIOUS
  <2>3. v = Advanced(s, k)
    BY <1>2, <1>4, <2>2 DEF Advanced
  <2>4. v \in UnitRec /\ sn \in Seq(PointRec) /\ EngineFits(s, v, sn)
    <3>1. job.mode = "grid" => u.tick <= wall
      BY <1>2
    <3>2. k \in Shard(s, u) /\ k >= u.next /\ \A j \in Shard(s, u) : j >= u.next => k <= j
      BY <1>7
    <3> QED BY <1>1, <1>3, <2>1, <2>2, <3>1, <3>2, TickFits
  <2>5. stream' = [stream EXCEPT ![s] = sn]
    BY <1>1, <1>2, <1>8, <2>1 DEF Send
  <2> QED BY <1>8, <2>3, <2>4, <2>5, EngineMoves
<1>9. CASE Exit(s, "exit0") /\ UNCHANGED stream
  <2>1. job.mode # "cadence"
    BY DEF Metrics
  <2>2. "exit0" \in Stages
    BY DEF Stages
  <2> QED BY <1>9, <2>1, <2>2, ExitStep
<1> QED BY <1>6, <1>8, <1>9 DEF SendTick

LEMMA RateStep ==
    ASSUME EngineInv, NEW s \in FleetSlots, _run_rate(s)
    PROVE  EngineInv'
<1>1. /\ unit \in [FleetSlots -> UnitRec] /\ unit[s] \in UnitRec /\ stream[s] \in Seq(PointRec)
      /\ EngineFits(s, unit[s], stream[s]) /\ job \in Jobs
      /\ stream \in [FleetSlots -> Seq(PointRec)]
  BY DEF EngineInv, EngineTypes
<1>2. PICK u \in UnitRec, st \in Seq(PointRec) : u = unit[s] /\ st = stream[s]
  BY <1>1
<1>3. job.mode = "rate" /\ u.pc = "up" /\ Looped(u, st) /\ UNCHANGED <<wall, job, fleet>>
  BY <1>1, <1>2 DEF EngineFits, _run_rate
<1>4. CASE /\ Recording # <<>> /\ Send(s, unit[s].next + 1, NoTime)
           /\ unit' = [unit EXCEPT ![s].next = (@ + 1) % Len(Recording)]
  <2>1. PICK sn : sn = Append(st, [item |-> u.next + 1, time |-> NoTime])
    OBVIOUS
  <2>2. PICK v : v = [u EXCEPT !.next = (u.next + 1) % Len(Recording)]
    OBVIOUS
  <2>3. v \in UnitRec /\ sn \in Seq(PointRec) /\ EngineFits(s, v, sn)
    BY <1>1, <1>3, <1>4, <2>1, <2>2, LoopFits
  <2>4. stream' = [stream EXCEPT ![s] = sn]
    BY <1>1, <1>2, <1>4, <2>1 DEF Send
  <2>5. unit' = [unit EXCEPT ![s] = v]
    BY <1>1, <1>2, <1>4, <2>2
  <2> QED BY <1>3, <2>3, <2>4, <2>5, EngineMoves
<1>5. CASE Exit(s, "exit0") /\ UNCHANGED stream
  <2>1. "exit0" \in Stages
    BY DEF Stages
  <2> QED BY <1>3, <1>5, <2>1, ExitStep
<1> QED BY <1>4, <1>5 DEF _run_rate, Recording

LEMMA CadenceStep ==
    ASSUME EngineInv, NEW s \in FleetSlots, cadence_sleep(s) \/ _run_cadence(s)
    PROVE  EngineInv'
<1>1. /\ unit \in [FleetSlots -> UnitRec] /\ unit[s] \in UnitRec /\ stream[s] \in Seq(PointRec)
      /\ EngineFits(s, unit[s], stream[s]) /\ job \in Jobs /\ wall \in Nat
      /\ stream \in [FleetSlots -> Seq(PointRec)]
  BY DEF EngineInv, EngineTypes
<1>2. PICK u \in UnitRec, st \in Seq(PointRec) : u = unit[s] /\ st = stream[s]
  BY <1>1
<1>3. job.mode = "cadence" /\ u.pc = "up" /\ Played(u, st) /\ UNCHANGED <<wall, job, fleet>>
  BY <1>1, <1>2 DEF EngineFits, cadence_sleep, _run_cadence
<1>4. CASE cadence_sleep(s)
  <2>1. PICK ts : ts = When(u.next + 1)
    OBVIOUS
  <2>2. PICK gap : gap = IF u.base = NoTime THEN 0 ELSE _gap(u.prev, ts)
    OBVIOUS
  <2>3. /\ u.due = NoTime /\ u.next < Len(Recording) /\ stream' = stream
        /\ unit' = [unit EXCEPT ![s].base = IF @ = NoTime THEN wall ELSE @,
                                ![s].offset = @ + gap, ![s].due = wall + gap,
                                ![s].prev = IF ts = NoTime THEN @ ELSE ts]
    BY <1>2, <1>4, <2>1, <2>2 DEF cadence_sleep, When, Recording
  <2>4. gap \in Nat /\ ts \in Int
    <3>1. u.next \in Nat /\ u.prev \in Int
      BY DEF UnitRec
    <3>2. Len(Recording) \in Nat /\ \A i \in 1 .. Len(Recording) : When(i) \in Int
      BY <1>1, RecordingType
    <3>3. u.next + 1 \in 1 .. Len(Recording)
      BY <2>3, <3>1, <3>2
    <3>4. ts \in Int
      BY <2>1, <3>2, <3>3
    <3> QED BY <2>2, <3>1, <3>4, GapType
  <2>5. PICK a : a = IF u.base = NoTime THEN wall ELSE u.base
    OBVIOUS
  <2>6. PICK b : b = IF ts = NoTime THEN u.prev ELSE ts
    OBVIOUS
  <2>7. PICK v : v = [u EXCEPT !.base = a, !.offset = u.offset + gap, !.due = wall + gap, !.prev = b]
    OBVIOUS
  <2>8. /\ v \in UnitRec /\ v.pc = "up" /\ v.next = u.next /\ v.base = a
        /\ v.offset = u.offset + gap /\ v.due = wall + gap /\ v.prev = b
    <3>1. /\ a \in Nat \cup {NoTime} /\ b \in Int /\ u.offset + gap \in Nat
          /\ wall + gap \in Nat \cup {NoTime}
      <4>1. u.base \in Nat \cup {NoTime} /\ u.offset \in Nat /\ u.prev \in Int
        BY DEF UnitRec
      <4> QED BY <4>1, <1>1, <2>4, <2>5, <2>6
    <3>2. PICK w : w = [u EXCEPT !.base = a, !.offset = u.offset + gap]
      OBVIOUS
    <3>3. w \in UnitRec /\ w.pc = "up" /\ w.next = u.next /\ w.base = a /\ w.offset = u.offset + gap
      BY <1>3, <3>1, <3>2 DEF UnitRec
    <3>4. v = [w EXCEPT !.due = wall + gap, !.prev = b]
      BY <2>7, <3>2
    <3> QED BY <3>1, <3>3, <3>4 DEF UnitRec
  <2>9. EngineFits(s, v, st)
    BY <1>1, <1>3, <2>1, <2>2, <2>3, <2>5, <2>6, <2>8, SleepFits
  <2>10. unit' = [unit EXCEPT ![s] = v]
    BY <1>1, <1>2, <2>3, <2>5, <2>6, <2>7
  <2> QED BY <1>2, <1>3, <2>3, <2>8, <2>9, <2>10, EngineMoves
<1>5. CASE /\ u.due # NoTime /\ u.due <= wall /\ Send(s, u.next + 1, u.base + u.offset)
           /\ unit' = [unit EXCEPT ![s].next = @ + 1, ![s].due = NoTime]
  <2>1. PICK sn : sn = Append(st, [item |-> u.next + 1, time |-> u.base + u.offset])
    OBVIOUS
  <2>2. PICK v : v = [u EXCEPT !.next = u.next + 1, !.due = NoTime]
    OBVIOUS
  <2>3. v \in UnitRec /\ sn \in Seq(PointRec) /\ EngineFits(s, v, sn)
    BY <1>1, <1>3, <1>5, <2>1, <2>2, PlayFits
  <2>4. stream' = [stream EXCEPT ![s] = sn]
    BY <1>1, <1>2, <1>5, <2>1 DEF Send
  <2>5. unit' = [unit EXCEPT ![s] = v]
    BY <1>1, <1>2, <1>5, <2>2
  <2> QED BY <1>3, <2>3, <2>4, <2>5, EngineMoves
<1>6. CASE /\ Exit(s, "exit0") /\ UNCHANGED stream
           /\ ~u.open \/ u.next = Len(Recording)
  <2>1. "exit0" \in Stages
    BY DEF Stages
  <2>2. unit[s].open => Len(stream[s]) = Len(Recording)
    BY <1>2, <1>3, <1>6 DEF Played
  <2> QED BY <1>3, <1>6, <2>1, <2>2, ExitStep
<1> QED BY <1>2, <1>4, <1>5, <1>6 DEF _run_cadence, Recording

LEMMA EngineSteps ==
    ASSUME EngineInv, NEW s \in FleetSlots, EngineStep(s)
    PROVE  EngineInv'
<1>1. "exit0" \in Stages /\ "exit1" \in Stages
  BY DEF Stages
<1>2. ASSUME NEW ok \in BOOLEAN, load_config(s, ok) \/ load_replay_config(s, ok) PROVE EngineInv'
  BY <1>2, LoadStep DEF load_config, load_replay_config
<1>3. CASE _idle_until_closed(s)
  <2>1. ~unit[s].open /\ Exit(s, "exit0") /\ UNCHANGED <<wall, job, fleet, stream>>
    BY <1>3 DEF _idle_until_closed
  <2> QED BY <1>1, <2>1, ExitStep
<1>4. CASE _send_fails(s)
  <2>1. Exit(s, "exit1") /\ UNCHANGED <<wall, job, fleet, stream>>
    BY <1>4 DEF _send_fails
  <2>2. "exit1" # "exit0"
    OBVIOUS
  <2> QED BY <1>1, <2>1, <2>2, ExitStep
<1>5. CASE _run_grid(s)
  <2>1. /\ SendTick(s) /\ Metrics /\ unit[s].pc = "up" /\ unit[s].tick <= wall
        /\ UNCHANGED <<wall, job, fleet>>
    BY <1>5 DEF _run_grid, Metrics
  <2> QED BY <2>1, TickStep
<1>6. CASE _run_backfill(s)
  <2>1. Metrics /\ job.mode # "grid" /\ job.mode # "cadence" /\ unit[s].pc = "up" /\ UNCHANGED <<wall, job, fleet>>
    BY <1>6 DEF _run_backfill, Metrics
  <2>2. CASE SendTick(s)
    BY <2>1, <2>2, TickStep
  <2>3. CASE Exit(s, "exit0") /\ UNCHANGED stream
    BY <1>1, <2>1, <2>3, ExitStep
  <2> QED BY <1>6, <2>2, <2>3 DEF _run_backfill
<1> QED BY <1>2, <1>3, <1>4, <1>5, <1>6, ConnectStep, RunStep, RateStep, CadenceStep DEF EngineStep

LEMMA EnginesBegin == GenInit => EngineInv
<1> SUFFICES ASSUME GenInit PROVE EngineInv
  OBVIOUS
<1>1. job \in Jobs /\ wall = 0 /\ unit = [s \in FleetSlots |-> Off] /\ stream = [s \in FleetSlots |-> <<>>]
  BY DEF GenInit
<1>2. fleet \in 1 .. MaxFleet
  BY GeneratorsAssumption DEF GenInit
<1>3. Off \in UnitRec /\ Off.pc = "off" /\ Blank(Off, <<>>)
  BY OffType DEF Off, Blank
<1>4. PICK v \in UnitRec : v = Off
  BY <1>3
<1>5. EngineTypes
  <2>1. <<>> \in Seq(PointRec)
    OBVIOUS
  <2> QED BY <1>1, <1>2, <1>4, <2>1 DEF EngineTypes
<1>6. ASSUME NEW s \in FleetSlots PROVE EngineFits(s, unit[s], stream[s])
  <2>1. EngineFits(s, v, <<>>)
    BY <1>1, <1>3, <1>4, BlankFits
  <2> QED BY <1>1, <1>4, <2>1
<1> QED BY <1>5, <1>6 DEF EngineInv

LEMMA EnginesStep == EngineInv /\ [GenNext]_GenVars => EngineInv'
<1> SUFFICES ASSUME EngineInv, [GenNext]_GenVars PROVE EngineInv'
  OBVIOUS
<1>1. CASE UNCHANGED GenVars
  <2>1. /\ UNCHANGED <<wall, job, fleet, unit, stream>> /\ wall \in Nat /\ wall <= wall'
        /\ wall' \in Nat
    BY <1>1 DEF GenVars, EngineInv, EngineTypes
  <2>2. EngineTypes'
    BY <2>1 DEF EngineInv, EngineTypes, FleetSlots
  <2>3. ASSUME NEW r \in FleetSlots PROVE EngineFits(r, unit[r], stream[r])'
    <3>1. PICK u : u = unit[r]
      OBVIOUS
    <3>2. PICK st \in Seq(PointRec) : st = stream[r]
      BY DEF EngineInv, EngineTypes
    <3>3. EngineFits(r, u, st)
      BY <3>1, <3>2 DEF EngineInv
    <3>4. EngineFits(r, u, st)'
      BY <2>1, <3>3, FitsLater
    <3> QED BY <2>1, <3>1, <3>2, <3>4
  <2> QED BY <2>2, <2>3 DEF EngineInv, FleetSlots
<1> QED BY <1>1, SecondStep, ScaleStep, EngineSteps, AgentSteps DEF GenNext

(* The engines' invariant.                                                 *)
THEOREM EngineInvariant == GenSpec => []EngineInv
BY EnginesBegin, EnginesStep, PTL DEF GenSpec

-----------------------------------------------------------------------------
(* What it gives.                                                          *)

LEMMA SweptCovers ==
    ASSUME EngineInv PROVE MatrixCovered
<1>1. /\ job \in Jobs /\ fleet \in 1 .. MaxFleet /\ unit \in [FleetSlots -> UnitRec]
      /\ stream \in [FleetSlots -> Seq(PointRec)] /\ job.series \in Nat
  BY JobsAssumption DEF EngineInv, EngineTypes
<1>2. SUFFICES ASSUME Metrics, \A s \in 0 .. fleet - 1 : unit[s].total = fleet,
                      NEW n \in 0 .. (MaxClock + Window.end) \div Step,
                      \A s \in 0 .. fleet - 1 : Through(s, n * Step),
                      NEW k \in 0 .. job.series - 1
               PROVE  Cardinality(UNION {{s} \X Sends(s, k, n * Step) : s \in 0 .. fleet - 1}) = 1
  BY DEF MatrixCovered
<1>3. Step \in Nat /\ n \in Int
  BY StepPositive
<1> DEFINE t == n * Step
<1>4. t \in Int /\ OnGrid(t)
  BY <1>3 DEF OnGrid
<1>5. \A s \in 0 .. fleet - 1 : s \in FleetSlots
  BY <1>1, GeneratorsAssumption DEF FleetSlots
<1>6. \A s \in 0 .. fleet - 1 : Swept(s, unit[s], stream[s])
  BY <1>2, <1>5 DEF EngineInv, EngineFits
<1>7. PICK o \in 0 .. fleet - 1 : o = k % fleet
  <2>1. fleet \in Nat \ {0} /\ k \in Nat
    BY <1>1, GeneratorsAssumption
  <2>2. k % fleet \in 0 .. fleet - 1
    BY <2>1, Division
  <2> QED BY <2>2
<1>8. k \in Shard(o, unit[o])
  BY <1>2, <1>7 DEF Shard
<1>9. unit[o].first <= t /\ t < unit[o].tick
  <2>1. Through(o, t)
    BY <1>2, <1>7
  <2>2. unit[o].pc # "idle"
    BY <1>6, <1>8 DEF Swept
  <2> QED BY <2>1, <2>2 DEF Through
<1>10. PICK i \in 1 .. Len(stream[o]) : stream[o][i].item = k /\ stream[o][i].time = t
  <2>1. Complete(o, unit[o], stream[o])
    BY <1>6 DEF Swept
  <2> QED BY <2>1, <1>4, <1>8, <1>9 DEF Complete
<1> HIDE DEF t
<1>11. ASSUME NEW s \in 0 .. fleet - 1, NEW j \in 1 .. Len(stream[s]),
              stream[s][j].item = k, stream[s][j].time = t
       PROVE  s = o /\ j = i
  <2>1. stream[s][j].item \in Shard(s, unit[s])
    BY <1>6 DEF Swept, OfShard
  <2>2. s = o
    BY <1>2, <1>7, <1>11, <2>1 DEF Shard
  <2>3. InOrderSent(stream[o])
    BY <1>6 DEF Swept
  <2>4. ~Earlier(stream[o][i], t, k)
    BY <1>4, <1>10 DEF Earlier
  <2>5. i \in Int /\ j \in Int /\ ~(i < j) /\ ~(j < i)
    BY <1>10, <1>11, <2>2, <2>3, <2>4 DEF InOrderSent, Earlier
  <2> QED BY <2>2, <2>5
<1>12. \A s \in 0 .. fleet - 1 : DOMAIN stream[s] = 1 .. Len(stream[s])
  BY <1>1, <1>5
<1>13. UNION {{s} \X Sends(s, k, t) : s \in 0 .. fleet - 1} = {<<o, i>>}
  BY <1>10, <1>11, <1>12 DEF Sends
<1>14. Cardinality({<<o, i>>}) = 1
  BY FS_Singleton
<1> QED BY <1>13, <1>14 DEF t

LEMMA StampsKept ==
    ASSUME EngineInv PROVE StampsInStep
<1>1. /\ job \in Jobs /\ wall \in Nat /\ stream \in [FleetSlots -> Seq(PointRec)]
      /\ job.mode \in {"grid", "backfill", "rate", "cadence"}
  BY JobsAssumption DEF EngineInv, EngineTypes
<1>2. ASSUME NEW s \in FleetSlots, NEW i \in DOMAIN stream[s]
      PROVE  /\ job.mode # "backfill" => stream[s][i].time <= wall
             /\ i > 1 =>
                  /\ stream[s][i - 1].time <= stream[s][i].time
                  /\ job.mode = "cadence" =>
                       /\ stream[s][i].item = i /\ stream[s][i - 1].item = i - 1
                       /\ Spaced(i, stream[s][i].time - stream[s][i - 1].time)
  <2>1. PICK st \in Seq(PointRec) : st = stream[s]
    BY <1>1
  <2>2. /\ i \in 1 .. Len(st) /\ (i > 1 => i - 1 \in 1 .. Len(st) /\ i \in 2 .. Len(st) /\ i - 1 < i)
    BY <2>1
  <2>3. \A j \in 1 .. Len(st) : st[j] \in PointRec
    OBVIOUS
  <2>4. \A j \in 1 .. Len(st) : st[j].time \in Int
    BY <2>3 DEF PointRec
  <2>5. EngineFits(s, unit[s], st)
    BY <2>1 DEF EngineInv
  <2>6. CASE Metrics
    <3>1. InOrderSent(st) /\ (job.mode = "grid" => st[i].time <= wall)
      BY <2>2, <2>5, <2>6 DEF EngineFits, Swept
    <3>2. i > 1 => st[i - 1].time <= st[i].time
      BY <2>2, <2>4, <3>1 DEF InOrderSent, Earlier
    <3> QED BY <2>1, <2>6, <3>1, <3>2 DEF Metrics
  <2>7. CASE job.mode = "rate"
    <3>1. st[i].time = NoTime /\ (i > 1 => st[i - 1].time = NoTime)
      BY <2>2, <2>5, <2>7 DEF EngineFits, Looped
    <3> QED BY <1>1, <2>1, <2>7, <3>1 DEF NoTime
  <2>8. CASE job.mode = "cadence"
    <3>1. Told(st)
      BY <2>5, <2>8 DEF EngineFits, Played
    <3> QED BY <2>1, <2>2, <2>8, <3>1 DEF Told
  <2> QED BY <1>1, <2>6, <2>7, <2>8 DEF Metrics
<1> QED BY <1>2 DEF StampsInStep, Spaced, When, Recording

LEMMA RecordingKept ==
    ASSUME EngineInv PROVE RecordingWhole
<1>1. /\ job \in Jobs /\ job.mode \in {"grid", "backfill", "rate", "cadence"}
      /\ stream \in [FleetSlots -> Seq(PointRec)]
  BY JobsAssumption DEF EngineInv, EngineTypes
<1>2. PICK n \in Nat : n = Len(Recording)
  BY <1>1, RecordingType
<1>3. ASSUME ~Metrics, NEW s \in FleetSlots
      PROVE  /\ \A i \in DOMAIN stream[s] : stream[s][i].item = ((i - 1) % n) + 1
             /\ job.mode = "cadence" => Len(stream[s]) <= n
             /\ job.mode = "cadence" /\ unit[s].pc = "exit0" /\ unit[s].open => Len(stream[s]) = n
  <2>1. PICK st \in Seq(PointRec) : st = stream[s]
    BY <1>1
  <2>2. DOMAIN st = 1 .. Len(st) /\ Len(st) \in Nat
    OBVIOUS
  <2>3. EngineFits(s, unit[s], st)
    BY <2>1 DEF EngineInv
  <2>4. CASE job.mode = "rate"
    BY <1>2, <2>1, <2>2, <2>3, <2>4 DEF EngineFits, Looped
  <2>5. CASE job.mode = "cadence"
    <3>1. Played(unit[s], st) /\ Told(st) /\ Len(st) <= n
      BY <1>2, <2>3, <2>5 DEF EngineFits, Played
    <3>2. ASSUME NEW i \in 1 .. Len(st) PROVE st[i].item = ((i - 1) % n) + 1
      <4>1. st[i].item = i
        BY <3>1 DEF Told
      <4>2. i - 1 \in 0 .. n - 1
        BY <2>2, <3>1
      <4>3. (i - 1) % n = i - 1
        BY <4>2
      <4> QED BY <4>1, <4>3
    <3> QED BY <1>2, <2>1, <2>2, <3>1, <3>2 DEF Played
  <2> QED BY <1>1, <1>3, <2>4, <2>5 DEF Metrics
<1> QED BY <1>2, <1>3 DEF RecordingWhole, Recording

(* What the engines send is whole and in step, for any fleet, matrix,      *)
(* window and recording: a tick that a fleet agreeing on its size has been *)
(* through has one point of every series, however late, replaced or scaled *)
(* its engines were; times follow the clock; a recording is played line by *)
(* line with the gaps it was recorded with (_run_grid, _run_backfill,      *)
(* _run_rate, _run_cadence).                                               *)
THEOREM StreamsAreWhole == GenSpec => []StreamsWhole
<1>1. EngineInv => StreamsWhole
  BY SweptCovers, StampsKept, RecordingKept DEF StreamsWhole
<1> QED BY <1>1, EngineInvariant, PTL
=============================================================================
