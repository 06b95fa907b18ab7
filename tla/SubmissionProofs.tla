--------------------------- MODULE SubmissionProofs -------------------------
(***************************************************************************)
(* The two halves of submitting a run.  First its launch and the           *)
(* reconciliation after it (module Launch), proved for any number of       *)
(* clients, runs, restarts and driver faults: the target's cap, what a     *)
(* boot leaves behind, and what its sweep may destroy.  Then the sizing of *)
(* its fleet (module FleetSizing), proved for any specs, ceilings, fleet   *)
(* sizes and rates: what the gates admit fits, and the counts of a stanza  *)
(* are dealt out exactly.                                                  *)
(***************************************************************************)
EXTENDS Launch, FleetSizing, SumTheorems

(***************************************************************************)
(* The inductive invariant.                                                *)
(***************************************************************************)

RowRec == [state : {"none", "preparing", "provisioning", "draining", "ended", "deleted"},
           ref : BOOLEAN, ended_at : {"unset", "recent", "past"}, gb : Nat, raced : BOOLEAN]

ReqRec == [pc : {"idle", "admitted", "secret", "job", "cleanup", "adopt", "commit", "failed"},
           run : Nat, gb : Nat, raced : BOOLEAN]

Seen == UNION {[D -> RowRec] : D \in SUBSET Runs}

BootRec == [pc : {"up", "load", "probe", "sweep", "live", "verify", "destroy"},
            seen : Seen, todo : SUBSET Runs, kinds : SUBSET Kinds, owned : SUBSET Runs,
            strays : SUBSET Runs]

LaunchTypes ==
    /\ row \in [Runs -> RowRec]
    /\ job \in [Runs -> {"none", "up", "idle"}]
    /\ secret \in [Runs -> {"none", "bare", "owned"}]
    /\ req \in [Clients -> ReqRec]
    /\ boot \in BootRec
    /\ trail \in [faulted : SUBSET Runs, crossed : SUBSET Runs, leaked : SUBSET Runs]

(* A run without a row has nothing at the driver and has not ended.        *)
Fresh ==
    \A r \in Runs : row[r].state = "none" =>
        job[r] = "none" /\ secret[r] = "none" /\ row[r].ended_at = "unset"

Launching(c) == req[c].pc \notin {"idle", "admitted"}

(* Where a submit is, and what it has left at the driver so far.           *)
RequestAt(c) ==
    LET q == req[c] IN
    IF ~Launching(c) THEN q.run = 0
    ELSE /\ q.run \in Runs /\ row[q.run].state # "none"
         /\ q.pc \in {"secret", "adopt", "cleanup"} => Fleet[q.run] = "k8s"
         /\ q.pc \in {"secret", "job"} => job[q.run] = "none"
         /\ q.pc \in {"failed", "cleanup"} /\ Present(q.run) => q.run \in trail.faulted
         /\ q.pc \in {"failed", "commit"} /\ secret[q.run] = "bare" => q.run \in trail.leaked

Requests == \A c \in Clients : RequestAt(c)

(* No two submits launch the same run.                                     *)
Distinct ==
    \A c, d \in Clients : Launching(c) /\ Launching(d) /\ req[c].run = req[d].run => c = d

Secrets ==
    \A r \in Runs :
        /\ secret[r] = "bare" /\ ~InFlight(r) => r \in trail.leaked
        /\ secret[r] = "owned" => Present(r)
        /\ Fleet[r] = "swarm" => secret[r] = "none"

(* A live run that once ended was brought back by its launch.              *)
Revived == \A r \in Runs : Live(r) /\ row[r].ended_at # "unset" => r \in trail.crossed

(* A workload nobody launches, wants or will reap, and nothing excuses.    *)
Loose(r) ==
    /\ Present(r) /\ ~InFlight(r) /\ r \notin trail.faulted \cup trail.crossed
    /\ ~(Live(r) /\ row[r].ref) /\ ~Reapable(r)

Sweeping == boot.pc \in {"sweep", "live", "verify", "destroy"}

(* Where the boot's sweep will meet it: a live one was loaded without a    *)
(* ref and will be failed, the others are of a driver still to be listed,  *)
(* listed, or held for stray.                                              *)
Met(r) ==
    /\ boot.pc # "up"
    /\ boot.pc # "load" /\ r \in DOMAIN boot.seen =>
           ~boot.seen[r].ref /\ (r \in boot.todo \/ boot.seen[r].state = "ended")
    /\ boot.pc = "probe" /\ Live(r) => r \in DOMAIN boot.seen
    /\ Sweeping =>
         /\ ~Live(r)
         /\ \/ Fleet[r] \in boot.kinds
            \/ boot.pc = "live" /\ r \in boot.owned
            \/ boot.pc \in {"verify", "destroy"} /\ r \in boot.strays

Settled(r) == row[r].state \in {"ended", "deleted"} \/ r \in trail.crossed

Booting ==
    /\ \A r \in Runs : Loose(r) => Met(r)
    /\ Sweeping => boot.todo = {}
    /\ boot.pc \in {"load", "probe"} => boot.kinds = Kinds
    /\ boot.pc = "destroy" => boot.strays # {}
    /\ \A r \in boot.owned : row[r].state # "none"
    /\ \A r \in boot.strays : Settled(r)

(* What a run holds of the target's cap when no race let it in.            *)
Weight(r) == IF Live(r) /\ ~row[r].raced THEN row[r].gb ELSE 0
Admitted == SumFunction([r \in Runs |-> Weight(r)])

Capacity ==
    /\ Admitted <= Cap
    /\ \A c \in Clients :
         req[c].pc = "admitted" /\ ~req[c].raced => Admitted + req[c].gb <= Cap

LaunchInv ==
    /\ LaunchTypes /\ Fresh /\ Requests /\ Distinct /\ Secrets /\ Revived /\ Booting
    /\ Capacity

-----------------------------------------------------------------------------
(* Facts about the operators.                                              *)

(* The least of some naturals is one of them.                              *)
LEMMA LeastMember ==
    ASSUME NEW T, T \subseteq Nat, T # {}
    PROVE  Min(T) \in T
BY LeastNat DEF Min

(* The run a submit takes has no row.                                      *)
LEMMA NextRunFresh ==
    ASSUME \E r \in Runs : row[r].state = "none"
    PROVE  NextRun \in Runs /\ row[NextRun].state = "none"
<1> DEFINE T == {r \in Runs : row[r].state = "none"}
<1>1. T \subseteq Nat /\ T # {}
  BY LaunchAssumption DEF Runs
<1>2. Min(T) \in T
  BY <1>1, LeastMember
<1> QED BY <1>2 DEF NextRun

(* The runs are numbered from one.                                         *)
LEMMA NoRunZero == Runs \subseteq Nat /\ 0 \notin Runs /\ IsFiniteSet(Runs)
<1>1. N \in Int
  BY LaunchAssumption
<1>2. IsFiniteSet(1 .. N)
  BY <1>1, FS_Interval
<1> QED BY <1>1, <1>2 DEF Runs

(* Ending a row.                                                           *)
LEMMA TerminalRow ==
    ASSUME NEW rec \in RowRec
    PROVE  /\ Terminal(rec) \in RowRec /\ Terminal(rec).state = "ended"
           /\ Terminal(rec).ref = rec.ref /\ Terminal(rec).gb = rec.gb
           /\ Terminal(rec).raced = rec.raced
           /\ Terminal(rec).ended_at = IF rec.ended_at = "unset" THEN "recent" ELSE rec.ended_at
BY DEF Terminal, RowRec

(* A fault is recorded, and nothing is taken off the record.               *)
LEMMA FaultTrail ==
    ASSUME LaunchTypes, NEW r \in Runs, Fault(r) \/ LeakFault(r)
    PROVE  /\ trail' \in [faulted : SUBSET Runs, crossed : SUBSET Runs, leaked : SUBSET Runs]
           /\ trail'.faulted = trail.faulted \cup {r} /\ trail'.crossed = trail.crossed
           /\ trail.leaked \subseteq trail'.leaked
           /\ LeakFault(r) => r \in trail'.leaked
<1>1. CASE Fault(r)
  BY <1>1, ZenonT(60) DEF Fault, LeakFault, LaunchTypes
<1>2. CASE LeakFault(r)
  BY <1>2 DEF Fault, LeakFault, LaunchTypes
<1> QED BY <1>1, <1>2

(* A workload that is gone takes along what it owned.                      *)
LEMMA GoneTypes ==
    ASSUME LaunchTypes, NEW r \in Runs, Gone(r)
    PROVE  /\ job' \in [Runs -> {"none", "up", "idle"}]
           /\ secret' \in [Runs -> {"none", "bare", "owned"}]
           /\ job'[r] = "none" /\ secret'[r] = (IF secret[r] = "owned" THEN "none" ELSE secret[r])
           /\ \A q \in Runs \ {r} : job'[q] = job[q] /\ secret'[q] = secret[q]
BY DEF Gone, LaunchTypes

-----------------------------------------------------------------------------
(* What the steps have in common.                                          *)

(* Only run r changes, and no fault, leak or crossing is forgotten.        *)
Others(r) ==
    /\ \A q \in Runs \ {r} :
         /\ row'[q] = row[q] /\ job'[q] = job[q] /\ secret'[q] = secret[q]
         /\ InFlight(q)' <=> InFlight(q)
    /\ trail.faulted \subseteq trail'.faulted /\ trail.crossed \subseteq trail'.crossed
    /\ trail.leaked \subseteq trail'.leaked

(* Run r does not become loose, and what is over stays over.               *)
NotLoosened(r) ==
    /\ row'[r].state # "none"
    /\ Loose(r)' => Loose(r) /\ (Live(r)' => Live(r))
    /\ Settled(r) => Settled(r)'

(* The secret and the row of run r after the step.                         *)
InOrder(r) ==
    /\ secret'[r] = "bare" /\ ~InFlight(r)' => r \in trail'.leaked
    /\ secret'[r] = "owned" => Present(r)'
    /\ Fleet[r] = "swarm" => secret'[r] = "none"
    /\ Live(r)' /\ row'[r].ended_at # "unset" => r \in trail'.crossed

(* A step that touches one run and not the boot.                           *)
LEMMA OneRun ==
    ASSUME LaunchInv, LaunchTypes', boot' = boot, NEW r \in Runs,
           Others(r), NotLoosened(r), InOrder(r)
    PROVE  Fresh' /\ Secrets' /\ Revived' /\ Booting'
<1>1. Fresh'
  BY DEF LaunchInv, Fresh, Others, NotLoosened
<1>2. Secrets'
  BY DEF LaunchInv, Secrets, Others, InOrder, Present
<1>3. Revived'
  BY DEF LaunchInv, Revived, Others, InOrder, Live
<1>4. \A q \in Runs : /\ Loose(q)' => Loose(q) /\ (Live(q)' => Live(q))
                      /\ Settled(q) => Settled(q)'
                      /\ row[q].state # "none" => row'[q].state # "none"
  <2> SUFFICES ASSUME NEW q \in Runs \ {r}
               PROVE  /\ Loose(q)' => Loose(q) /\ (Live(q)' => Live(q))
                      /\ Settled(q) => Settled(q)'
                      /\ row[q].state # "none" => row'[q].state # "none"
    BY DEF NotLoosened
  <2> QED BY DEF Others, Loose, Live, Present, Reapable, Settled
<1>5. Booting'
  <2>1. \A q \in Runs : Loose(q)' => Met(q)'
    <3> SUFFICES ASSUME NEW q \in Runs, Loose(q)' PROVE Met(q)'
      OBVIOUS
    <3>1. Met(q) /\ (Live(q)' => Live(q))
      BY <1>4 DEF LaunchInv, Booting
    <3> HIDE DEF LaunchInv
    <3> QED BY <3>1 DEF Met, Sweeping
  <2>2. boot.owned \subseteq Runs /\ boot.strays \subseteq Runs
    BY DEF LaunchInv, LaunchTypes, BootRec
  <2> QED BY <1>4, <2>1, <2>2 DEF LaunchInv, Booting, Sweeping
<1> QED BY <1>1, <1>2, <1>3, <1>5

(* A submit's place in the order, for a run that has one.                  *)
LEMMA AtRun ==
    ASSUME LaunchInv, NEW c \in Clients, Launching(c)
    PROVE  /\ req[c].run \in Runs /\ row[req[c].run].state # "none" /\ InFlight(req[c].run)
           /\ \A d \in Clients \ {c} : Launching(d) => req[d].run # req[c].run
BY DEF LaunchInv, Requests, RequestAt, Distinct, Launching, InFlight

(* Only submits that are launching have a run.                             *)
LEMMA FlightIsLaunch ==
    ASSUME Requests, NEW q \in Runs
    PROVE  InFlight(q) <=> \E c \in Clients : Launching(c) /\ req[c].run = q
BY NoRunZero DEF Requests, RequestAt, InFlight, Launching

(* A launching submit goes on to its next call.                            *)
LEMMA Moved ==
    ASSUME LaunchInv, NEW c \in Clients, Launching(c),
           NEW pc \in {"secret", "job", "cleanup", "adopt", "commit", "failed"},
           req' = [req EXCEPT ![c].pc = pc]
    PROVE  /\ req' \in [Clients -> ReqRec]
           /\ req'[c].pc = pc /\ req'[c].run = req[c].run
           /\ \A d \in Clients \ {c} : req'[d] = req[d]
           /\ \A q \in Runs : InFlight(q)' <=> InFlight(q)
           /\ Distinct'
           /\ \A d \in Clients : req'[d].pc = "admitted" => req'[d] = req[d]
<1>1. /\ req' \in [Clients -> ReqRec]
      /\ req'[c].pc = pc /\ req'[c].run = req[c].run
      /\ \A d \in Clients \ {c} : req'[d] = req[d]
  BY DEF LaunchInv, LaunchTypes, ReqRec
<1>2. \A d \in Clients : Launching(d)' = Launching(d) /\ req'[d].run = req[d].run
  BY <1>1 DEF Launching
<1>3. Distinct'
  BY <1>2 DEF LaunchInv, Distinct
<1>4. ASSUME NEW q \in Runs PROVE InFlight(q)' <=> InFlight(q)
  BY <1>1 DEF InFlight, Launching
<1> QED BY <1>1, <1>3, <1>4

(* A submit is answered.                                                   *)
LEMMA Answered ==
    ASSUME LaunchInv, NEW c \in Clients, req' = [req EXCEPT ![c] = Idle]
    PROVE  /\ req' \in [Clients -> ReqRec]
           /\ req'[c] = Idle
           /\ \A d \in Clients \ {c} : req'[d] = req[d]
           /\ \A q \in Runs : q # req[c].run => (InFlight(q)' <=> InFlight(q))
           /\ Distinct'
           /\ \A d \in Clients : req'[d].pc = "admitted" => req'[d] = req[d]
<1>0. Idle \in ReqRec /\ Idle.pc = "idle"
  BY DEF Idle, ReqRec
<1>1. /\ req' \in [Clients -> ReqRec]
      /\ req'[c] = Idle
      /\ \A d \in Clients \ {c} : req'[d] = req[d]
  BY <1>0 DEF LaunchInv, LaunchTypes
<1>3. Distinct'
  BY <1>0, <1>1 DEF LaunchInv, Distinct, Launching
<1>4. ASSUME NEW q \in Runs, q # req[c].run PROVE InFlight(q)' <=> InFlight(q)
  BY <1>0, <1>1, <1>4 DEF InFlight
<1>5. \A d \in Clients : req'[d].pc = "admitted" => req'[d] = req[d]
  BY <1>0, <1>1
<1> QED BY <1>1, <1>3, <1>4, <1>5

(* What the other submits rely on does not change when only run r does.    *)
LEMMA OtherRequests ==
    ASSUME LaunchInv, NEW c \in Clients, NEW r \in Runs, Others(r), NotLoosened(r),
           \A d \in Clients \ {c} : req'[d] = req[d],
           \A d \in Clients \ {c} : Launching(d) => req[d].run # r,
           RequestAt(c)'
    PROVE  Requests'
<1> SUFFICES ASSUME NEW d \in Clients \ {c} PROVE RequestAt(d)'
  BY DEF Requests
<1>1. RequestAt(d) /\ req'[d] = req[d]
  BY DEF LaunchInv, Requests
<1>2. CASE ~Launching(d)
  BY <1>1, <1>2 DEF RequestAt, Launching
<1>3. CASE Launching(d)
  <2>1. req[d].run \in Runs \ {r}
    BY <1>1, <1>3 DEF RequestAt
  <2> QED BY <1>1, <1>3, <2>1 DEF RequestAt, Launching, Others, Present
<1> QED BY <1>2, <1>3

(* The weights are natural numbers, and so is their sum.                   *)
LEMMA WeightsNatural ==
    LaunchTypes => [r \in Runs |-> Weight(r)] \in [Runs -> Nat] /\ Admitted \in Nat
<1> SUFFICES ASSUME LaunchTypes
             PROVE  [r \in Runs |-> Weight(r)] \in [Runs -> Nat] /\ Admitted \in Nat
  OBVIOUS
<1> DEFINE f == [r \in Runs |-> Weight(r)]
<1>1. f \in [Runs -> Nat]
  BY DEF Weight, LaunchTypes, RowRec
<1>2. SumFunction(f) \in Nat
  <2> HIDE DEF f
  <2> QED BY <1>1, NoRunZero, SumFunctionType
<1> QED BY <1>1, <1>2 DEF Admitted

(* The next state's weights are natural numbers too.                       *)
LEMMA NextWeights ==
    LaunchTypes' => ([r \in Runs |-> Weight(r)] \in [Runs -> Nat] /\ Admitted \in Nat)'
BY WeightsNatural, PTL

(* The cap holds as long as no weight grows and nobody is admitted.        *)
LEMMA CapacityKept ==
    ASSUME LaunchInv, LaunchTypes', \A r \in Runs : Weight(r)' <= Weight(r),
           \A d \in Clients : req'[d].pc = "admitted" => req'[d] = req[d]
    PROVE  Capacity'
<1> DEFINE f == [r \in Runs |-> Weight(r)]
           g == [r \in Runs |-> Weight(r)']
<1>1. f \in [Runs -> Nat] /\ Admitted \in Nat
  BY WeightsNatural DEF LaunchInv
<1>2. g \in [Runs -> Nat] /\ Admitted' \in Nat
  BY NextWeights
<1>3. Admitted = SumFunction(f) /\ Admitted' = SumFunction(g)
  BY DEF Admitted
<1>4. \A r \in Runs : g[r] <= f[r]
  OBVIOUS
<1>5. SumFunction(g) <= SumFunction(f)
  <2>1. f \in [Runs -> Int] /\ g \in [Runs -> Int]
    BY <1>1, <1>2
  <2> HIDE DEF f, g
  <2> QED BY <1>4, <2>1, NoRunZero, SumLeq
<1>6. Admitted' <= Admitted
  BY <1>3, <1>5
<1>7. Cap \in Nat /\ \A d \in Clients : req[d].gb \in Nat
  BY LaunchAssumption DEF LaunchInv, LaunchTypes, ReqRec
<1> QED BY <1>1, <1>2, <1>6, <1>7 DEF LaunchInv, Capacity


(* A step that touches no run.                                             *)
LEMMA NoRunTouched ==
    ASSUME LaunchInv, LaunchTypes', UNCHANGED <<row, job, secret, boot, trail>>,
           \A q \in Runs : InFlight(q)' <=> InFlight(q)
    PROVE  Fresh' /\ Secrets' /\ Revived' /\ Booting'
<1>1. Fresh' /\ Secrets' /\ Revived'
  BY DEF LaunchInv, Fresh, Secrets, Revived, Present, Live
<1>2. \A q \in Runs : (Loose(q)' <=> Loose(q)) /\ (Met(q)' <=> Met(q)) /\ (Settled(q)' <=> Settled(q))
  BY DEF Loose, Met, Settled, Present, Live, Reapable, Sweeping
<1>3. boot.owned \subseteq Runs /\ boot.strays \subseteq Runs
  BY DEF LaunchInv, LaunchTypes, BootRec
<1>4. Booting'
  BY <1>2, <1>3 DEF LaunchInv, Booting, Sweeping
<1> QED BY <1>1, <1>4

(* The active runs hold what the admitted ones do, and the raced ones'.    *)
LEMMA ActiveBound ==
    ASSUME LaunchTypes
    PROVE  /\ _active_gb_day_for_target \in Nat /\ Admitted <= _active_gb_day_for_target
           /\ (\A r \in Runs : Live(r) => ~row[r].raced) => Admitted = _active_gb_day_for_target
<1> DEFINE A == {q \in Runs : Live(q)}
           f == [r \in A |-> row[r].gb]
           g == [r \in Runs |-> IF Live(r) THEN row[r].gb ELSE 0]
           w == [r \in Runs |-> Weight(r)]
<1>1. A \subseteq Runs /\ f \in [A -> Int] /\ g \in [Runs -> Nat] /\ g \in [Runs -> Int]
      /\ w \in [Runs -> Nat] /\ w \in [Runs -> Int]
  BY DEF LaunchTypes, RowRec, Weight
<1>2. \A r \in Runs : g[r] = IF r \in A THEN f[r] ELSE 0
  OBVIOUS
<1>3. \A r \in Runs : w[r] <= g[r]
  BY DEF LaunchTypes, RowRec, Weight
<1>4. _active_gb_day_for_target = SumFunction(f) /\ Admitted = SumFunction(w)
  BY DEF _active_gb_day_for_target, Admitted
<1>5. ASSUME \A r \in Runs : Live(r) => ~row[r].raced PROVE w = g
  BY <1>5 DEF Weight
<1> HIDE DEF A, f, g, w
<1>6. SumFunction(f) = SumFunction(g)
  <2>1. IsFiniteSet(Runs) /\ A \subseteq Runs /\ f \in [A -> Int] /\ g \in [Runs -> Int]
    BY <1>1, NoRunZero
  <2>2. \A s \in Runs : g[s] = IF s \in A THEN f[s] ELSE 0
    BY <1>2
  <2> QED BY <2>1, <2>2, SumPad
<1>7. SumFunction(w) <= SumFunction(g)
  BY <1>1, <1>3, NoRunZero, SumLeq
<1>8. SumFunction(g) \in Nat
  BY <1>1, NoRunZero, SumFunctionType
<1> QED BY <1>4, <1>5, <1>6, <1>7, <1>8

-----------------------------------------------------------------------------
(* The steps of a submit.                                                  *)

(* The gate.                                                               *)
LEMMA RunSpecStep ==
    ASSUME LaunchInv, NEW c \in Clients, NEW gb \in Volumes, run_spec(c, gb)
    PROVE  LaunchInv'
<1> DEFINE q == [pc |-> "admitted", run |-> 0, gb |-> gb, raced |-> FALSE]
<1>1. q \in ReqRec /\ q.pc = "admitted" /\ q.run = 0 /\ q.gb = gb /\ gb \in Nat
  BY LaunchAssumption DEF ReqRec
<1>2. /\ req' = [req EXCEPT ![c] = q] /\ req \in [Clients -> ReqRec] /\ req[c].pc = "idle"
      /\ UNCHANGED <<row, job, secret, boot, used, trail>>
  BY DEF run_spec, LaunchInv, LaunchTypes
<1> HIDE DEF q
<1>3. /\ req' \in [Clients -> ReqRec] /\ req'[c] = q
      /\ \A d \in Clients \ {c} : req'[d] = req[d]
  BY <1>1, <1>2
<1>4. LaunchTypes'
  BY <1>2, <1>3 DEF LaunchInv, LaunchTypes
<1>5. ASSUME NEW r \in Runs PROVE InFlight(r)' <=> InFlight(r)
  BY <1>1, <1>2, <1>3, NoRunZero DEF InFlight
<1>6. Fresh' /\ Secrets' /\ Revived' /\ Booting'
  BY <1>2, <1>4, <1>5, NoRunTouched
<1>7. Requests' /\ Distinct'
  <2>1. \A d \in Clients \ {c} : RequestAt(d)'
    BY <1>2, <1>3 DEF LaunchInv, Requests, RequestAt, Launching, Present
  <2>2. ~Launching(c)' /\ RequestAt(c)'
    BY <1>1, <1>3 DEF RequestAt, Launching
  <2>3. Distinct'
    BY <1>3, <2>2 DEF LaunchInv, Distinct, Launching
  <2> QED BY <2>1, <2>2, <2>3 DEF Requests
<1>8. Capacity'
  <2>1. Admitted' = Admitted
    BY <1>2 DEF Admitted, Weight, Live
  <2>2. _active_gb_day_for_target + gb <= Cap
    BY DEF run_spec, _target_headroom_gb_day
  <2>3. Admitted \in Nat /\ _active_gb_day_for_target \in Nat
        /\ Admitted <= _active_gb_day_for_target /\ Cap \in Nat
    BY WeightsNatural, ActiveBound, LaunchAssumption DEF LaunchInv
  <2>4. Admitted + gb <= Cap
    BY <1>1, <2>2, <2>3
  <2> QED BY <1>1, <1>3, <2>1, <2>4 DEF LaunchInv, Capacity
<1> QED BY <1>4, <1>6, <1>7, <1>8 DEF LaunchInv

(* A submit refused before it has a row.                                   *)
LEMMA RefusedStep ==
    ASSUME LaunchInv, NEW c \in Clients, provision_refused(c)
    PROVE  LaunchInv'
<1>1. /\ req' = [req EXCEPT ![c] = Idle] /\ req[c].pc = "admitted"
      /\ UNCHANGED <<row, job, secret, boot, used, trail>>
  BY DEF provision_refused
<1>2. /\ req' \in [Clients -> ReqRec] /\ req'[c] = Idle
      /\ \A d \in Clients \ {c} : req'[d] = req[d]
      /\ \A q \in Runs : q # req[c].run => (InFlight(q)' <=> InFlight(q))
      /\ Distinct'
      /\ \A d \in Clients : req'[d].pc = "admitted" => req'[d] = req[d]
  BY <1>1, Answered
<1>3. LaunchTypes'
  BY <1>1, <1>2 DEF LaunchInv, LaunchTypes
<1>4. req[c].run \notin Runs
  BY <1>1, NoRunZero DEF LaunchInv, Requests, RequestAt, Launching
<1>5. Fresh' /\ Secrets' /\ Revived' /\ Booting'
  BY <1>1, <1>2, <1>3, <1>4, NoRunTouched
<1>6. Requests'
  <2>1. \A d \in Clients \ {c} : RequestAt(d)'
    BY <1>1, <1>2 DEF LaunchInv, Requests, RequestAt, Launching, Present
  <2>2. RequestAt(c)'
    BY <1>2 DEF RequestAt, Launching, Idle
  <2> QED BY <2>1, <2>2 DEF Requests
<1>7. Capacity'
  <2>1. \A r \in Runs : Weight(r)' = Weight(r) /\ Weight(r) \in Nat
    BY <1>1 DEF Weight, Live, LaunchInv, LaunchTypes, RowRec
  <2> QED BY <1>2, <1>3, <2>1, CapacityKept
<1> QED BY <1>2, <1>3, <1>5, <1>6, <1>7 DEF LaunchInv


(* The first commit of a submit: a run of its own.                         *)
LEMMA ProvisionStep ==
    ASSUME LaunchInv, NEW c \in Clients, provision_run(c)
    PROVE  LaunchInv'
<1>0. PICK r \in Runs : r = NextRun
  BY NextRunFresh DEF provision_run
<1> DEFINE rec == [NoRow EXCEPT !.state = "preparing", !.gb = req[c].gb, !.raced = req[c].raced]
           own == [req[c] EXCEPT !.run = r, !.pc = IF Fleet[r] = "k8s" THEN "secret" ELSE "job"]
<1>1. r \in Runs /\ row[r].state = "none" /\ r # 0 /\ r \in Nat /\ Fleet[r] \in Kinds
  BY <1>0, NextRunFresh, NoRunZero, LaunchAssumption DEF provision_run
<1>2. /\ row \in [Runs -> RowRec] /\ req \in [Clients -> ReqRec] /\ req[c].pc = "admitted"
      /\ row' = [row EXCEPT ![r] = rec]
      /\ req' = [d \in Clients |-> IF d = c THEN own
                                   ELSE [req[d] EXCEPT !.raced = @ \/ req[d].pc = "admitted"]]
      /\ UNCHANGED <<job, secret, boot, used, trail>>
  BY <1>0 DEF provision_run, LaunchInv, LaunchTypes
<1>3. /\ rec \in RowRec /\ rec.state = "preparing" /\ rec.ended_at = "unset"
      /\ rec.gb = req[c].gb /\ (req[c].raced => rec.raced) /\ (rec.raced => req[c].raced)
  BY <1>2 DEF RowRec, ReqRec, NoRow
<1>4. /\ own \in ReqRec /\ own.run = r /\ own.pc \in {"secret", "job"}
      /\ own.pc = "secret" => Fleet[r] = "k8s"
  BY <1>1, <1>2 DEF ReqRec
<1>5. ASSUME NEW d \in Clients \ {c}
      PROVE  /\ req'[d] \in ReqRec /\ req'[d].pc = req[d].pc /\ req'[d].run = req[d].run
             /\ req[d].pc = "admitted" => req'[d].raced
  BY <1>2 DEF ReqRec
<1>6. req'[c] = own
  BY <1>2
<1>7. row'[r] = rec /\ \A q \in Runs \ {r} : row'[q] = row[q]
  BY <1>1, <1>2
<1> HIDE DEF rec, own
<1>8. row' \in [Runs -> RowRec] /\ req' \in [Clients -> ReqRec]
  <2>1. row' \in [Runs -> RowRec]
    BY <1>1, <1>2, <1>3
  <2>2. \A d \in Clients : req'[d] \in ReqRec
    BY <1>4, <1>5, <1>6
  <2> QED BY <1>2, <2>1, <2>2
<1>9. LaunchTypes'
  BY <1>2, <1>8 DEF LaunchInv, LaunchTypes
<1>10. job[r] = "none" /\ secret[r] = "none"
  BY <1>1 DEF LaunchInv, Fresh
<1>11. /\ \A d \in Clients \ {c} : (Launching(d)' <=> Launching(d)) /\ RequestAt(d)
       /\ \A d \in Clients : Launching(d) => req[d].run # r
       /\ Launching(c)' /\ ~Launching(c)
  BY <1>1, <1>2, <1>4, <1>5, <1>6, ZenonT(60) DEF Launching, LaunchInv, Requests, RequestAt
<1>12. Fresh' /\ Secrets' /\ Revived' /\ Booting'
  <2>1. ASSUME NEW q \in Runs \ {r} PROVE InFlight(q)' <=> InFlight(q)
    <3>1. req[c].run # q /\ req'[c].run # q
      BY <1>2, <1>4, <1>6, <2>1, NoRunZero DEF LaunchInv, Requests, RequestAt, Launching
    <3> QED BY <1>5, <1>6, <3>1 DEF InFlight
  <2>2. Others(r)
    BY <1>2, <1>7, <2>1 DEF Others
  <2>3. NotLoosened(r)
    <3>1. ~Loose(r)'
      BY <1>2, <1>10 DEF Loose, Present
    <3>2. Settled(r) => Settled(r)'
      BY <1>1, <1>2 DEF Settled
    <3>3. row'[r].state # "none"
      BY <1>3, <1>7
    <3> QED BY <3>1, <3>2, <3>3 DEF NotLoosened
  <2>4. InOrder(r)
    BY <1>2, <1>3, <1>7, <1>10 DEF InOrder
  <2> QED BY <1>1, <1>2, <1>9, <2>2, <2>3, <2>4, OneRun
<1>13. Requests' /\ Distinct'
  <2>1. RequestAt(c)'
    BY <1>1, <1>2, <1>3, <1>4, <1>6, <1>7, <1>10 DEF RequestAt, Launching
  <2>2. ASSUME NEW d \in Clients \ {c} PROVE RequestAt(d)'
    <3>1. CASE ~Launching(d)
      BY <1>5, <1>11, <3>1 DEF RequestAt, Launching
    <3>2. CASE Launching(d)
      <4>1. req[d].run \in Runs \ {r} /\ row'[req[d].run] = row[req[d].run]
        BY <1>7, <1>11, <3>2 DEF RequestAt
      <4>2. RequestAt(d) /\ req'[d].pc = req[d].pc /\ req'[d].run = req[d].run
        BY <1>5, <1>11
      <4> QED BY <1>2, <3>2, <4>1, <4>2 DEF RequestAt, Launching, Present
    <3> QED BY <3>1, <3>2
  <2>3. Distinct'
    BY <1>4, <1>5, <1>6, <1>11 DEF LaunchInv, Distinct
  <2> QED BY <2>1, <2>2, <2>3 DEF Requests
<1>14. Capacity'
  <2> DEFINE f == [q \in Runs |-> Weight(q)]
             g == [q \in Runs |-> Weight(q)']
  <2>1. /\ f \in [Runs -> Nat] /\ Admitted \in Nat /\ g \in [Runs -> Nat] /\ Admitted' \in Nat
        /\ f \in [Runs -> Int] /\ g \in [Runs -> Int]
    BY <1>9, WeightsNatural, NextWeights DEF LaunchInv
  <2>2. Admitted = SumFunction(f) /\ Admitted' = SumFunction(g)
    BY DEF Admitted
  <2>3. \A q \in Runs \ {r} : g[q] = f[q]
    BY <1>7 DEF Weight, Live
  <2>4. f[r] = 0 /\ g[r] = IF req[c].raced THEN 0 ELSE req[c].gb
    BY <1>1, <1>3, <1>7 DEF Weight, Live, Active
  <2> HIDE DEF f, g
  <2>5. SumFunction(g) = SumFunction(f) - f[r] + g[r]
    <3>1. IsFiniteSet(Runs) /\ f \in [Runs -> Int] /\ g \in [Runs -> Int] /\ r \in Runs
      BY <1>1, <2>1, NoRunZero
    <3>2. \A y \in Runs \ {r} : g[y] = f[y]
      BY <2>3
    <3> QED BY <3>1, <3>2, SumUpdate
  <2>6. Admitted' <= Cap
    <3>1. req[c].gb \in Nat /\ Cap \in Nat
      BY <1>2, LaunchAssumption DEF ReqRec
    <3>2. Admitted <= Cap /\ (~req[c].raced => Admitted + req[c].gb <= Cap)
      BY <1>2 DEF LaunchInv, Capacity
    <3> QED BY <2>1, <2>2, <2>4, <2>5, <3>1, <3>2
  <2>7. ASSUME NEW d \in Clients, req'[d].pc = "admitted" PROVE req'[d].raced
    BY <1>4, <1>5, <1>6, <2>7
  <2> QED BY <2>6, <2>7 DEF Capacity
<1> QED BY <1>9, <1>12, <1>13, <1>14 DEF LaunchInv

(* A driver call: the workload or the secret of one run, and the record.   *)
LEMMA DriverCall ==
    ASSUME LaunchInv, NEW c \in Clients, Launching(c), NEW r \in Runs, r = req[c].run,
           NEW pc \in {"secret", "job", "cleanup", "adopt", "commit", "failed"},
           req' = [req EXCEPT ![c].pc = pc], UNCHANGED <<row, boot>>,
           job' \in [Runs -> {"none", "up", "idle"}],
           secret' \in [Runs -> {"none", "bare", "owned"}],
           trail' \in [faulted : SUBSET Runs, crossed : SUBSET Runs, leaked : SUBSET Runs],
           \A q \in Runs \ {r} : job'[q] = job[q] /\ secret'[q] = secret[q],
           trail.faulted \subseteq trail'.faulted, trail.crossed \subseteq trail'.crossed,
           trail.leaked \subseteq trail'.leaked,
           secret'[r] = "owned" => job'[r] # "none",
           Fleet[r] = "swarm" => secret'[r] = "none",
           pc \in {"secret", "adopt", "cleanup"} => Fleet[r] = "k8s",
           pc \in {"secret", "job"} => job'[r] = "none",
           pc \in {"failed", "cleanup"} /\ job'[r] # "none" => r \in trail'.faulted,
           pc \in {"failed", "commit"} /\ secret'[r] = "bare" => r \in trail'.leaked
    PROVE  LaunchInv'
<1>1. /\ row[r].state # "none" /\ InFlight(r)
      /\ \A d \in Clients \ {c} : Launching(d) => req[d].run # r
  BY AtRun
<1>2. /\ req' \in [Clients -> ReqRec] /\ req'[c].pc = pc /\ req'[c].run = r
      /\ \A d \in Clients \ {c} : req'[d] = req[d]
      /\ \A q \in Runs : InFlight(q)' <=> InFlight(q)
      /\ Distinct'
      /\ \A d \in Clients : req'[d].pc = "admitted" => req'[d] = req[d]
  BY Moved
<1>3. LaunchTypes'
  BY <1>2 DEF LaunchInv, LaunchTypes
<1>4. Others(r)
  BY <1>2 DEF Others
<1>5. NotLoosened(r)
  <2>1. ~Loose(r)'
    BY <1>1, <1>2 DEF Loose
  <2>2. Settled(r) => Settled(r)'
    BY DEF Settled
  <2> QED BY <1>1, <2>1, <2>2 DEF NotLoosened
<1>6. InOrder(r)
  <2>1. InFlight(r)'
    BY <1>1, <1>2
  <2>2. Live(r)' /\ row'[r].ended_at # "unset" => r \in trail'.crossed
    BY DEF LaunchInv, Revived, Live
  <2> QED BY <2>1, <2>2 DEF InOrder, Present
<1>7. Fresh' /\ Secrets' /\ Revived' /\ Booting'
  BY <1>3, <1>4, <1>5, <1>6, OneRun
<1>8. Requests'
  <2>1. RequestAt(c)'
    BY <1>1, <1>2 DEF RequestAt, Launching, Present
  <2> QED BY <1>1, <1>2, <1>4, <1>5, <2>1, OtherRequests
<1>9. Capacity'
  <2>1. \A q \in Runs : Weight(q)' = Weight(q) /\ Weight(q) \in Nat
    BY DEF Weight, Live, LaunchInv, LaunchTypes, RowRec
  <2> QED BY <1>2, <1>3, <2>1, CapacityKept
<1> QED BY <1>2, <1>3, <1>7, <1>8, <1>9 DEF LaunchInv

(* The token Secret.                                                       *)
LEMMA CreateSecretStep ==
    ASSUME LaunchInv, NEW c \in Clients, create_secret(c)
    PROVE  LaunchInv'
<1>1. Launching(c) /\ req[c].pc = "secret" /\ UNCHANGED <<row, job, boot>>
  BY DEF create_secret, Launching
<1>2. PICK r \in Runs : r = req[c].run
  BY <1>1, AtRun
<1>3. Fleet[r] = "k8s" /\ job[r] = "none"
  BY <1>1, <1>2 DEF LaunchInv, Requests, RequestAt
<1>4. /\ job \in [Runs -> {"none", "up", "idle"}]
      /\ secret \in [Runs -> {"none", "bare", "owned"}]
      /\ trail \in [faulted : SUBSET Runs, crossed : SUBSET Runs, leaked : SUBSET Runs]
      /\ secret[r] = "owned" => job[r] # "none"
  BY DEF LaunchInv, LaunchTypes, Secrets, Present
<1>5. CASE /\ secret' = [secret EXCEPT ![r] = "bare"]
           /\ req' = [req EXCEPT ![c].pc = "job"] /\ UNCHANGED <<used, trail>>
  BY <1>1, <1>2, <1>3, <1>4, <1>5, DriverCall
<1>6. CASE /\ LeakFault(r) /\ secret' \in {secret, [secret EXCEPT ![r] = "bare"]}
           /\ req' = [req EXCEPT ![c].pc = "failed"]
  <2>1. /\ trail' \in [faulted : SUBSET Runs, crossed : SUBSET Runs, leaked : SUBSET Runs]
        /\ trail.faulted \subseteq trail'.faulted /\ trail.crossed \subseteq trail'.crossed
        /\ trail.leaked \subseteq trail'.leaked /\ r \in trail'.leaked
    BY <1>6, FaultTrail DEF LaunchInv
  <2>2. /\ secret' \in [Runs -> {"none", "bare", "owned"}] /\ secret'[r] \in {"bare", secret[r]}
        /\ \A q \in Runs \ {r} : secret'[q] = secret[q]
    BY <1>4, <1>6
  <2>3. Fleet[r] # "swarm"
    BY <1>3
  <2>4. /\ job' \in [Runs -> {"none", "up", "idle"}] /\ job'[r] = "none"
        /\ \A q \in Runs \ {r} : job'[q] = job[q] /\ secret'[q] = secret[q]
        /\ secret'[r] # "owned"
    BY <1>1, <1>3, <1>4, <2>2
  <2>5. /\ "failed" \in {"secret", "job", "cleanup", "adopt", "commit", "failed"}
        /\ "failed" \notin {"secret", "adopt", "cleanup"} /\ "failed" \notin {"secret", "job"}
    OBVIOUS
  <2>6. Launching(c) /\ r = req[c].run /\ req' = [req EXCEPT ![c].pc = "failed"] /\ UNCHANGED <<row, boot>>
    BY <1>1, <1>2, <1>6
  <2> QED BY <2>1, <2>2, <2>3, <2>4, <2>5, <2>6, DriverCall
<1> QED BY <1>2, <1>5, <1>6 DEF create_secret

(* The Job or the service.                                                 *)
LEMMA CreateWorkloadStep ==
    ASSUME LaunchInv, NEW c \in Clients, create_workload(c)
    PROVE  LaunchInv'
<1>1. Launching(c) /\ req[c].pc = "job" /\ UNCHANGED <<row, secret, boot>>
  BY DEF create_workload, Launching
<1>2. PICK r \in Runs : r = req[c].run
  BY <1>1, AtRun
<1>3. /\ job \in [Runs -> {"none", "up", "idle"}]
      /\ secret \in [Runs -> {"none", "bare", "owned"}]
      /\ trail \in [faulted : SUBSET Runs, crossed : SUBSET Runs, leaked : SUBSET Runs]
      /\ job[r] = "none" /\ secret[r] # "owned"
      /\ Fleet[r] # "k8s" => secret[r] = "none"
  BY <1>1, <1>2, LaunchAssumption
     DEF LaunchInv, LaunchTypes, Secrets, Present, Requests, RequestAt, Launching, Kinds
<1>4. CASE /\ job' = [job EXCEPT ![r] = "up"]
           /\ req' = [req EXCEPT ![c].pc = IF Fleet[r] = "k8s" THEN "adopt" ELSE "commit"]
           /\ UNCHANGED <<used, trail>>
  <2> DEFINE pc == IF Fleet[r] = "k8s" THEN "adopt" ELSE "commit"
  <2>1. /\ pc \in {"secret", "job", "cleanup", "adopt", "commit", "failed"}
        /\ req' = [req EXCEPT ![c].pc = pc]
        /\ job' \in [Runs -> {"none", "up", "idle"}] /\ job'[r] = "up"
        /\ \A q \in Runs \ {r} : job'[q] = job[q]
        /\ pc \in {"adopt", "commit"} /\ (pc = "adopt" => Fleet[r] = "k8s")
        /\ pc = "commit" => secret[r] = "none"
        /\ Fleet[r] = "swarm" => secret[r] = "none"
    BY <1>3, <1>4
  <2> HIDE DEF pc
  <2> QED BY <1>1, <1>2, <1>3, <1>4, <2>1, DriverCall
<1>5. CASE /\ Fault(r) /\ job' \in {job, [job EXCEPT ![r] = "up"]}
           /\ req' = [req EXCEPT ![c].pc = IF Fleet[r] = "k8s" THEN "cleanup" ELSE "failed"]
  <2> DEFINE pc == IF Fleet[r] = "k8s" THEN "cleanup" ELSE "failed"
  <2>1. /\ pc \in {"secret", "job", "cleanup", "adopt", "commit", "failed"}
        /\ req' = [req EXCEPT ![c].pc = pc]
        /\ job' \in [Runs -> {"none", "up", "idle"}]
        /\ \A q \in Runs \ {r} : job'[q] = job[q]
        /\ pc \in {"cleanup", "failed"} /\ (pc = "cleanup" => Fleet[r] = "k8s")
        /\ pc = "failed" => secret[r] = "none"
        /\ Fleet[r] = "swarm" => secret[r] = "none"
    BY <1>3, <1>5
  <2>2. /\ trail' \in [faulted : SUBSET Runs, crossed : SUBSET Runs, leaked : SUBSET Runs]
        /\ trail.faulted \subseteq trail'.faulted /\ trail.crossed \subseteq trail'.crossed
        /\ trail.leaked \subseteq trail'.leaked /\ r \in trail'.faulted
    BY <1>5, FaultTrail DEF LaunchInv
  <2> HIDE DEF pc
  <2> QED BY <1>1, <1>2, <1>3, <2>1, <2>2, DriverCall
<1> QED BY <1>2, <1>4, <1>5 DEF create_workload

(* The Secret of a Job that could not be created.                          *)
LEMMA CleanupStep ==
    ASSUME LaunchInv, NEW c \in Clients, _delete_secret_quietly(c)
    PROVE  LaunchInv'
<1>1. /\ Launching(c) /\ req[c].pc = "cleanup" /\ UNCHANGED <<row, job, boot>>
      /\ req' = [req EXCEPT ![c].pc = "failed"]
  BY DEF _delete_secret_quietly, Launching
<1>2. PICK r \in Runs : r = req[c].run
  BY <1>1, AtRun
<1>3. /\ job \in [Runs -> {"none", "up", "idle"}]
      /\ secret \in [Runs -> {"none", "bare", "owned"}]
      /\ trail \in [faulted : SUBSET Runs, crossed : SUBSET Runs, leaked : SUBSET Runs]
      /\ job[r] # "none" => r \in trail.faulted
      /\ secret[r] = "owned" => job[r] # "none"
      /\ Fleet[r] # "swarm"
  BY <1>1, <1>2 DEF LaunchInv, LaunchTypes, Secrets, Present, Requests, RequestAt, Launching
<1>4. CASE secret' = [secret EXCEPT ![r] = "none"] /\ UNCHANGED <<used, trail>>
  BY <1>1, <1>2, <1>3, <1>4, DriverCall
<1>5. CASE LeakFault(r) /\ UNCHANGED secret
  <2>1. /\ trail' \in [faulted : SUBSET Runs, crossed : SUBSET Runs, leaked : SUBSET Runs]
        /\ trail.faulted \subseteq trail'.faulted /\ trail.crossed \subseteq trail'.crossed
        /\ trail.leaked \subseteq trail'.leaked /\ r \in trail'.leaked
    BY <1>5, FaultTrail DEF LaunchInv
  <2> QED BY <1>1, <1>2, <1>3, <1>5, <2>1, DriverCall
<1> QED BY <1>2, <1>4, <1>5 DEF _delete_secret_quietly

(* The owner reference.                                                    *)
LEMMA AdoptStep ==
    ASSUME LaunchInv, NEW c \in Clients, _adopt_secret(c)
    PROVE  LaunchInv'
<1>1. /\ Launching(c) /\ req[c].pc = "adopt" /\ UNCHANGED <<row, job, boot>>
      /\ req' = [req EXCEPT ![c].pc = "commit"]
  BY DEF _adopt_secret, Launching
<1>2. PICK r \in Runs : r = req[c].run
  BY <1>1, AtRun
<1>3. /\ job \in [Runs -> {"none", "up", "idle"}]
      /\ secret \in [Runs -> {"none", "bare", "owned"}]
      /\ trail \in [faulted : SUBSET Runs, crossed : SUBSET Runs, leaked : SUBSET Runs]
      /\ secret[r] = "owned" => job[r] # "none"
      /\ Fleet[r] # "swarm"
  BY <1>1, <1>2 DEF LaunchInv, LaunchTypes, Secrets, Present, Requests, RequestAt, Launching
<1>4. CASE /\ secret' = [secret EXCEPT ![r] = IF Present(r) THEN "owned" ELSE "none"]
           /\ UNCHANGED <<used, trail>>
  <2>1. /\ secret' \in [Runs -> {"none", "bare", "owned"}]
        /\ secret'[r] # "bare" /\ (secret'[r] = "owned" => job[r] # "none")
        /\ \A q \in Runs \ {r} : secret'[q] = secret[q]
        /\ trail' = trail
    BY <1>3, <1>4 DEF Present
  <2> QED BY <1>1, <1>2, <1>3, <2>1, DriverCall
<1>5. CASE LeakFault(r) /\ UNCHANGED secret
  <2>1. /\ trail' \in [faulted : SUBSET Runs, crossed : SUBSET Runs, leaked : SUBSET Runs]
        /\ trail.faulted \subseteq trail'.faulted /\ trail.crossed \subseteq trail'.crossed
        /\ trail.leaked \subseteq trail'.leaked /\ r \in trail'.leaked
    BY <1>5, FaultTrail DEF LaunchInv
  <2> QED BY <1>1, <1>2, <1>3, <1>5, <2>1, DriverCall
<1> QED BY <1>2, <1>4, <1>5 DEF _adopt_secret

(* The last commit of a submit.                                            *)
LEMMA LastCommit ==
    ASSUME LaunchInv, NEW c \in Clients, Launching(c), NEW r \in Runs, r = req[c].run,
           req' = [req EXCEPT ![c] = Idle], UNCHANGED <<job, secret, boot>>,
           row' \in [Runs -> RowRec], \A q \in Runs \ {r} : row'[q] = row[q],
           trail' \in [faulted : SUBSET Runs, crossed : SUBSET Runs, leaked : SUBSET Runs],
           trail.faulted \subseteq trail'.faulted, trail.crossed \subseteq trail'.crossed,
           trail.leaked \subseteq trail'.leaked,
           row'[r].state # "none", ~Loose(r)', Settled(r) => Settled(r)',
           secret[r] = "bare" => r \in trail'.leaked,
           Live(r)' /\ row'[r].ended_at # "unset" => r \in trail'.crossed,
           Weight(r)' <= Weight(r)
    PROVE  LaunchInv'
<1>1. \A d \in Clients \ {c} : Launching(d) => req[d].run # r
  BY AtRun
<1>2. /\ req' \in [Clients -> ReqRec] /\ req'[c] = Idle
      /\ \A d \in Clients \ {c} : req'[d] = req[d]
      /\ \A q \in Runs : q # r => (InFlight(q)' <=> InFlight(q))
      /\ Distinct'
      /\ \A d \in Clients : req'[d].pc = "admitted" => req'[d] = req[d]
  BY Answered
<1>3. LaunchTypes'
  BY <1>2 DEF LaunchInv, LaunchTypes
<1>4. Others(r)
  BY <1>2 DEF Others
<1>5. NotLoosened(r)
  BY DEF NotLoosened
<1>6. InOrder(r)
  <2>1. (secret[r] = "owned" => Present(r)) /\ (Fleet[r] = "swarm" => secret[r] = "none")
    BY DEF LaunchInv, Secrets
  <2> QED BY <2>1 DEF InOrder, Present
<1>7. Fresh' /\ Secrets' /\ Revived' /\ Booting'
  BY <1>3, <1>4, <1>5, <1>6, OneRun
<1>8. Requests'
  <2>1. RequestAt(c)'
    BY <1>2 DEF RequestAt, Launching, Idle
  <2> QED BY <1>1, <1>2, <1>4, <1>5, <2>1, OtherRequests
<1>9. Capacity'
  <2>1. ASSUME NEW q \in Runs PROVE Weight(q)' <= Weight(q)
    <3>1. CASE q = r
      BY <3>1
    <3>2. CASE q # r
      <4>1. Weight(q)' = Weight(q) /\ Weight(q) \in Nat
        BY <3>2 DEF Weight, Live, LaunchInv, LaunchTypes, RowRec
      <4> QED BY <4>1
    <3> QED BY <3>1, <3>2
  <2> QED BY <1>2, <1>3, <2>1, CapacityKept
<1> QED BY <1>2, <1>3, <1>7, <1>8, <1>9 DEF LaunchInv

(* The launch is committed.                                                *)
LEMMA CommitLaunchStep ==
    ASSUME LaunchInv, NEW c \in Clients, commit_launch(c)
    PROVE  LaunchInv'
<1>1. /\ Launching(c) /\ req[c].pc = "commit" /\ UNCHANGED <<job, secret, boot>>
      /\ req' = [req EXCEPT ![c] = Idle]
  BY DEF commit_launch, Launching
<1>2. PICK r \in Runs : r = req[c].run
  BY <1>1, AtRun
<1>3. /\ row \in [Runs -> RowRec] /\ row[r].state # "none"
      /\ trail \in [faulted : SUBSET Runs, crossed : SUBSET Runs, leaked : SUBSET Runs]
      /\ secret[r] = "bare" => r \in trail.leaked
      /\ Live(r) /\ row[r].ended_at # "unset" => r \in trail.crossed
  BY <1>1, <1>2 DEF LaunchInv, LaunchTypes, Requests, RequestAt, Launching, Revived
<1>4. /\ row' = IF row[r].state = "deleted" THEN row
                ELSE [row EXCEPT ![r].state = "provisioning", ![r].ref = TRUE,
                                 ![r].raced = @ \/ ~Live(r)]
      /\ trail' = IF Live(r) THEN trail ELSE [trail EXCEPT !.crossed = @ \cup {r}]
  BY <1>2 DEF commit_launch
<1>5. /\ trail' \in [faulted : SUBSET Runs, crossed : SUBSET Runs, leaked : SUBSET Runs]
      /\ trail.faulted \subseteq trail'.faulted /\ trail.crossed \subseteq trail'.crossed
      /\ trail.leaked \subseteq trail'.leaked
      /\ ~Live(r) => r \in trail'.crossed
  BY <1>3, <1>4
<1>6. CASE row[r].state = "deleted"
  <2>1. row' = row /\ ~Live(r) /\ ~Live(r)'
    BY <1>4, <1>6 DEF Live, Active
  <2>2. ~Loose(r)' /\ (Settled(r) => Settled(r)')
    BY <1>5, <2>1 DEF Loose, Settled
  <2>3. Weight(r)' <= Weight(r)
    BY <2>1 DEF Weight
  <2> QED BY <1>1, <1>2, <1>3, <1>5, <2>1, <2>2, <2>3, LastCommit
<1>7. CASE row[r].state # "deleted"
  <2>1. /\ row' \in [Runs -> RowRec] /\ row'[r].state = "provisioning" /\ row'[r].ref
        /\ row'[r].gb = row[r].gb /\ row'[r].ended_at = row[r].ended_at
        /\ row[r].raced => row'[r].raced
        /\ ~Live(r) => row'[r].raced
        /\ \A q \in Runs \ {r} : row'[q] = row[q]
    <3>1. PICK o \in RowRec : o = row[r]
      BY <1>3
    <3>2. PICK n : n = [o EXCEPT !.state = "provisioning", !.ref = TRUE, !.raced = @ \/ ~Live(r)]
      OBVIOUS
    <3>3. row' = [row EXCEPT ![r] = n]
      BY <1>3, <1>4, <1>7, <3>1, <3>2
    <3>4. /\ n \in RowRec /\ n.state = "provisioning" /\ n.ref
          /\ n.gb = o.gb /\ n.ended_at = o.ended_at
          /\ o.raced => n.raced
          /\ ~Live(r) => n.raced
      BY <3>1, <3>2 DEF RowRec
    <3>5. row' \in [Runs -> RowRec] /\ row'[r] = n /\ \A q \in Runs \ {r} : row'[q] = row[q]
      BY <1>3, <3>3, <3>4
    <3> QED BY <3>1, <3>4, <3>5
  <2>2. ~Loose(r)'
    BY <2>1 DEF Loose, Live, Active
  <2>3. Settled(r) => Settled(r)'
    BY <1>5 DEF Settled, Live, Active
  <2>4. Weight(r)' <= Weight(r)
    <3>1. row[r].gb \in Nat
      BY <1>3 DEF RowRec
    <3> QED BY <2>1, <3>1 DEF Weight
  <2>5. Live(r)' /\ row'[r].ended_at # "unset" => r \in trail'.crossed
    BY <1>3, <1>5, <2>1
  <2> QED BY <1>1, <1>2, <1>3, <1>5, <2>1, <2>2, <2>3, <2>4, <2>5, LastCommit
<1> QED BY <1>6, <1>7

(* The failed launch is committed.                                         *)
LEMMA CommitFailureStep ==
    ASSUME LaunchInv, NEW c \in Clients, commit_failure(c)
    PROVE  LaunchInv'
<1>1. /\ Launching(c) /\ req[c].pc = "failed" /\ UNCHANGED <<job, secret, boot, trail>>
      /\ req' = [req EXCEPT ![c] = Idle]
  BY DEF commit_failure, Launching
<1>2. PICK r \in Runs : r = req[c].run
  BY <1>1, AtRun
<1>3. /\ row \in [Runs -> RowRec] /\ row[r].state # "none" /\ row[r] \in RowRec
      /\ trail \in [faulted : SUBSET Runs, crossed : SUBSET Runs, leaked : SUBSET Runs]
      /\ secret[r] = "bare" => r \in trail.leaked
      /\ Present(r) => r \in trail.faulted
  BY <1>1, <1>2 DEF LaunchInv, LaunchTypes, Requests, RequestAt, Launching
<1>4. row' = IF row[r].state = "deleted" THEN row ELSE [row EXCEPT ![r] = Terminal(row[r])]
  BY <1>2 DEF commit_failure
<1>5. /\ row' \in [Runs -> RowRec] /\ row'[r].state \in {"ended", "deleted"}
      /\ \A q \in Runs \ {r} : row'[q] = row[q]
  BY <1>3, <1>4, TerminalRow
<1>6. ~Loose(r)'
  BY <1>1, <1>3 DEF Loose, Present
<1>7. ~Live(r)' /\ Settled(r)'
  BY <1>5 DEF Live, Active, Settled
<1>8. Weight(r)' <= Weight(r)
  <2>1. Weight(r)' = 0
    BY <1>7 DEF Weight
  <2>2. Weight(r) \in Nat
    BY <1>3 DEF Weight, RowRec
  <2> QED BY <2>1, <2>2
<1> QED BY <1>1, <1>2, <1>3, <1>5, <1>6, <1>7, <1>8, LastCommit

-----------------------------------------------------------------------------
(* The steps that end a run.                                               *)

(* A step that touches one run from outside its launch.                    *)
LEMMA RunStep ==
    ASSUME LaunchInv, NEW r \in Runs, UNCHANGED <<req, boot>>,
           row' \in [Runs -> RowRec], job' \in [Runs -> {"none", "up", "idle"}],
           secret' \in [Runs -> {"none", "bare", "owned"}],
           trail' \in [faulted : SUBSET Runs, crossed : SUBSET Runs, leaked : SUBSET Runs],
           \A q \in Runs \ {r} : row'[q] = row[q] /\ job'[q] = job[q] /\ secret'[q] = secret[q],
           trail.faulted \subseteq trail'.faulted, trail.crossed \subseteq trail'.crossed,
           trail.leaked \subseteq trail'.leaked,
           row'[r].state # "none", job[r] = "none" => job'[r] = "none",
           secret'[r] \in {secret[r], "none"}, secret'[r] = "owned" => job'[r] # "none",
           Loose(r)' => Loose(r), Live(r)' => Live(r), Settled(r) => Settled(r)',
           Live(r)' /\ row'[r].ended_at # "unset" => r \in trail'.crossed,
           Weight(r)' <= Weight(r)
    PROVE  LaunchInv'
<1>1. LaunchTypes'
  BY DEF LaunchInv, LaunchTypes
<1>2. \A q \in Runs : InFlight(q)' <=> InFlight(q)
  BY DEF InFlight
<1>3. Others(r)
  BY <1>2 DEF Others
<1>4. NotLoosened(r)
  BY DEF NotLoosened
<1>5. InOrder(r)
  <2>1. /\ secret[r] = "bare" /\ ~InFlight(r) => r \in trail.leaked
        /\ Fleet[r] = "swarm" => secret[r] = "none"
    BY DEF LaunchInv, Secrets
  <2> QED BY <1>2, <2>1 DEF InOrder, Present
<1>6. Fresh' /\ Secrets' /\ Revived' /\ Booting'
  BY <1>1, <1>3, <1>4, <1>5, OneRun
<1>7. ASSUME NEW c \in Clients PROVE RequestAt(c)'
  <2>1. RequestAt(c) /\ req'[c] = req[c]
    BY DEF LaunchInv, Requests
  <2>2. CASE ~Launching(c)
    BY <2>1, <2>2 DEF RequestAt, Launching
  <2>3. CASE Launching(c) /\ req[c].run # r
    BY <2>1, <2>3 DEF RequestAt, Launching, Present
  <2>4. CASE Launching(c) /\ req[c].run = r
    BY <2>1, <2>4 DEF RequestAt, Launching, Present
  <2> QED BY <2>2, <2>3, <2>4
<1>8. Requests' /\ Distinct'
  BY <1>7 DEF LaunchInv, Requests, Distinct, Launching
<1>9. Capacity'
  <2>1. ASSUME NEW q \in Runs PROVE Weight(q)' <= Weight(q)
    <3>1. CASE q = r
      BY <3>1
    <3>2. CASE q # r
      <4>1. Weight(q)' = Weight(q) /\ Weight(q) \in Nat
        BY <3>2 DEF Weight, Live, LaunchInv, LaunchTypes, RowRec
      <4> QED BY <4>1
    <3> QED BY <3>1, <3>2
  <2> QED BY <1>1, <2>1, CapacityKept
<1> QED BY <1>1, <1>6, <1>8, <1>9 DEF LaunchInv

(* What the steps on a run find.                                           *)
LEMMA RunFacts ==
    ASSUME LaunchInv, NEW r \in Runs
    PROVE  /\ row \in [Runs -> RowRec] /\ row[r] \in RowRec
           /\ job \in [Runs -> {"none", "up", "idle"}]
           /\ secret \in [Runs -> {"none", "bare", "owned"}]
           /\ trail \in [faulted : SUBSET Runs, crossed : SUBSET Runs, leaked : SUBSET Runs]
           /\ secret[r] = "owned" => job[r] # "none"
           /\ Present(r) \/ row[r].ended_at # "unset" => row[r].state # "none"
           /\ Live(r) /\ row[r].ended_at # "unset" => r \in trail.crossed
           /\ Weight(r) \in Nat
BY DEF LaunchInv, LaunchTypes, Secrets, Present, Fresh, Revived, Weight, RowRec

(* A workload taken away, its row unchanged.                               *)
LEMMA TakenAway ==
    ASSUME LaunchInv, NEW r \in Runs, Present(r), Gone(r),
           UNCHANGED <<row, req, boot, used, trail>>
    PROVE  LaunchInv'
<1>1. /\ job' \in [Runs -> {"none", "up", "idle"}]
      /\ secret' \in [Runs -> {"none", "bare", "owned"}]
      /\ job'[r] = "none" /\ secret'[r] = (IF secret[r] = "owned" THEN "none" ELSE secret[r])
      /\ \A q \in Runs \ {r} : job'[q] = job[q] /\ secret'[q] = secret[q]
  BY GoneTypes DEF LaunchInv
<1>2. ~Loose(r)'
  BY <1>1 DEF Loose, Present
<1>3. (Live(r)' <=> Live(r)) /\ (Settled(r)' <=> Settled(r)) /\ Weight(r)' = Weight(r)
  BY DEF Live, Settled, Weight
<1> QED BY <1>1, <1>2, <1>3, RunFacts, RunStep

(* The reapers.                                                            *)
LEMMA DestroyFleetStep ==
    ASSUME LaunchInv, NEW r \in Runs, _destroy_fleet(r)
    PROVE  LaunchInv'
BY TakenAway DEF _destroy_fleet

(* The cluster's own end of a Job.                                         *)
LEMMA ExpiryStep ==
    ASSUME LaunchInv, NEW r \in Runs, job_expires(r)
    PROVE  LaunchInv'
BY TakenAway DEF job_expires

(* A run ended by its workers or its supervisor is still to be reaped.     *)
LEMMA RunEndsStep ==
    ASSUME LaunchInv, NEW r \in Runs, run_ends(r)
    PROVE  LaunchInv'
<1>1. /\ row[r].state \in {"provisioning", "draining"} /\ row' = [row EXCEPT ![r] = Terminal(row[r])]
      /\ UNCHANGED <<job, secret, req, boot, used, trail>>
  BY DEF run_ends
<1>2. /\ row' \in [Runs -> RowRec] /\ row'[r] = Terminal(row[r]) /\ row'[r].state = "ended"
      /\ \A q \in Runs \ {r} : row'[q] = row[q]
      /\ row'[r].ref = row[r].ref
      /\ row'[r].ended_at = IF row[r].ended_at = "unset" THEN "recent" ELSE row[r].ended_at
  BY <1>1, RunFacts, TerminalRow
<1>3. Loose(r)' => Loose(r)
  <2>1. CASE row[r].ref
    <3>1. CASE row[r].ended_at = "unset"
      BY <1>2, <2>1, <3>1 DEF Loose, Reapable
    <3>2. CASE row[r].ended_at # "unset"
      <4>1. Live(r) /\ r \in trail.crossed
        BY <1>1, <3>2, RunFacts DEF Live, Active
      <4> QED BY <1>1, <4>1 DEF Loose
    <3> QED BY <3>1, <3>2
  <2>2. CASE ~row[r].ref
    <3>1. ~row[r].ref /\ ~Reapable(r)
      BY <2>2 DEF Reapable
    <3>2. (Present(r)' <=> Present(r)) /\ (InFlight(r)' <=> InFlight(r))
      BY <1>1 DEF Present, InFlight
    <3> QED BY <1>1, <3>1, <3>2 DEF Loose
  <2> QED BY <2>1, <2>2
<1>4. ~Live(r)' /\ Settled(r)' /\ Weight(r)' = 0
  BY <1>2 DEF Live, Active, Settled, Weight
<1>5. Weight(r)' <= Weight(r)
  BY <1>4, RunFacts
<1> QED BY <1>1, <1>2, <1>3, <1>4, <1>5, RunFacts, RunStep

(* A run leaves the reapers' window with its workload only after a fault.  *)
LEMMA WindowStep ==
    ASSUME LaunchInv, NEW r \in Runs, reap_window_passes(r)
    PROVE  LaunchInv'
<1>1. /\ row[r].ended_at = "recent" /\ row' = [row EXCEPT ![r].ended_at = "past"]
      /\ UNCHANGED <<job, secret, req, boot>>
  BY DEF reap_window_passes
<1>2. /\ row' \in [Runs -> RowRec] /\ row'[r].ended_at = "past" /\ row'[r].state = row[r].state
      /\ row'[r].ref = row[r].ref /\ row'[r].gb = row[r].gb /\ row'[r].raced = row[r].raced
      /\ \A q \in Runs \ {r} : row'[q] = row[q]
  BY <1>1, RunFacts DEF RowRec
<1>3. row[r].state # "none"
  BY <1>1, RunFacts
<1>4. (Live(r)' <=> Live(r)) /\ Weight(r)' = Weight(r) /\ Weight(r) \in Nat
  BY <1>2, RunFacts DEF Live, Weight
<1>5. CASE Reapable(r) /\ Present(r) /\ ~Live(r)
  <2>1. Fault(r)
    BY <1>5 DEF reap_window_passes
  <2>2. /\ trail' \in [faulted : SUBSET Runs, crossed : SUBSET Runs, leaked : SUBSET Runs]
        /\ trail.faulted \subseteq trail'.faulted /\ trail.crossed \subseteq trail'.crossed
        /\ trail.leaked \subseteq trail'.leaked /\ r \in trail'.faulted
    BY <2>1, FaultTrail DEF LaunchInv
  <2>3. ~Loose(r)'
    BY <2>2 DEF Loose
  <2>4. Settled(r) => Settled(r)'
    BY <1>2, <2>2 DEF Settled
  <2>5. ~Live(r)'
    BY <1>4, <1>5
  <2> QED BY <1>1, <1>2, <1>3, <1>4, <2>2, <2>3, <2>4, <2>5, RunFacts, RunStep
<1>6. CASE ~(Reapable(r) /\ Present(r) /\ ~Live(r))
  <2>1. trail' = trail
    BY <1>6 DEF reap_window_passes
  <2>2. Loose(r)' => Loose(r)
    <3>1. (Present(r)' <=> Present(r)) /\ (InFlight(r)' <=> InFlight(r))
      BY <1>1 DEF Present, InFlight
    <3>2. ASSUME Loose(r)' PROVE Loose(r)
      <4>1. Present(r) /\ ~(Live(r) /\ row[r].ref)
        BY <1>2, <1>4, <3>1, <3>2 DEF Loose
      <4>2. Reapable(r) => row[r].ref
        BY DEF Reapable
      <4>3. ~Reapable(r)
        BY <1>6, <4>1, <4>2
      <4> QED BY <2>1, <3>1, <3>2, <4>1, <4>3 DEF Loose
    <3> QED BY <3>2
  <2>3. Settled(r) => Settled(r)'
    BY <1>2, <2>1 DEF Settled
  <2>4. Live(r)' /\ row'[r].ended_at # "unset" => r \in trail'.crossed
    BY <1>1, <1>4, <2>1, RunFacts
  <2> QED BY <1>1, <1>2, <1>3, <1>4, <2>1, <2>2, <2>3, <2>4, RunFacts, RunStep
<1> QED BY <1>5, <1>6

(* A deleted run's workload goes first, or a fault is on record.           *)
LEMMA DeleteRunStep ==
    ASSUME LaunchInv, NEW r \in Runs, delete_run(r)
    PROVE  LaunchInv'
<1> DEFINE rec == [NoRow EXCEPT !.state = "deleted"]
<1>1. /\ row[r].state = "ended" /\ row' = [row EXCEPT ![r] = rec] /\ UNCHANGED <<req, boot>>
  BY DEF delete_run
<1>2. rec \in RowRec /\ rec.state = "deleted"
  BY DEF RowRec, NoRow
<1> HIDE DEF rec
<1>3. /\ row' \in [Runs -> RowRec] /\ row'[r].state = "deleted"
      /\ \A q \in Runs \ {r} : row'[q] = row[q]
  BY <1>1, <1>2, RunFacts
<1>4. ~Live(r) /\ ~Live(r)' /\ Settled(r)' /\ Weight(r)' <= Weight(r)
  <2>1. ~Live(r) /\ ~Live(r)' /\ Settled(r)'
    BY <1>1, <1>3 DEF Live, Active, Settled
  <2>2. Weight(r)' = 0
    BY <2>1 DEF Weight
  <2> QED BY <2>1, <2>2, RunFacts
<1>5. CASE row[r].ref /\ Gone(r) /\ UNCHANGED <<used, trail>>
  <2>1. /\ job' \in [Runs -> {"none", "up", "idle"}]
        /\ secret' \in [Runs -> {"none", "bare", "owned"}]
        /\ job'[r] = "none" /\ secret'[r] = (IF secret[r] = "owned" THEN "none" ELSE secret[r])
        /\ \A q \in Runs \ {r} : job'[q] = job[q] /\ secret'[q] = secret[q]
    BY <1>5, GoneTypes DEF LaunchInv
  <2>2. ~Loose(r)'
    BY <2>1 DEF Loose, Present
  <2> QED BY <1>1, <1>3, <1>4, <1>5, <2>1, <2>2, RunFacts, RunStep
<1>6. CASE ~row[r].ref /\ UNCHANGED <<job, secret, used, trail>>
  <2>1. Loose(r)' => Loose(r)
    <3>1. ~row[r].ref /\ ~Reapable(r)
      BY <1>6 DEF Reapable
    <3>2. (Present(r)' <=> Present(r)) /\ (InFlight(r)' <=> InFlight(r))
      BY <1>1, <1>6 DEF Present, InFlight
    <3> QED BY <1>6, <3>1, <3>2 DEF Loose
  <2> QED BY <1>1, <1>3, <1>4, <1>6, <2>1, RunFacts, RunStep
<1>7. CASE Fault(r) /\ UNCHANGED <<job, secret>>
  <2>1. /\ trail' \in [faulted : SUBSET Runs, crossed : SUBSET Runs, leaked : SUBSET Runs]
        /\ trail.faulted \subseteq trail'.faulted /\ trail.crossed \subseteq trail'.crossed
        /\ trail.leaked \subseteq trail'.leaked /\ r \in trail'.faulted
    BY <1>7, FaultTrail DEF LaunchInv
  <2>2. ~Loose(r)'
    BY <2>1 DEF Loose
  <2> QED BY <1>1, <1>3, <1>4, <1>7, <2>1, <2>2, RunFacts, RunStep
<1> QED BY <1>5, <1>6, <1>7 DEF delete_run

(* A stop drains or ends a run, and asks the driver when there is a ref.   *)
LEMMA StopRunStep ==
    ASSUME LaunchInv, NEW r \in Runs, NEW force \in BOOLEAN, stop_run(r, force)
    PROVE  LaunchInv'
<1> DEFINE rec == IF force THEN Terminal(row[r]) ELSE [row[r] EXCEPT !.state = "draining"]
<1>1. Live(r) /\ row' = [row EXCEPT ![r] = rec] /\ UNCHANGED <<req, boot>>
  BY DEF stop_run
<1>2. /\ rec \in RowRec /\ rec.state = (IF force THEN "ended" ELSE "draining")
      /\ rec.ref = row[r].ref /\ rec.gb = row[r].gb /\ rec.raced = row[r].raced
      /\ ~force => rec.ended_at = row[r].ended_at
  <2>1. CASE force
    BY <2>1, RunFacts, TerminalRow
  <2>2. CASE ~force
    BY <2>2, RunFacts DEF RowRec
  <2> QED BY <2>1, <2>2
<1> HIDE DEF rec
<1>3. /\ row' \in [Runs -> RowRec] /\ row'[r] = rec
      /\ \A q \in Runs \ {r} : row'[q] = row[q]
  BY <1>1, <1>2, RunFacts
<1>4. Live(r)' <=> ~force
  BY <1>2, <1>3 DEF Live, Active
<1>5. Weight(r)' <= Weight(r) /\ row'[r].state # "none"
  <2>1. Weight(r)' \in {0, Weight(r)}
    BY <1>1, <1>2, <1>3 DEF Weight
  <2> QED BY <1>2, <1>3, <2>1, RunFacts
<1>6. ASSUME trail.crossed \subseteq trail'.crossed
      PROVE  /\ Settled(r) => Settled(r)'
             /\ Live(r)' /\ row'[r].ended_at # "unset" => r \in trail'.crossed
  <2>1. Settled(r) => r \in trail.crossed
    BY <1>1 DEF Settled, Live, Active
  <2>2. Live(r)' /\ row'[r].ended_at # "unset" => r \in trail'.crossed
    BY <1>1, <1>2, <1>3, <1>4, <1>6, RunFacts
  <2> QED BY <1>6, <2>1, <2>2 DEF Settled
<1>7. CASE ~row[r].ref /\ UNCHANGED <<job, secret, used, trail>>
  <2>1. Loose(r)' => Loose(r)
    <3>1. ~row[r].ref /\ ~Reapable(r)
      BY <1>7 DEF Reapable
    <3>2. (Present(r)' <=> Present(r)) /\ (InFlight(r)' <=> InFlight(r))
      BY <1>1, <1>7 DEF Present, InFlight
    <3> QED BY <1>7, <3>1, <3>2 DEF Loose
  <2> QED BY <1>1, <1>3, <1>5, <1>6, <1>7, <2>1, RunFacts, RunStep
<1>8. CASE row[r].ref /\ Gone(r) /\ UNCHANGED <<used, trail>>
  <2>1. /\ job' \in [Runs -> {"none", "up", "idle"}]
        /\ secret' \in [Runs -> {"none", "bare", "owned"}]
        /\ job'[r] = "none" /\ secret'[r] = (IF secret[r] = "owned" THEN "none" ELSE secret[r])
        /\ \A q \in Runs \ {r} : job'[q] = job[q] /\ secret'[q] = secret[q]
    BY <1>8, GoneTypes DEF LaunchInv
  <2>2. ~Loose(r)'
    BY <2>1 DEF Loose, Present
  <2> QED BY <1>1, <1>3, <1>5, <1>6, <1>8, <2>1, <2>2, RunFacts, RunStep
<1>9. CASE /\ row[r].ref /\ ~force /\ UNCHANGED <<secret, used, trail>>
           /\ job' = [job EXCEPT ![r] = IF Present(r) THEN "idle" ELSE "none"]
  <2>1. /\ job' \in [Runs -> {"none", "up", "idle"}]
        /\ job'[r] = (IF Present(r) THEN "idle" ELSE "none")
        /\ \A q \in Runs \ {r} : job'[q] = job[q]
    BY <1>9, RunFacts
  <2>2. /\ secret[r] = "owned" => job'[r] # "none"
        /\ job[r] = "none" => job'[r] = "none"
    BY <2>1, RunFacts DEF Present
  <2>3. ~Loose(r)'
    BY <1>2, <1>3, <1>4, <1>9 DEF Loose
  <2> QED BY <1>1, <1>3, <1>5, <1>6, <1>9, <2>1, <2>2, <2>3, RunFacts, RunStep
<1>10. CASE Fault(r) /\ UNCHANGED <<job, secret>>
  <2>1. /\ trail' \in [faulted : SUBSET Runs, crossed : SUBSET Runs, leaked : SUBSET Runs]
        /\ trail.faulted \subseteq trail'.faulted /\ trail.crossed \subseteq trail'.crossed
        /\ trail.leaked \subseteq trail'.leaked /\ r \in trail'.faulted
    BY <1>10, FaultTrail DEF LaunchInv
  <2>2. ~Loose(r)'
    BY <2>1 DEF Loose
  <2> QED BY <1>1, <1>3, <1>5, <1>6, <1>10, <2>1, <2>2, RunFacts, RunStep
<1> QED BY <1>7, <1>8, <1>9, <1>10 DEF stop_run

-----------------------------------------------------------------------------
(* The steps of the boot.                                                  *)

(* Outside the boot's own record, a workload may go and a fault be noted.  *)
LEMMA OutsideBoot ==
    ASSUME LaunchInv, UNCHANGED <<row, req>>, boot' \in BootRec,
           job' \in [Runs -> {"none", "up", "idle"}],
           secret' \in [Runs -> {"none", "bare", "owned"}],
           \A q \in Runs : \/ job'[q] = job[q] /\ secret'[q] = secret[q]
                           \/ /\ job'[q] = "none"
                              /\ secret'[q] = IF secret[q] = "owned" THEN "none" ELSE secret[q],
           trail' \in [faulted : SUBSET Runs, crossed : SUBSET Runs, leaked : SUBSET Runs],
           trail.faulted \subseteq trail'.faulted, trail.crossed \subseteq trail'.crossed,
           trail.leaked \subseteq trail'.leaked
    PROVE  /\ Booting' => LaunchInv'
           /\ \A q \in Runs : /\ Loose(q)' => Loose(q) /\ q \notin trail'.faulted /\ Present(q)'
                              /\ Live(q)' <=> Live(q)
                              /\ Settled(q) => Settled(q)'
<1>1. LaunchTypes'
  BY DEF LaunchInv, LaunchTypes
<1>2. \A q \in Runs : (InFlight(q)' <=> InFlight(q)) /\ (Live(q)' <=> Live(q))
  BY DEF InFlight, Live
<1>3. Fresh' /\ Revived'
  BY DEF LaunchInv, Fresh, Revived, Live
<1>4. Secrets'
  BY <1>2 DEF LaunchInv, Secrets, Present
<1>5. ASSUME NEW c \in Clients PROVE RequestAt(c)'
  <2>1. RequestAt(c) /\ req'[c] = req[c]
    BY DEF LaunchInv, Requests
  <2>2. CASE ~Launching(c)
    BY <2>1, <2>2 DEF RequestAt, Launching
  <2>3. CASE Launching(c)
    BY <2>1, <2>3 DEF RequestAt, Launching, Present
  <2> QED BY <2>2, <2>3
<1>6. Requests' /\ Distinct'
  BY <1>5 DEF LaunchInv, Requests, Distinct, Launching
<1>7. Capacity'
  <2>1. \A q \in Runs : Weight(q)' = Weight(q) /\ Weight(q) \in Nat
    BY DEF Weight, Live, LaunchInv, LaunchTypes, RowRec
  <2> QED BY <1>1, <2>1, CapacityKept
<1>8. ASSUME NEW q \in Runs
      PROVE  Loose(q)' => Loose(q) /\ q \notin trail'.faulted /\ Present(q)'
  BY <1>2 DEF Loose, Present, Live, Reapable
<1>9. ASSUME NEW q \in Runs PROVE Settled(q) => Settled(q)'
  BY DEF Settled
<1> QED BY <1>1, <1>2, <1>3, <1>4, <1>6, <1>7, <1>8, <1>9 DEF LaunchInv

(* What the steps of the boot find.                                        *)
LEMMA BootFacts ==
    ASSUME LaunchInv
    PROVE  /\ boot \in BootRec /\ boot.owned \subseteq Runs /\ boot.strays \subseteq Runs
           /\ boot.kinds \subseteq Kinds /\ boot.todo \subseteq Runs /\ boot.seen \in Seen
           /\ row \in [Runs -> RowRec]
           /\ job \in [Runs -> {"none", "up", "idle"}]
           /\ secret \in [Runs -> {"none", "bare", "owned"}]
           /\ trail \in [faulted : SUBSET Runs, crossed : SUBSET Runs, leaked : SUBSET Runs]
           /\ \A r \in Runs : Loose(r) => Met(r)
           /\ Sweeping => boot.todo = {}
           /\ boot.pc \in {"load", "probe"} => boot.kinds = Kinds
           /\ boot.pc = "destroy" => boot.strays # {}
           /\ \A r \in boot.owned : row[r].state # "none"
           /\ \A r \in boot.strays : Settled(r)
           /\ \A r \in Runs : Present(r) => row[r].state # "none"
BY DEF LaunchInv, LaunchTypes, Booting, BootRec, Fresh, Present

(* The loaded rows are rows of runs.                                       *)
LEMMA SeenRows ==
    ASSUME NEW s \in Seen
    PROVE  DOMAIN s \subseteq Runs /\ \A r \in DOMAIN s : s[r] \in RowRec
BY DEF Seen

(* Phase 1 loads the active rows.                                          *)
LEMMA LoadStep ==
    ASSUME LaunchInv, reconcile_on_boot
    PROVE  LaunchInv'
<1> DEFINE A == {r \in Runs : Live(r)}
           s == [r \in A |-> row[r]]
<1>1. /\ boot.pc = "load" /\ UNCHANGED <<row, job, secret, req, used, trail>>
      /\ boot' = [boot EXCEPT !.pc = "probe", !.todo = A, !.seen = s]
  BY DEF reconcile_on_boot
<1>2. s \in Seen /\ A \in SUBSET Runs
  <2>1. s \in [A -> RowRec] /\ A \in SUBSET Runs
    BY BootFacts
  <2> QED BY <2>1 DEF Seen
<1>3. \A r \in Runs : (r \in A <=> Live(r)) /\ (r \in A => s[r] = row[r])
  OBVIOUS
<1>4. DOMAIN s = A
  OBVIOUS
<1> HIDE DEF A, s
<1>5. /\ boot' \in BootRec /\ boot'.pc = "probe" /\ boot'.todo = A /\ boot'.seen = s
      /\ boot'.kinds = boot.kinds /\ boot'.owned = boot.owned /\ boot'.strays = boot.strays
  BY <1>1, <1>2, BootFacts DEF BootRec
<1>6. /\ Booting' => LaunchInv'
      /\ \A q \in Runs : (Loose(q)' => Loose(q)) /\ (Live(q)' <=> Live(q)) /\ (Settled(q) => Settled(q)')
  BY <1>1, <1>5, BootFacts, OutsideBoot
<1>7. ASSUME NEW r \in Runs, Loose(r)' PROVE Met(r)'
  <2>1. Loose(r)
    BY <1>6, <1>7
  <2>2. r \in A => ~s[r].ref
    BY <1>3, <2>1 DEF Loose
  <2>3. Live(r)' => r \in A
    BY <1>3, <1>6
  <2> QED BY <1>4, <1>5, <2>2, <2>3 DEF Met, Sweeping
<1>8. boot'.kinds = Kinds
  BY <1>1, <1>5, BootFacts
<1>9. /\ \A r \in boot'.owned : row'[r].state # "none"
      /\ \A r \in boot'.strays : Settled(r)'
  BY <1>1, <1>5, <1>6, BootFacts
<1>10. Booting'
  BY <1>5, <1>7, <1>8, <1>9 DEF Booting, Sweeping
<1> QED BY <1>6, <1>10

(* One loaded run is judged.                                               *)
LEMMA ProbeStep ==
    ASSUME LaunchInv, NEW r \in Runs, probe_run(r)
    PROVE  LaunchInv'
<1>1. boot.pc = "probe" /\ r \in boot.todo /\ UNCHANGED <<row, job, secret, req>>
  BY DEF probe_run
<1>2. PICK rec : /\ boot' = [boot EXCEPT !.todo = @ \ {r}, !.seen[r] = rec]
                 /\ \/ /\ rec = IF ~boot.seen[r].ref \/ job[r] # "up" THEN Terminal(boot.seen[r])
                                ELSE boot.seen[r]
                       /\ UNCHANGED <<used, trail>>
                    \/ /\ rec = boot.seen[r] /\ boot.seen[r].ref /\ Fault(r)
  BY DEF probe_run
<1>3. /\ trail' \in [faulted : SUBSET Runs, crossed : SUBSET Runs, leaked : SUBSET Runs]
      /\ trail.faulted \subseteq trail'.faulted /\ trail.crossed \subseteq trail'.crossed
      /\ trail.leaked \subseteq trail'.leaked
  <2>1. CASE UNCHANGED trail
    BY <2>1, BootFacts
  <2>2. CASE Fault(r)
    BY <2>2, FaultTrail DEF LaunchInv
  <2> QED BY <1>2, <2>1, <2>2
<1> DEFINE s == [boot.seen EXCEPT ![r] = rec]
<1>4. DOMAIN s = DOMAIN boot.seen /\ \A q \in DOMAIN s : q # r => s[q] = boot.seen[q]
  OBVIOUS
<1>5. r \in DOMAIN s => /\ s[r] = rec /\ rec \in RowRec
                        /\ ~boot.seen[r].ref => rec.state = "ended" /\ ~rec.ref
  <2>1. ASSUME r \in DOMAIN boot.seen
        PROVE  rec \in RowRec /\ (~boot.seen[r].ref => rec.state = "ended" /\ ~rec.ref)
    <3>1. boot.seen[r] \in RowRec
      BY <2>1, BootFacts, SeenRows
    <3> QED BY <1>2, <3>1, TerminalRow
  <2> QED BY <2>1
<1>6. s \in Seen
  <2>1. DOMAIN boot.seen \in SUBSET Runs /\ \A q \in DOMAIN boot.seen : boot.seen[q] \in RowRec
    BY BootFacts, SeenRows
  <2>2. s \in [DOMAIN boot.seen -> RowRec]
    BY <1>4, <1>5, <2>1
  <2> QED BY <2>1, <2>2 DEF Seen
<1>7. boot' = [boot EXCEPT !.todo = @ \ {r}, !.seen = s]
  BY <1>2, BootFacts DEF BootRec
<1> HIDE DEF s
<1>8. /\ boot' \in BootRec /\ boot'.pc = "probe" /\ boot'.todo = boot.todo \ {r} /\ boot'.seen = s
      /\ boot'.kinds = boot.kinds /\ boot'.owned = boot.owned /\ boot'.strays = boot.strays
  BY <1>1, <1>6, <1>7, BootFacts DEF BootRec
<1>9. /\ Booting' => LaunchInv'
      /\ \A q \in Runs : (Loose(q)' => Loose(q)) /\ (Live(q)' <=> Live(q)) /\ (Settled(q) => Settled(q)')
  BY <1>1, <1>3, <1>8, BootFacts, OutsideBoot
<1>10. ASSUME NEW q \in Runs, Loose(q)' PROVE Met(q)'
  <2>1. Met(q) /\ (Live(q)' <=> Live(q))
    BY <1>9, <1>10, BootFacts
  <2>2. CASE q = r
    <3>1. r \in DOMAIN s => ~boot.seen[r].ref
      BY <1>1, <1>4, <2>1, <2>2 DEF Met
    <3>2. r \in DOMAIN s => ~s[r].ref /\ s[r].state = "ended"
      BY <1>5, <3>1
    <3> QED BY <1>1, <1>4, <1>8, <2>1, <2>2, <3>2 DEF Met, Sweeping
  <2>3. CASE q # r
    BY <1>1, <1>4, <1>8, <2>1, <2>3 DEF Met, Sweeping
  <2> QED BY <2>2, <2>3
<1>11. boot'.kinds = Kinds
  BY <1>1, <1>8, BootFacts
<1>12. /\ \A q \in boot'.owned : row'[q].state # "none"
       /\ \A q \in boot'.strays : Settled(q)'
  BY <1>1, <1>8, <1>9, BootFacts
<1>13. Booting'
  BY <1>8, <1>10, <1>11, <1>12 DEF Booting, Sweeping
<1> QED BY <1>9, <1>13

(* A reconciliation that is over, one way or the other.                    *)
LEMMA UpFacts ==
    /\ Up \in BootRec /\ Up.pc = "up" /\ Up.owned = {} /\ Up.strays = {}
    /\ FreshBoot \in BootRec /\ FreshBoot.pc = "load" /\ FreshBoot.owned = {}
    /\ FreshBoot.strays = {} /\ FreshBoot.kinds = Kinds
<1> DEFINE s == [r \in {} |-> NoRow]
<1>1. s \in Seen
  <2>1. s \in [{} -> RowRec] /\ {} \in SUBSET Runs
    OBVIOUS
  <2> QED BY <2>1 DEF Seen
<1>2. FreshBoot = [pc |-> "load", seen |-> s, todo |-> {}, kinds |-> Kinds,
                   owned |-> {}, strays |-> {}]
  BY DEF FreshBoot
<1> HIDE DEF s
<1> QED BY <1>1, <1>2 DEF Up, BootRec

(* Nothing is loose when every run is excused.                             *)
LEMMA AbortStep ==
    ASSUME LaunchInv, boot' = Up, UNCHANGED <<row, job, secret, req, used>>,
           trail' = [trail EXCEPT !.faulted = Runs]
    PROVE  LaunchInv'
<1>1. /\ trail' \in [faulted : SUBSET Runs, crossed : SUBSET Runs, leaked : SUBSET Runs]
      /\ trail.faulted \subseteq trail'.faulted /\ trail.crossed \subseteq trail'.crossed
      /\ trail.leaked \subseteq trail'.leaked /\ trail'.faulted = Runs
  BY BootFacts
<1>2. boot' \in BootRec /\ boot'.pc = "up" /\ boot'.owned = {} /\ boot'.strays = {}
  BY UpFacts
<1>3. /\ Booting' => LaunchInv'
      /\ \A q \in Runs : Loose(q)' => Loose(q) /\ q \notin trail'.faulted
  BY <1>1, <1>2, BootFacts, OutsideBoot
<1>4. \A q \in Runs : ~Loose(q)'
  BY <1>1, <1>3
<1>5. Booting'
  BY <1>2, <1>4 DEF Booting, Sweeping
<1> QED BY <1>3, <1>5

(* The verdicts are committed.                                             *)
LEMMA VerdictsStep ==
    ASSUME LaunchInv, commit_verdicts
    PROVE  LaunchInv'
<1>1. boot.pc = "probe" /\ boot.todo = {} /\ UNCHANGED <<job, secret, req, used>>
  BY DEF commit_verdicts
<1>2. CASE \E r \in Failed : row[r].state = "deleted"
  <2>1. boot' = Up /\ trail' = [trail EXCEPT !.faulted = Runs] /\ UNCHANGED row
    BY <1>2 DEF commit_verdicts
  <2> QED BY <1>1, <2>1, AbortStep
<1>3. CASE ~ \E r \in Failed : row[r].state = "deleted"
  <2>1. /\ boot' = [boot EXCEPT !.pc = "sweep"] /\ trail' = trail
        /\ row' = [r \in Runs |-> IF r \in Failed THEN Terminal(row[r]) ELSE row[r]]
    BY <1>3 DEF commit_verdicts
  <2>2. /\ boot' \in BootRec /\ boot'.pc = "sweep" /\ boot'.todo = {} /\ boot'.seen = boot.seen
        /\ boot'.kinds = Kinds /\ boot'.owned = boot.owned /\ boot'.strays = boot.strays
    BY <1>1, <2>1, BootFacts DEF BootRec
  <2>3. ASSUME NEW r \in Runs, r \in Failed
        PROVE  /\ row'[r] \in RowRec /\ row'[r].state = "ended" /\ row'[r].ref = row[r].ref
               /\ row'[r].ended_at = IF row[r].ended_at = "unset" THEN "recent" ELSE row[r].ended_at
    BY <2>1, <2>3, BootFacts, TerminalRow
  <2>4. \A r \in Runs : r \notin Failed => row'[r] = row[r]
    BY <2>1
  <2>5. row' \in [Runs -> RowRec]
    <3>1. \A r \in Runs : row'[r] \in RowRec
      BY <2>3, <2>4, BootFacts
    <3> QED BY <2>1, <3>1
  <2>6. LaunchTypes'
    BY <1>1, <2>1, <2>2, <2>5 DEF LaunchInv, LaunchTypes
  <2>7. /\ \A q \in Runs : InFlight(q)' <=> InFlight(q)
        /\ \A q \in Runs : Present(q)' <=> Present(q)
        /\ \A q \in Runs : row[q].state # "none" => row'[q].state # "none"
        /\ \A q \in Runs : Live(q)' => Live(q) /\ q \notin Failed /\ row'[q] = row[q]
        /\ \A q \in Runs : Settled(q) => Settled(q)'
    <3>1. \A q \in Runs : (InFlight(q)' <=> InFlight(q)) /\ (Present(q)' <=> Present(q))
      BY <1>1 DEF InFlight, Present
    <3>2. \A q \in Runs : row[q].state # "none" => row'[q].state # "none"
      BY <2>3, <2>4
    <3>3. \A q \in Runs : Live(q)' => Live(q) /\ q \notin Failed /\ row'[q] = row[q]
      BY <2>3, <2>4 DEF Live, Active
    <3>4. \A q \in Runs : Settled(q) => Settled(q)'
      BY <2>1, <2>3, <2>4 DEF Settled
    <3> QED BY <3>1, <3>2, <3>3, <3>4
  <2>8. Fresh' /\ Secrets' /\ Revived'
    <3>1. Fresh'
      <4>1. \A q \in Runs : row'[q].state = "none" => row'[q] = row[q]
        BY <2>3, <2>4
      <4> QED BY <1>1, <4>1 DEF LaunchInv, Fresh
    <3>2. Secrets'
      BY <1>1, <2>1, <2>7 DEF LaunchInv, Secrets
    <3>3. Revived'
      BY <2>1, <2>7 DEF LaunchInv, Revived
    <3> QED BY <3>1, <3>2, <3>3
  <2>9. Requests' /\ Distinct'
    <3>1. ASSUME NEW c \in Clients PROVE RequestAt(c)'
      <4>1. RequestAt(c) /\ req'[c] = req[c]
        BY <1>1 DEF LaunchInv, Requests
      <4> QED BY <1>1, <2>1, <2>7, <4>1 DEF RequestAt, Launching, Present
    <3> QED BY <1>1, <3>1 DEF LaunchInv, Requests, Distinct, Launching
  <2>10. Capacity'
    <3>1. ASSUME NEW q \in Runs PROVE Weight(q)' <= Weight(q)
      <4>1. Weight(q) \in Nat
        BY RunFacts
      <4>2. Weight(q)' = Weight(q) \/ Weight(q)' = 0
        BY <2>7 DEF Weight, Live
      <4> QED BY <4>1, <4>2
    <3> QED BY <1>1, <2>6, <3>1, CapacityKept
  <2>11. ASSUME NEW r \in Runs, Loose(r)' PROVE Loose(r)
    <3>1. CASE r \notin Failed
      BY <1>1, <2>1, <2>4, <2>7, <2>11, <3>1 DEF Loose, Live, Reapable
    <3>2. CASE r \in Failed
      <4>1. ~Reapable(r)'
        BY <2>11 DEF Loose
      <4>2. ~(row[r].ref /\ row[r].ended_at \in {"unset", "recent"})
        BY <2>3, <3>2, <4>1 DEF Reapable
      <4>3. ~(Live(r) /\ row[r].ref)
        <5>1. r \notin trail.crossed
          BY <2>1, <2>11 DEF Loose
        <5> QED BY <4>2, <5>1, RunFacts
      <4>4. ~Reapable(r)
        BY <4>2, <4>3 DEF Reapable, Live, Active
      <4> QED BY <2>1, <2>7, <2>11, <4>3, <4>4 DEF Loose
    <3> QED BY <3>1, <3>2
  <2>12. ASSUME NEW r \in Runs, Loose(r)' PROVE Met(r)'
    <3>1. Met(r)
      BY <2>11, <2>12, BootFacts
    <3>2. r \in DOMAIN boot.seen => ~boot.seen[r].ref /\ boot.seen[r].state = "ended"
      BY <1>1, <3>1 DEF Met
    <3>3. ~Live(r)'
      <4>1. Live(r) => r \in Failed
        BY <1>1, <3>1, <3>2 DEF Met, Failed
      <4> QED BY <2>7, <4>1
    <3>4. Fleet[r] \in Kinds
      BY LaunchAssumption
    <3> QED BY <2>2, <3>2, <3>3, <3>4 DEF Met, Sweeping
  <2>13. /\ \A q \in boot'.owned : row'[q].state # "none"
         /\ \A q \in boot'.strays : Settled(q)'
    BY <2>2, <2>7, BootFacts
  <2>14. Booting'
    BY <2>2, <2>12, <2>13 DEF Booting, Sweeping
  <2> QED BY <2>6, <2>8, <2>9, <2>10, <2>14 DEF LaunchInv
<1> QED BY <1>2, <1>3

(* One driver is listed, or excuses its runs.                              *)
LEMMA ListStep ==
    ASSUME LaunchInv, NEW k \in Kinds, list_run_ids(k)
    PROVE  LaunchInv'
<1> DEFINE O == {r \in Runs : Fleet[r] = k /\ Present(r)}
           E == {r \in Runs : Fleet[r] = k}
<1>1. boot.pc = "sweep" /\ UNCHANGED <<row, job, secret, req>>
  BY DEF list_run_ids
<1>2. boot.todo = {} /\ \A r \in Runs : Loose(r) => Fleet[r] \in boot.kinds
  BY <1>1, BootFacts DEF Met, Sweeping
<1>3. CASE /\ boot' = [boot EXCEPT !.pc = "live", !.kinds = @ \ {k}, !.owned = O]
           /\ UNCHANGED <<used, trail>>
  <2>1. O \subseteq Runs /\ \A r \in Runs : r \in O <=> Fleet[r] = k /\ Present(r)
    OBVIOUS
  <2> HIDE DEF O
  <2>2. /\ boot' \in BootRec /\ boot'.pc = "live" /\ boot'.todo = {} /\ boot'.seen = boot.seen
        /\ boot'.kinds = boot.kinds \ {k} /\ boot'.owned = O /\ boot'.strays = boot.strays
    BY <1>2, <1>3, <2>1, BootFacts DEF BootRec
  <2>3. /\ Booting' => LaunchInv'
        /\ \A q \in Runs : (Loose(q)' => Loose(q)) /\ (Live(q)' <=> Live(q)) /\ (Settled(q) => Settled(q)')
    BY <1>1, <1>3, <2>2, BootFacts, OutsideBoot
  <2>4. ASSUME NEW r \in Runs, Loose(r)' PROVE Met(r)'
    <3>1. Met(r) /\ Loose(r) /\ (Live(r)' <=> Live(r))
      BY <2>3, <2>4, BootFacts
    <3>2. Fleet[r] \in boot.kinds \ {k} \/ r \in O
      BY <1>2, <2>1, <3>1 DEF Loose
    <3> QED BY <1>1, <1>2, <2>2, <3>1, <3>2 DEF Met, Sweeping
  <2>5. /\ \A q \in boot'.owned : row'[q].state # "none"
        /\ \A q \in boot'.strays : Settled(q)'
    BY <1>1, <2>1, <2>2, <2>3, BootFacts
  <2>6. Booting'
    BY <2>2, <2>4, <2>5 DEF Booting, Sweeping
  <2> QED BY <2>3, <2>6
<1>4. CASE /\ boot' = [boot EXCEPT !.kinds = @ \ {k}]
           /\ trail' = [trail EXCEPT !.faulted = @ \cup E]
  <2>1. \A r \in Runs : r \in E <=> Fleet[r] = k
    OBVIOUS
  <2>2. /\ trail' \in [faulted : SUBSET Runs, crossed : SUBSET Runs, leaked : SUBSET Runs]
        /\ trail.faulted \subseteq trail'.faulted /\ trail.crossed \subseteq trail'.crossed
        /\ trail.leaked \subseteq trail'.leaked /\ trail'.faulted = trail.faulted \cup E
    BY <1>4, BootFacts
  <2> HIDE DEF E
  <2>3. /\ boot' \in BootRec /\ boot'.pc = "sweep" /\ boot'.todo = {} /\ boot'.seen = boot.seen
        /\ boot'.kinds = boot.kinds \ {k} /\ boot'.owned = boot.owned /\ boot'.strays = boot.strays
    BY <1>1, <1>2, <1>4, BootFacts DEF BootRec
  <2>4. /\ Booting' => LaunchInv'
        /\ \A q \in Runs : /\ Loose(q)' => Loose(q) /\ q \notin trail'.faulted
                           /\ (Live(q)' <=> Live(q)) /\ (Settled(q) => Settled(q)')
    BY <1>1, <2>2, <2>3, BootFacts, OutsideBoot
  <2>5. ASSUME NEW r \in Runs, Loose(r)' PROVE Met(r)'
    <3>1. Met(r) /\ Loose(r) /\ (Live(r)' <=> Live(r)) /\ r \notin E
      BY <2>2, <2>4, <2>5, BootFacts
    <3>2. Fleet[r] \in boot.kinds \ {k}
      BY <1>2, <2>1, <3>1
    <3> QED BY <1>1, <1>2, <2>3, <3>1, <3>2 DEF Met, Sweeping
  <2>6. /\ \A q \in boot'.owned : row'[q].state # "none"
        /\ \A q \in boot'.strays : Settled(q)'
    BY <1>1, <2>3, <2>4, BootFacts
  <2>7. Booting'
    BY <2>3, <2>5, <2>6 DEF Booting, Sweeping
  <2> QED BY <2>4, <2>7
<1> QED BY <1>3, <1>4 DEF list_run_ids

(* Of the listed workloads, the ones whose run is not live are strays.     *)
LEMMA LiveIdsStep ==
    ASSUME LaunchInv, _live_run_ids
    PROVE  LaunchInv'
<1> DEFINE T == {r \in boot.owned : ~Live(r)}
<1>1. /\ boot.pc = "live" /\ UNCHANGED <<row, job, secret, req, used, trail>>
      /\ boot' = [boot EXCEPT !.pc = "verify", !.owned = {}, !.strays = T]
  BY DEF _live_run_ids
<1>2. T \subseteq Runs /\ \A r \in Runs : r \in T <=> r \in boot.owned /\ ~Live(r)
  BY BootFacts
<1> HIDE DEF T
<1>3. /\ boot' \in BootRec /\ boot'.pc = "verify" /\ boot'.todo = boot.todo
      /\ boot'.seen = boot.seen /\ boot'.kinds = boot.kinds /\ boot'.owned = {}
      /\ boot'.strays = T /\ boot.todo = {}
  BY <1>1, <1>2, BootFacts DEF BootRec, Sweeping
<1>4. /\ Booting' => LaunchInv'
      /\ \A q \in Runs : (Loose(q)' => Loose(q)) /\ (Live(q)' <=> Live(q)) /\ (Settled(q) => Settled(q)')
  BY <1>1, <1>3, BootFacts, OutsideBoot
<1>5. ASSUME NEW r \in Runs, Loose(r)' PROVE Met(r)'
  <2>1. Met(r) /\ (Live(r)' <=> Live(r))
    BY <1>4, <1>5, BootFacts
  <2>2. ~Live(r) /\ (Fleet[r] \in boot.kinds \/ r \in T)
    BY <1>1, <1>2, <2>1 DEF Met, Sweeping
  <2> QED BY <1>1, <1>3, <2>1, <2>2 DEF Met, Sweeping
<1>6. ASSUME NEW r \in T PROVE Settled(r)'
  <2>1. r \in Runs /\ row[r].state # "none" /\ ~Live(r) /\ row[r] \in RowRec
    BY <1>2, <1>6, BootFacts
  <2>2. Settled(r)
    BY <2>1 DEF Settled, Live, Active, RowRec
  <2> QED BY <1>4, <2>1, <2>2
<1>7. Booting'
  BY <1>3, <1>5, <1>6 DEF Booting, Sweeping
<1> QED BY <1>4, <1>7

(* The last look spares only what is not loose.                            *)
LEMMA LastLookStep ==
    ASSUME LaunchInv, _sweep_stray_fleets
    PROVE  LaunchInv'
<1>1. boot.pc = "verify" /\ UNCHANGED <<row, job, secret, req, used, trail>>
  BY DEF _sweep_stray_fleets
<1>2. boot.todo = {}
  BY <1>1, BootFacts DEF Sweeping
<1>3. ASSUME boot' \in BootRec,
             boot'.todo = {}, boot'.seen = boot.seen, boot'.kinds = boot.kinds,
             boot'.owned = boot.owned, boot'.strays \subseteq boot.strays,
             \/ boot'.pc = "sweep" /\ boot.strays = {}
             \/ /\ boot'.pc \in {"verify", "destroy"}
                /\ boot'.pc = "destroy" => boot'.strays # {}
                /\ \A r \in boot.strays \ boot'.strays : ~Loose(r)
      PROVE  LaunchInv'
  <2>1. /\ Booting' => LaunchInv'
        /\ \A q \in Runs : (Loose(q)' => Loose(q)) /\ (Live(q)' <=> Live(q)) /\ (Settled(q) => Settled(q)')
    BY <1>1, <1>3, BootFacts, OutsideBoot
  <2>2. ASSUME NEW r \in Runs, Loose(r)' PROVE Met(r)'
    <3>1. Met(r) /\ Loose(r) /\ (Live(r)' <=> Live(r))
      BY <2>1, <2>2, BootFacts
    <3>2. ~Live(r) /\ (Fleet[r] \in boot.kinds \/ r \in boot.strays)
      BY <1>1, <3>1 DEF Met, Sweeping
    <3> QED BY <1>1, <1>2, <1>3, <3>1, <3>2 DEF Met, Sweeping
  <2>3. /\ \A q \in boot'.owned : row'[q].state # "none"
        /\ \A q \in boot'.strays : Settled(q)'
    BY <1>1, <1>3, <2>1, BootFacts
  <2>4. Booting'
    BY <1>3, <2>2, <2>3 DEF Booting, Sweeping
  <2> QED BY <2>1, <2>4
<1>4. CASE boot.strays = {}
  <2>1. boot' = [boot EXCEPT !.pc = "sweep"]
    BY <1>4 DEF _sweep_stray_fleets
  <2>2. /\ boot' \in BootRec /\ boot'.pc = "sweep" /\ boot'.todo = boot.todo
        /\ boot'.seen = boot.seen /\ boot'.kinds = boot.kinds /\ boot'.owned = boot.owned
        /\ boot'.strays = boot.strays
    BY <2>1, BootFacts DEF BootRec
  <2> QED BY <1>2, <1>3, <1>4, <2>2
<1>5. CASE boot.strays # {}
  <2> DEFINE m == Min(boot.strays)
             state == IF m \in DOMAIN boot.seen THEN boot.seen[m].state ELSE row[m].state
  <2>1. boot' = IF state \in Active THEN [boot EXCEPT !.strays = @ \ {m}]
                ELSE [boot EXCEPT !.pc = "destroy"]
    BY <1>5 DEF _sweep_stray_fleets
  <2>2. CASE state \notin Active
    <3>1. /\ boot' \in BootRec /\ boot'.pc = "destroy" /\ boot'.todo = boot.todo
          /\ boot'.seen = boot.seen /\ boot'.kinds = boot.kinds /\ boot'.owned = boot.owned
          /\ boot'.strays = boot.strays
      <4> HIDE DEF state, m
      <4> QED BY <2>1, <2>2, BootFacts DEF BootRec
    <3> QED BY <1>2, <1>3, <1>5, <3>1
  <2>3. CASE state \in Active
    <3>1. m \in Runs /\ m \in boot.strays
      BY <1>5, BootFacts, LeastMember, NoRunZero
    <3>2. ~Loose(m)
      <4>1. CASE m \in DOMAIN boot.seen
        <5>1. boot.seen[m].state # "ended"
          BY <2>3, <4>1 DEF Active
        <5> QED BY <1>1, <1>2, <3>1, <4>1, <5>1, BootFacts DEF Met
      <4>2. CASE m \notin DOMAIN boot.seen
        <5>1. Live(m)
          BY <2>3, <4>2 DEF Live
        <5> QED BY <1>1, <3>1, <5>1, BootFacts DEF Met, Sweeping
      <4> QED BY <4>1, <4>2
    <3> HIDE DEF state, m
    <3>3. /\ boot' \in BootRec /\ boot'.pc = "verify" /\ boot'.todo = boot.todo
          /\ boot'.seen = boot.seen /\ boot'.kinds = boot.kinds /\ boot'.owned = boot.owned
          /\ boot'.strays = boot.strays \ {m}
      BY <1>1, <2>1, <2>3, BootFacts DEF BootRec
    <3> QED BY <1>2, <1>3, <3>2, <3>3
  <2> QED BY <2>2, <2>3
<1> QED BY <1>4, <1>5

(* A stray is destroyed, or excused by a fault.                            *)
LEMMA DestroyStrayStep ==
    ASSUME LaunchInv, _destroy_stray
    PROVE  LaunchInv'
<1>1. PICK m \in Runs : m = Min(boot.strays) /\ m \in boot.strays
  BY BootFacts, LeastMember, NoRunZero DEF _destroy_stray
<1>2. /\ boot.pc = "destroy" /\ UNCHANGED <<row, req>>
      /\ boot' = [boot EXCEPT !.pc = "verify", !.strays = @ \ {m}]
  BY <1>1 DEF _destroy_stray
<1>3. /\ boot' \in BootRec /\ boot'.pc = "verify" /\ boot'.todo = boot.todo /\ boot.todo = {}
      /\ boot'.seen = boot.seen /\ boot'.kinds = boot.kinds /\ boot'.owned = boot.owned
      /\ boot'.strays = boot.strays \ {m}
  BY <1>2, BootFacts DEF BootRec, Sweeping
<1>4. ASSUME Booting' => LaunchInv', ~Loose(m)',
             \A q \in Runs : (Loose(q)' => Loose(q)) /\ (Live(q)' <=> Live(q)) /\ (Settled(q) => Settled(q)')
      PROVE  LaunchInv'
  <2>1. ASSUME NEW r \in Runs, Loose(r)' PROVE Met(r)'
    <3>1. Met(r) /\ r # m /\ (Live(r)' <=> Live(r))
      BY <1>4, <2>1, BootFacts
    <3>2. ~Live(r) /\ (Fleet[r] \in boot.kinds \/ r \in boot.strays)
      BY <1>2, <3>1 DEF Met, Sweeping
    <3> QED BY <1>2, <1>3, <3>1, <3>2 DEF Met, Sweeping
  <2>2. /\ \A q \in boot'.owned : row'[q].state # "none"
        /\ \A q \in boot'.strays : Settled(q)'
    BY <1>2, <1>3, <1>4, BootFacts
  <2>3. Booting'
    BY <1>3, <2>1, <2>2 DEF Booting, Sweeping
  <2> QED BY <1>4, <2>3
<1>5. CASE Gone(m) /\ UNCHANGED <<used, trail>>
  <2>1. /\ job' \in [Runs -> {"none", "up", "idle"}]
        /\ secret' \in [Runs -> {"none", "bare", "owned"}]
        /\ job'[m] = "none" /\ secret'[m] = (IF secret[m] = "owned" THEN "none" ELSE secret[m])
        /\ \A q \in Runs \ {m} : job'[q] = job[q] /\ secret'[q] = secret[q]
    BY <1>5, GoneTypes DEF LaunchInv
  <2>2. \A q \in Runs : \/ job'[q] = job[q] /\ secret'[q] = secret[q]
                        \/ /\ job'[q] = "none"
                           /\ secret'[q] = IF secret[q] = "owned" THEN "none" ELSE secret[q]
    BY <2>1
  <2>3. /\ Booting' => LaunchInv'
        /\ \A q \in Runs : (Loose(q)' => Loose(q)) /\ (Live(q)' <=> Live(q)) /\ (Settled(q) => Settled(q)')
    BY <1>2, <1>3, <1>5, <2>1, <2>2, BootFacts, OutsideBoot
  <2>4. ~Loose(m)'
    BY <2>1 DEF Loose, Present
  <2> QED BY <1>4, <2>3, <2>4
<1>6. CASE Fault(m) /\ UNCHANGED <<job, secret>>
  <2>1. /\ trail' \in [faulted : SUBSET Runs, crossed : SUBSET Runs, leaked : SUBSET Runs]
        /\ trail.faulted \subseteq trail'.faulted /\ trail.crossed \subseteq trail'.crossed
        /\ trail.leaked \subseteq trail'.leaked /\ m \in trail'.faulted
    BY <1>6, FaultTrail DEF LaunchInv
  <2>2. /\ Booting' => LaunchInv'
        /\ \A q \in Runs : (Loose(q)' => Loose(q)) /\ (Live(q)' <=> Live(q)) /\ (Settled(q) => Settled(q)')
    BY <1>2, <1>3, <1>6, <2>1, BootFacts, OutsideBoot
  <2>3. ~Loose(m)'
    BY <2>1 DEF Loose
  <2> QED BY <1>4, <2>2, <2>3
<1> QED BY <1>1, <1>5, <1>6 DEF _destroy_stray

(* The sweep ends with nothing loose.                                      *)
LEMMA ReconciledStep ==
    ASSUME LaunchInv, reconciled
    PROVE  LaunchInv'
<1>1. /\ boot.pc = "sweep" /\ boot.kinds = {} /\ boot' = Up
      /\ UNCHANGED <<row, job, secret, req, used, trail>>
  BY DEF reconciled
<1>2. boot' \in BootRec /\ boot'.pc = "up" /\ boot'.owned = {} /\ boot'.strays = {}
  BY <1>1, UpFacts
<1>3. /\ Booting' => LaunchInv'
      /\ \A q \in Runs : Loose(q)' => Loose(q)
  BY <1>1, <1>2, BootFacts, OutsideBoot
<1>4. \A q \in Runs : ~Loose(q)
  BY <1>1, BootFacts DEF Met, Sweeping
<1>5. Booting'
  BY <1>2, <1>3, <1>4 DEF Booting, Sweeping
<1> QED BY <1>3, <1>5

(* After a crash everything is still to be met by the next boot.           *)
LEMMA CrashStep ==
    ASSUME LaunchInv, Crash
    PROVE  LaunchInv'
<1> DEFINE F == {r \in Runs : InFlight(r)}
<1>1. /\ req' = [c \in Clients |-> Idle] /\ boot' = FreshBoot
      /\ trail' = [trail EXCEPT !.faulted = {}, !.leaked = @ \cup F]
      /\ UNCHANGED <<row, job, secret>>
  BY DEF Crash
<1>2. \A r \in Runs : r \in F <=> InFlight(r)
  OBVIOUS
<1>3. /\ trail' \in [faulted : SUBSET Runs, crossed : SUBSET Runs, leaked : SUBSET Runs]
      /\ trail'.crossed = trail.crossed /\ trail'.leaked = trail.leaked \cup F
  BY <1>1, BootFacts
<1> HIDE DEF F
<1>4. \A c \in Clients : /\ req'[c] \in ReqRec /\ req'[c].pc = "idle" /\ req'[c].run = 0
                         /\ ~Launching(c)'
  BY <1>1 DEF Idle, ReqRec, Launching
<1>5. req' \in [Clients -> ReqRec]
  BY <1>1, <1>4
<1>6. /\ boot' \in BootRec /\ boot'.pc = "load" /\ boot'.owned = {} /\ boot'.strays = {}
      /\ boot'.kinds = Kinds
  BY <1>1, UpFacts
<1>7. LaunchTypes'
  BY <1>1, <1>3, <1>5, <1>6 DEF LaunchInv, LaunchTypes
<1>8. Fresh' /\ Revived'
  BY <1>1, <1>3 DEF LaunchInv, Fresh, Revived, Live
<1>9. Secrets'
  BY <1>1, <1>2, <1>3 DEF LaunchInv, Secrets, Present
<1>10. Requests' /\ Distinct'
  BY <1>4 DEF Requests, RequestAt, Distinct
<1>11. Booting'
  BY <1>6 DEF Booting, Sweeping, Met
<1>12. Capacity'
  <2>1. \A q \in Runs : Weight(q)' = Weight(q) /\ Weight(q) \in Nat
    BY <1>1, RunFacts DEF Weight, Live
  <2> QED BY <1>4, <1>7, <2>1, CapacityKept
<1> QED BY <1>7, <1>8, <1>9, <1>10, <1>11, <1>12 DEF LaunchInv

-----------------------------------------------------------------------------
(* The theorems.                                                           *)

(* A control plane over an empty database satisfies the invariant.         *)
LEMMA LaunchStarts == LaunchInit => LaunchInv
<1> SUFFICES ASSUME LaunchInit PROVE LaunchInv
  OBVIOUS
<1>1. NoRow \in RowRec /\ NoRow.state = "none" /\ NoRow.ended_at = "unset"
  BY DEF NoRow, RowRec
<1>2. Idle \in ReqRec /\ Idle.pc = "idle" /\ Idle.run = 0
  BY DEF Idle, ReqRec
<1>3. /\ \A r \in Runs : row[r] = NoRow /\ job[r] = "none" /\ secret[r] = "none"
      /\ \A c \in Clients : req[c] = Idle
      /\ boot = Up /\ trail = NoTrail
  BY DEF LaunchInit
<1>4. LaunchTypes
  <2>1. row \in [Runs -> RowRec] /\ req \in [Clients -> ReqRec]
    BY <1>1, <1>2 DEF LaunchInit
  <2>2. NoTrail \in [faulted : SUBSET Runs, crossed : SUBSET Runs, leaked : SUBSET Runs]
    BY DEF NoTrail
  <2> QED BY <2>1, <2>2, UpFacts DEF LaunchTypes, LaunchInit
<1>5. \A r \in Runs : ~Live(r) /\ ~Present(r)
  BY <1>1, <1>3 DEF Live, Active, Present
<1>6. Fresh /\ Secrets /\ Revived
  BY <1>1, <1>3, <1>5 DEF Fresh, Secrets, Revived
<1>7. Requests /\ Distinct
  BY <1>2, <1>3 DEF Requests, RequestAt, Distinct, Launching
<1>8. Booting
  BY <1>3, <1>5, UpFacts DEF Booting, Sweeping, Loose
<1>9. Capacity
  <2> DEFINE f == [r \in Runs |-> Weight(r)]
  <2>1. f \in [Runs -> Int] /\ \A r \in Runs : f[r] = 0
    BY <1>5 DEF Weight
  <2>2. Admitted = SumFunction(f)
    BY DEF Admitted
  <2> HIDE DEF f
  <2>3. SumFunction(f) = 0
    BY <2>1, NoRunZero, SumZero
  <2> QED BY <1>2, <1>3, <2>2, <2>3, LaunchAssumption DEF Capacity
<1> QED BY <1>4, <1>6, <1>7, <1>8, <1>9 DEF LaunchInv

(* Every step of a submit, of the supervisor, of the boot and every crash  *)
(* keeps it.                                                               *)
LEMMA LaunchKept == LaunchInv /\ [LaunchNext]_LaunchVars => LaunchInv'
<1> SUFFICES ASSUME LaunchInv, [LaunchNext]_LaunchVars PROVE LaunchInv'
  OBVIOUS
<1>1. CASE UNCHANGED LaunchVars
  <2>1. UNCHANGED <<row, job, secret, req, boot, used, trail>>
    BY <1>1 DEF LaunchVars
  <2>2. Booting'
    BY <2>1 DEF LaunchInv, Booting, Sweeping, Loose, Met, Settled, Present, InFlight, Live, Reapable
  <2> QED BY <2>1, <2>2, BootFacts, OutsideBoot
<1>2. ASSUME NEW c \in Clients, NEW gb \in Volumes, run_spec(c, gb) PROVE LaunchInv'
  BY <1>2, RunSpecStep
<1>3. ASSUME NEW c \in Clients,
             \/ provision_run(c) \/ provision_refused(c)
             \/ create_secret(c) \/ create_workload(c)
             \/ _delete_secret_quietly(c) \/ _adopt_secret(c)
             \/ commit_launch(c) \/ commit_failure(c)
      PROVE  LaunchInv'
  BY <1>3, ProvisionStep, RefusedStep, CreateSecretStep, CreateWorkloadStep, CleanupStep,
     AdoptStep, CommitLaunchStep, CommitFailureStep
<1>4. ASSUME NEW r \in Runs, NEW force \in BOOLEAN, stop_run(r, force) PROVE LaunchInv'
  BY <1>4, StopRunStep
<1>5. ASSUME NEW r \in Runs,
             \/ run_ends(r) \/ _destroy_fleet(r) \/ reap_window_passes(r)
             \/ delete_run(r) \/ job_expires(r) \/ probe_run(r)
      PROVE  LaunchInv'
  BY <1>5, RunEndsStep, DestroyFleetStep, WindowStep, DeleteRunStep, ExpiryStep, ProbeStep
<1>6. ASSUME NEW k \in Kinds, list_run_ids(k) PROVE LaunchInv'
  BY <1>6, ListStep
<1>7. CASE \/ reconcile_on_boot \/ commit_verdicts \/ _live_run_ids \/ _sweep_stray_fleets
           \/ _destroy_stray \/ reconciled \/ Crash
  BY <1>7, LoadStep, VerdictsStep, LiveIdsStep, LastLookStep, DestroyStrayStep,
     ReconciledStep, CrashStep
<1> QED BY <1>1, <1>2, <1>3, <1>4, <1>5, <1>6, <1>7 DEF LaunchNext

(* However submits, stops, reapers, boots and crashes interleave, the      *)
(* inductive invariant of provision_run and reconcile_on_boot holds.       *)
THEOREM LaunchInvariant == LaunchSpec => []LaunchInv
BY LaunchStarts, LaunchKept, PTL DEF LaunchSpec

(* The target's cap of run_spec's gate holds over all active runs unless   *)
(* one of them was let in by a race or came back from the dead.            *)
THEOREM CapKept == LaunchSpec => []CapHeld
<1>1. LaunchInv => CapHeld
  <2> SUFFICES ASSUME LaunchInv, \A r \in Runs : Live(r) => ~row[r].raced
               PROVE  ~(_active_gb_day_for_target > Cap)
    BY DEF CapHeld
  <2>1. Admitted = _active_gb_day_for_target /\ _active_gb_day_for_target \in Nat
    BY ActiveBound DEF LaunchInv
  <2>2. Admitted <= Cap /\ Cap \in Nat
    BY LaunchAssumption DEF LaunchInv, Capacity
  <2> QED BY <2>1, <2>2
<1> QED BY <1>1, LaunchInvariant, PTL

(* After reconcile_on_boot nothing is left at a driver that nobody wants   *)
(* or will reap, and no token Secret outlives its launch unowned, but for  *)
(* the excuses the record names.                                           *)
THEOREM NothingLeft == LaunchSpec => []NothingLeftBehind
<1>1. LaunchInv => NothingLeftBehind
  <2> SUFFICES ASSUME LaunchInv, NEW r \in Runs
               PROVE  /\ boot.pc = "up" /\ Present(r) /\ ~Live(r) /\ ~InFlight(r) =>
                             Reapable(r) \/ r \in trail.faulted \cup trail.crossed
                      /\ secret[r] = "bare" /\ ~InFlight(r) => r \in trail.leaked
                      /\ secret[r] = "owned" => Present(r)
    BY DEF NothingLeftBehind
  <2>1. boot.pc = "up" => ~Loose(r)
    BY BootFacts DEF Met
  <2>2. /\ secret[r] = "bare" /\ ~InFlight(r) => r \in trail.leaked
        /\ secret[r] = "owned" => Present(r)
    BY DEF LaunchInv, Secrets
  <2> QED BY <2>1, <2>2 DEF Loose
<1> QED BY <1>1, LaunchInvariant, PTL

(* The sweep of _sweep_stray_fleets destroys only workloads of runs on     *)
(* record as over, never one whose launch is still on its way.             *)
THEOREM SweepSparesLaunches == LaunchSpec => LaunchSurvivesBoot
<1> DEFINE Spared ==
        boot.pc = "destroy" /\ boot'.pc = "verify" =>
          \A r \in Runs : Present(r) /\ job'[r] = "none" =>
              row[r].state \in {"ended", "deleted"} \/ r \in trail.crossed
<1>1. LaunchInv /\ [LaunchNext]_LaunchVars => [Spared]_LaunchVars
  <2> SUFFICES ASSUME LaunchInv, [LaunchNext]_LaunchVars,
                      boot.pc = "destroy", boot'.pc = "verify",
                      NEW r \in Runs, Present(r), job'[r] = "none"
               PROVE  Settled(r)
    BY DEF Settled
  <2>1. boot' # boot
    OBVIOUS
  <2>2. ~(UNCHANGED LaunchVars)
    BY <2>1 DEF LaunchVars
  <2>3. ~Crash
    BY UpFacts DEF Crash
  <2>4. /\ \A c \in Clients : \A gb \in Volumes : ~run_spec(c, gb)
        /\ \A c \in Clients : /\ ~provision_run(c) /\ ~provision_refused(c) /\ ~create_secret(c)
                              /\ ~create_workload(c) /\ ~_delete_secret_quietly(c)
                              /\ ~_adopt_secret(c) /\ ~commit_launch(c) /\ ~commit_failure(c)
    BY <2>1 DEF run_spec, provision_run, provision_refused, create_secret, create_workload,
                _delete_secret_quietly, _adopt_secret, commit_launch, commit_failure
  <2>5. /\ \A q \in Runs : \A force \in BOOLEAN : ~stop_run(q, force)
        /\ \A q \in Runs : /\ ~run_ends(q) /\ ~_destroy_fleet(q) /\ ~reap_window_passes(q)
                           /\ ~delete_run(q) /\ ~job_expires(q) /\ ~probe_run(q)
    BY <2>1 DEF stop_run, run_ends, _destroy_fleet, reap_window_passes, delete_run, job_expires,
                probe_run
  <2>6. /\ \A k \in Kinds : ~list_run_ids(k)
        /\ ~reconcile_on_boot /\ ~commit_verdicts /\ ~_live_run_ids /\ ~_sweep_stray_fleets
        /\ ~reconciled
    BY DEF list_run_ids, reconcile_on_boot, commit_verdicts, _live_run_ids, _sweep_stray_fleets,
           reconciled
  <2>7. _destroy_stray
    BY <2>2, <2>3, <2>4, <2>5, <2>6 DEF LaunchNext
  <2>8. PICK m \in Runs : m = Min(boot.strays) /\ m \in boot.strays
    BY BootFacts, LeastMember, NoRunZero
  <2>9. r = m
    <3>1. CASE Gone(m)
      BY <3>1, GoneTypes DEF LaunchInv, Present
    <3>2. CASE UNCHANGED job
      BY <3>2 DEF Present
    <3> QED BY <2>7, <2>8, <3>1, <3>2 DEF _destroy_stray
  <2> QED BY <2>8, <2>9, BootFacts
<1>2. LaunchSpec => [][Spared]_LaunchVars
  BY <1>1, LaunchInvariant, PTL DEF LaunchSpec
<1> QED BY <1>2 DEF LaunchSurvivesBoot

-----------------------------------------------------------------------------
(***************************************************************************)
(* The sizing of a fleet (module FleetSizing).                             *)
(***************************************************************************)

(* A whole number dealt to n alike: the first t % n get one more.          *)
LEMMA EvenSplit ==
    ASSUME NEW t \in Nat, NEW n \in Nat \ {0}
    PROVE  largest_remainder(t, Equal(n)) =
               [i \in 1 .. n |-> t \div n + (IF i - 1 < t % n THEN 1 ELSE 0)]
<1> DEFINE w == Equal(n)
           q == t \div n
           floors == largest_remainder_Floors(t, w)
           Rem(i) == (t * w[i]) % n
           Ahead(i) == {j \in DOMAIN w : Rem(j) > Rem(i) \/ (Rem(j) = Rem(i) /\ j < i)}
<1>1. w \in [1 .. n -> Int] /\ DOMAIN w = 1 .. n /\ \A i \in 1 .. n : w[i] = 1
  BY DEF Equal
<1>2. q \in Nat /\ t % n \in 0 .. n - 1 /\ t = n * q + (t % n)
  BY Division
<1>3. SumFunction(w) = n
  <2>1. /\ 1 .. 1 + n - 1 = 1 .. n /\ 0 \in 0 .. n /\ 1 \in Int
        /\ w \in [1 .. 1 + n - 1 -> Int]
        /\ \A i \in 1 .. 1 + n - 1 : w[i] = 1 + (IF i - 1 < 0 THEN 1 ELSE 0)
    BY <1>1
  <2> HIDE DEF w
  <2>2. SumFunction(w) = n * 1 + 0
    BY <2>1, SumStair, Zenon
  <2> QED BY <2>2
<1>4. floors = [i \in 1 .. n |-> q]
  BY <1>1, <1>3 DEF largest_remainder_Floors
<1>5. SumFunction(floors) = n * q
  <2>1. /\ 1 .. 1 + n - 1 = 1 .. n /\ 0 \in 0 .. n /\ 1 \in Int /\ q \in Int
        /\ floors \in [1 .. 1 + n - 1 -> Int]
        /\ \A i \in 1 .. 1 + n - 1 : floors[i] = q + (IF i - 1 < 0 THEN 1 ELSE 0)
    BY <1>2, <1>4
  <2> HIDE DEF floors, q
  <2>2. SumFunction(floors) = n * q + 0
    BY <2>1, SumStair, Zenon
  <2> QED BY <2>1, <2>2
<1>6. t - SumFunction(floors) = t % n
  BY <1>2, <1>5
<1>7. ASSUME NEW i \in 1 .. n PROVE Cardinality(Ahead(i)) = i - 1
  <2>1. \A j \in 1 .. n : Rem(j) = t % n
    BY <1>1
  <2>2. Ahead(i) = 1 .. i - 1
    <3> HIDE DEF w, Rem
    <3> QED BY <1>1, <1>2, <2>1
  <2>3. 1 \in Int /\ i - 1 \in Int
    OBVIOUS
  <2> HIDE DEF Ahead
  <2> QED BY <2>2, <2>3, FS_Interval
<1>8. largest_remainder(t, w) =
        [i \in 1 .. n |-> floors[i] + IF Cardinality(Ahead(i)) < t - SumFunction(floors) THEN 1 ELSE 0]
  BY <1>1, <1>3 DEF largest_remainder
<1> HIDE DEF w, floors, Ahead
<1> QED BY <1>4, <1>6, <1>7, <1>8 DEF w

-----------------------------------------------------------------------------
(* The inductive invariant of the sizing: a verdict is the verdict of the  *)
(* spec, the rows are those of the fleet, and every share in a row or with *)
(* a worker has been through the ceiling check.  The conf of a worker is   *)
(* the one its own copy of the fleet size gives.                           *)
LeaseFields == {"row", "held", "share", "retarget"}
WorkerFields == {"slot", "total", "share", "conf"}

Judged ==
    /\ DOMAIN spec # {} => spec.s \in Specs /\ spec.verdict = Verdict(spec.s)
    /\ Running => DOMAIN spec # {} /\ spec.verdict = "admitted" /\ run.mode = EffMode(spec.s)

Rows ==
    /\ run.workers \in Nat /\ DOMAIN run = {"mode", "rate", "workers"}
    /\ DOMAIN lease = Slots /\ DOMAIN worker = Slots
    /\ \A i \in Slots :
         /\ DOMAIN lease[i] = LeaseFields /\ DOMAIN worker[i] = WorkerFields
         /\ lease[i].row \in BOOLEAN /\ lease[i].held \in BOOLEAN
         /\ lease[i].held => lease[i].row
         /\ lease[i].row => i < run.workers

(* A share that was checked, or one of a spec whose cap is left out.       *)
Granted(sh) == spec.s.cap >= Unset => Fits(sh)

(* What the worker of a slot knows, and what it has written.               *)
Staffed(i) ==
    /\ worker[i].slot = i /\ worker[i].total \in Nat /\ i < worker[i].total
    /\ Granted(worker[i].share)
    /\ spec.s.engine = "eventgen" =>
         /\ DOMAIN worker[i].conf.counts = DOMAIN spec.s.counts
         /\ run.mode = "count_interval" =>
              worker[i].conf.counts = _rewrite_count_interval(spec.s.counts, i, worker[i].total)

Sized(i) ==
    /\ lease[i].row => Granted(lease[i].share)
    /\ lease[i].row /\ lease[i].held => Staffed(i)

SizingInv == Judged /\ Rows /\ \A i \in Slots : Sized(i)

-----------------------------------------------------------------------------
(* The names of the refusals are not the verdict of admission.             *)
LEMMA Admission ==
    ASSUME NEW s, Verdict(s) = "admitted"
    PROVE  \A i \in 1 .. 11 : ~Gates(s)[i][2]
<1> DEFINE G == Gates(s)
           failed == {i \in DOMAIN G : G[i][2]}
<1>1. DOMAIN G = 1 .. 11
  BY DEF Gates
<1>2. \A i \in 1 .. 11 : G[i][1] # "admitted"
  BY DEF Gates
<1>3. Verdict(s) = IF failed = {} THEN "admitted" ELSE G[Min(failed)][1]
  BY DEF Verdict
<1> HIDE DEF G
<1>4. ASSUME failed # {} PROVE Min(failed) \in 1 .. 11
  <2>1. failed \subseteq Nat
    BY <1>1
  <2>2. \E x \in failed : \A y \in failed : x <= y
    BY <1>4, <2>1, LeastNat
  <2>3. Min(failed) \in failed
    BY <2>2 DEF Min
  <2> QED BY <1>1, <2>3
<1>5. failed = {}
  BY <1>2, <1>3, <1>4
<1> QED BY <1>1, <1>5 DEF G

(* What the gates leave of an admitted spec.                               *)
LEMMA AdmittedSpec ==
    ASSUME NEW s \in Specs, Verdict(s) = "admitted"
    PROVE  /\ effective_workers(s.engine, s.workers) = s.workers
           /\ s.workers \in Nat \ {0}
           /\ check_sharding(s, s.workers)
           /\ s.cap >= Unset =>
                check_slice(EffMode(s), Share(EffRate(s), s.workers), s.bpe, Ceil(s))
<1> DEFINE G == Gates(s)
<1>1. s \in SpecType
  BY SizingAssumption
<1>2. /\ G[7][2] = (_is_replay_run(s) /\ s.workers # 1) /\ G[8][2] = OverCeiling(s)
      /\ G[9][2] = ~check_sharding(s, s.workers) /\ G[11][2] = OverBackfill(s)
  BY DEF Gates
<1>3. /\ ~(_is_replay_run(s) /\ s.workers # 1) /\ ~OverCeiling(s)
      /\ check_sharding(s, s.workers) /\ ~OverBackfill(s)
  <2>1. 7 \in 1 .. 11 /\ 8 \in 1 .. 11 /\ 9 \in 1 .. 11 /\ 11 \in 1 .. 11
    OBVIOUS
  <2>2. ~G[7][2] /\ ~G[8][2] /\ ~G[9][2] /\ ~G[11][2]
    BY <2>1, Admission, Zenon
  <2> QED BY <1>2, <2>2, Zenon
<1>4. effective_workers(s.engine, s.workers) = s.workers /\ s.workers \in Nat \ {0}
  BY <1>1, <1>3 DEF effective_workers, _is_replay_run, SpecType
<1>5. ASSUME s.cap >= Unset
      PROVE  check_slice(EffMode(s), Share(EffRate(s), s.workers), s.bpe, Ceil(s))
  <2>1. CASE Backfill(s)
    <3>1. CheckedCap(s) = plan_backfill(s)
      BY <1>1, <1>5, <2>1 DEF SpecType, Backfill, CheckedCap, plan_backfill, Unset
    <3> QED BY <1>3, <2>1, <3>1 DEF OverBackfill, EffMode, EffRate, _per_worker_share
  <2>2. CASE ~Backfill(s)
    BY <1>3, <2>2 DEF OverCeiling, EffMode, EffRate, _per_worker_share
  <2> QED BY <2>1, <2>2
<1> QED BY <1>3, <1>4, <1>5

(* A share dealt out of a checked rate passes the check.                   *)
LEMMA Dealt ==
    ASSUME NEW mode, NEW rate, NEW n, NEW i \in 0 .. n - 1, NEW bpe, NEW c,
           check_slice(mode, Share(rate, n), bpe, c)
    PROVE  check_slice(mode, apportion_shares(mode, rate, n)[i], bpe, c)
<1>1. CASE mode = "count_interval"
  BY <1>1 DEF check_slice
<1>2. CASE mode # "count_interval"
  <2>1. apportion_shares(mode, rate, n)[i] = Share(rate, n)
    BY <1>2 DEF apportion_shares
  <2> QED BY <2>1
<1> QED BY <1>1, <1>2

(* Nothing is launched at the start.                                       *)
LEMMA InitSizing == SizingInit => SizingInv
<1> SUFFICES ASSUME SizingInit PROVE SizingInv
  OBVIOUS
<1>1. DOMAIN spec = {} /\ run = NoRun
  BY DEF SizingInit
<1>2. run.workers = 0 /\ DOMAIN run = {"mode", "rate", "workers"}
  BY <1>1 DEF NoRun
<1>3. DOMAIN NoLease = LeaseFields /\ NoLease.row = FALSE /\ NoLease.held = FALSE
  BY DEF NoLease, LeaseFields
<1>4. DOMAIN NoWorker = WorkerFields
  BY DEF NoWorker, WorkerFields
<1>5. /\ DOMAIN lease = Slots /\ DOMAIN worker = Slots
      /\ \A i \in Slots : lease[i] = NoLease /\ worker[i] = NoWorker
  BY DEF SizingInit
<1>6. Judged /\ Rows
  <2>1. Judged
    BY <1>1, <1>2 DEF Judged, Running
  <2>2. NoLease.row \in BOOLEAN /\ NoLease.held \in BOOLEAN /\ ~NoLease.row /\ ~NoLease.held
    BY <1>3
  <2>3. run.workers \in Nat
    BY <1>2
  <2> HIDE DEF NoLease, NoWorker
  <2>4. Rows
    BY <1>2, <1>3, <1>4, <1>5, <2>2, <2>3, Zenon DEF Rows
  <2> QED BY <2>1, <2>4
<1>7. \A i \in Slots : Sized(i)
  BY <1>3, <1>5 DEF Sized
<1> QED BY <1>6, <1>7 DEF SizingInv

(* The submit.                                                             *)
LEMMA InsertInv ==
    ASSUME SizingInv, NEW s \in Specs, insert_run(s)
    PROVE  SizingInv'
<1> DEFINE n == effective_workers(s.engine, s.workers)
           shares == apportion_shares(EffMode(s), EffRate(s), n)
<1>1. /\ DOMAIN spec = {} /\ ~Running /\ run.workers = 0
      /\ spec' = [s |-> s, verdict |-> Verdict(s)] /\ worker' = worker
  <2>1. DOMAIN spec = {} /\ spec' = [s |-> s, verdict |-> Verdict(s)] /\ worker' = worker
    BY DEF insert_run
  <2> QED BY <2>1 DEF SizingInv, Judged, Rows, Running
<1>2. DOMAIN spec' # {} /\ spec'.s = s /\ spec'.verdict = Verdict(s)
  BY <1>1
<1>3. CASE Verdict(s) # "admitted"
  <2>1. run' = run /\ lease' = lease
    BY <1>3 DEF insert_run
  <2>2. Judged' /\ Rows'
    BY <1>1, <1>2, <2>1 DEF SizingInv, Judged, Rows, Running
  <2>3. \A i \in Slots : ~lease[i].row
    BY <1>1 DEF SizingInv, Rows, Slots
  <2> QED BY <1>1, <2>1, <2>2, <2>3 DEF SizingInv, Sized
<1>4. CASE Verdict(s) = "admitted"
  <2>1. /\ n = s.workers /\ n \in Nat \ {0}
        /\ s.cap >= Unset => check_slice(EffMode(s), Share(EffRate(s), n), s.bpe, Ceil(s))
    BY <1>4, AdmittedSpec
  <2>2. /\ run' = [mode |-> EffMode(s), rate |-> EffRate(s), workers |-> n]
        /\ lease' = [i \in Slots |-> IF i < n THEN [NoLease EXCEPT !.row = TRUE, !.share = shares[i]]
                                     ELSE NoLease]
    BY <1>4 DEF insert_run
  <2> HIDE DEF n, shares
  <2>3. Judged'
    BY <1>2, <1>4, <2>1, <2>2 DEF Judged, Running
  <2>4. ASSUME NEW i \in Slots
        PROVE  /\ DOMAIN lease'[i] = LeaseFields /\ lease'[i].held = FALSE
               /\ lease'[i].row \in BOOLEAN /\ (lease'[i].row <=> i < n)
               /\ i < n => lease'[i].share = shares[i]
    <3>1. CASE i < n
      <4>1. lease'[i] = [NoLease EXCEPT !.row = TRUE, !.share = shares[i]]
        BY <2>2, <3>1
      <4> QED BY <3>1, <4>1 DEF NoLease, LeaseFields
    <3>2. CASE ~(i < n)
      <4>1. lease'[i] = NoLease
        BY <2>2, <3>2
      <4> QED BY <3>2, <4>1 DEF NoLease, LeaseFields
    <3> QED BY <3>1, <3>2
  <2>5. Rows'
    BY <1>1, <2>1, <2>2, <2>4 DEF SizingInv, Rows
  <2>6. ASSUME NEW i \in Slots, i < n, s.cap >= Unset
        PROVE  check_slice(EffMode(s), shares[i], s.bpe, Ceil(s))
    <3>1. i \in 0 .. n - 1
      BY <2>1, <2>6 DEF Slots
    <3> QED BY <2>1, <2>6, <3>1, Dealt DEF shares
  <2>7. \A i \in Slots : Sized(i)'
    BY <1>2, <2>2, <2>4, <2>6 DEF Sized, Granted, Fits
  <2> QED BY <2>3, <2>5, <2>7 DEF SizingInv
<1> QED BY <1>3, <1>4

(* What the conf of a slice is: the one fact a claim and a retarget share. *)
LEMMA Written ==
    ASSUME NEW s \in Specs, NEW mode, NEW slice, NEW history
    PROVE  /\ DOMAIN rewrite(s, mode, slice, history).counts = DOMAIN s.counts
           /\ mode = "count_interval" => rewrite(s, mode, slice, history).counts =
                  _rewrite_count_interval(s.counts, slice.slot, slice.total)
<1>1. mode = "eps" => rewrite(s, mode, slice, history).counts = _rewrite_eps(s.counts, slice.share)
  BY DEF rewrite
<1>2. mode = "count_interval" => rewrite(s, mode, slice, history).counts =
          _rewrite_count_interval(s.counts, slice.slot, slice.total)
  BY DEF rewrite
<1>3. mode \notin {"eps", "count_interval"} => rewrite(s, mode, slice, history).counts = s.counts
  BY DEF rewrite
<1>4. DOMAIN _rewrite_eps(s.counts, slice.share) = DOMAIN s.counts
  BY DEF _rewrite_eps
<1>5. DOMAIN _rewrite_count_interval(s.counts, slice.slot, slice.total) = DOMAIN s.counts
  BY DEF _rewrite_count_interval
<1> QED BY <1>1, <1>2, <1>3, <1>4, <1>5

(* A slot that keeps lease and worker, in a run that keeps spec and mode.  *)
LEMMA SizedKept ==
    ASSUME spec' = spec, run'.mode = run.mode, NEW i \in Slots, Sized(i)
    PROVE  /\ \A sh : Granted(sh)' <=> Granted(sh)
           /\ worker'[i] = worker[i] => (Staffed(i)' <=> Staffed(i))
           /\ lease'[i] = lease[i] /\ worker'[i] = worker[i] => Sized(i)'
<1>1. \A sh : Granted(sh)' <=> Granted(sh)
  BY DEF Granted, Fits
<1>2. worker'[i] = worker[i] => (Staffed(i)' <=> Staffed(i))
  BY <1>1 DEF Staffed
<1> QED BY <1>1, <1>2 DEF Sized

(* The rest of the run: spec, verdict and mode stay.                       *)
LEMMA JudgedKept ==
    ASSUME SizingInv, Running, spec' = spec, run'.mode = run.mode
    PROVE  Judged' /\ spec.s \in Specs
  BY DEF SizingInv, Judged, Running

(* A claim.                                                                *)
LEMMA ClaimSized ==
    ASSUME SizingInv, NEW i \in Slots, claim(i)
    PROVE  SizingInv'
<1> DEFINE slice == [slot |-> i, total |-> run.workers, share |-> lease[i].share]
           conf == IF spec.s.engine = "eventgen"
                     THEN rewrite(spec.s, run.mode, slice, Backfill(spec.s))
                     ELSE [NoConf EXCEPT !.history = Backfill(spec.s)]
           w == [slot |-> i, total |-> run.workers, share |-> lease[i].share, conf |-> conf]
<1>1. /\ lease[i].row /\ i < run.workers /\ run.workers \in Nat
      /\ worker' = [worker EXCEPT ![i] = w] /\ lease' = [lease EXCEPT ![i].held = TRUE]
      /\ spec' = spec /\ run' = run
  BY DEF claim, SizingInv, Rows
<1>2. Running /\ Sized(i)
  BY <1>1 DEF Running, SizingInv, Slots
<1>3. Judged' /\ spec.s \in Specs
  BY <1>1, <1>2, JudgedKept
<1>4. w.slot = i /\ w.total = run.workers /\ w.share = lease[i].share /\ w.conf = conf /\ DOMAIN w = WorkerFields
  BY DEF WorkerFields
<1>5. spec.s.engine = "eventgen" =>
        /\ DOMAIN conf.counts = DOMAIN spec.s.counts
        /\ run.mode = "count_interval" =>
             conf.counts = _rewrite_count_interval(spec.s.counts, i, run.workers)
  <2>1. slice.slot = i /\ slice.total = run.workers
    OBVIOUS
  <2>2. CASE spec.s.engine = "eventgen"
    <3>1. conf = rewrite(spec.s, run.mode, slice, Backfill(spec.s))
      BY <2>2
    <3> HIDE DEF conf, slice
    <3> QED BY <1>3, <2>1, <3>1, Written
  <2> QED BY <2>2
<1> HIDE DEF w, conf
<1>6. /\ DOMAIN lease' = Slots /\ DOMAIN worker' = Slots
      /\ worker'[i] = w /\ \A j \in Slots \ {i} : worker'[j] = worker[j] /\ lease'[j] = lease[j]
      /\ DOMAIN lease'[i] = LeaseFields /\ lease'[i].row = lease[i].row /\ lease'[i].held = TRUE
      /\ lease'[i].share = lease[i].share
  BY <1>1 DEF SizingInv, Rows, LeaseFields
<1>7. Rows'
  BY <1>1, <1>4, <1>6 DEF SizingInv, Rows
<1>8. Sized(i)'
  <2>1. Granted(lease[i].share)
    BY <1>1, <1>2 DEF Sized
  <2>2. Granted(lease[i].share)'
    <3>1. PICK sh : sh = lease[i].share
      OBVIOUS
    <3>2. lease'[i].share = sh
      BY <1>6, <3>1
    <3>3. Granted(sh)'
      BY <1>1, <1>2, <2>1, <3>1, SizedKept
    <3> QED BY <3>2, <3>3 DEF Granted, Fits
  <2>3. worker'[i].share = lease'[i].share
    BY <1>4, <1>6
  <2>4. Staffed(i)'
    BY <1>1, <1>4, <1>5, <1>6, <2>2, <2>3 DEF Staffed, Granted, Fits
  <2> QED BY <2>2, <2>4 DEF Sized
<1>9. ASSUME NEW j \in Slots \ {i} PROVE Sized(j)'
  <2>1. Sized(j)
    BY DEF SizingInv
  <2> QED BY <1>1, <1>6, <2>1, SizedKept
<1> QED BY <1>3, <1>7, <1>8, <1>9 DEF SizingInv

(* A retarget reaches its worker.                                          *)
LEMMA RetargetSized ==
    ASSUME SizingInv, NEW i \in Slots, _retarget(i)
    PROVE  SizingInv'
<1> DEFINE w == worker[i]
           new == [w EXCEPT !.share = lease[i].share]
           x == IF lease[i].share.num = 0 THEN w
                ELSE IF run.mode # "count_interval" /\ InPlace(w.share, lease[i].share) THEN new
                ELSE IF spec.s.engine = "eventgen"
                  THEN [new EXCEPT !.conf = rewrite(spec.s, run.mode, new, FALSE)]
                ELSE new
<1>1. /\ lease[i].held /\ worker' = [worker EXCEPT ![i] = x]
      /\ lease' = [lease EXCEPT ![i].retarget = FALSE]
      /\ spec' = spec /\ run' = run
  BY DEF _retarget
<1>2. /\ DOMAIN lease' = Slots /\ DOMAIN worker' = Slots
      /\ worker'[i] = x /\ \A j \in Slots \ {i} : worker'[j] = worker[j] /\ lease'[j] = lease[j]
      /\ DOMAIN lease'[i] = LeaseFields /\ lease'[i].row = lease[i].row
      /\ lease'[i].held = lease[i].held /\ lease'[i].share = lease[i].share
  <2> HIDE DEF x
  <2> QED BY <1>1 DEF SizingInv, Rows, LeaseFields
<1>3. DOMAIN w = WorkerFields /\ Sized(i) /\ Rows
  BY DEF SizingInv, Rows
<1>4. /\ DOMAIN new = WorkerFields /\ new.slot = w.slot /\ new.total = w.total
      /\ new.share = lease[i].share /\ new.conf = w.conf
  BY <1>3 DEF WorkerFields
<1>5. /\ DOMAIN x = WorkerFields /\ x.slot = w.slot /\ x.total = w.total
      /\ x.share \in {w.share, lease[i].share}
      /\ \/ x.conf = w.conf
         \/ spec.s.engine = "eventgen" /\ x.conf = rewrite(spec.s, run.mode, new, FALSE)
  <2> HIDE DEF new, w
  <2> QED BY <1>3, <1>4 DEF WorkerFields
<1> HIDE DEF x, new, w
<1>6. Rows'
  BY <1>1, <1>2, <1>3, <1>5 DEF Rows
<1>7. CASE ~lease[i].row
  <2>1. Sized(i)'
    BY <1>2, <1>7 DEF Sized
  <2>2. ASSUME NEW j \in Slots \ {i} PROVE Sized(j)'
    <3>1. Sized(j)
      BY DEF SizingInv
    <3> QED BY <1>1, <1>2, <3>1, SizedKept
  <2>3. Judged'
    BY <1>1 DEF SizingInv, Judged, Running
  <2> QED BY <1>6, <2>1, <2>2, <2>3 DEF SizingInv
<1>8. CASE lease[i].row
  <2>1. Running /\ Granted(lease[i].share) /\ Staffed(i)
    BY <1>1, <1>3, <1>8 DEF Running, Rows, Sized, Slots
  <2>2. Judged' /\ spec.s \in Specs
    BY <1>1, <2>1, JudgedKept
  <2>3. \A sh : Granted(sh)' <=> Granted(sh)
    BY <1>1, <1>3, SizedKept
  <2>5. Granted(x.share) /\ Granted(lease[i].share)
    BY <1>5, <2>1 DEF Staffed, w
  <2>6. PICK sh : sh = x.share
    OBVIOUS
  <2>7. PICK sg : sg = lease[i].share
    OBVIOUS
  <2>8. Granted(sh)' /\ Granted(sg)'
    BY <2>3, <2>5, <2>6, <2>7
  <2>9. worker'[i].share = sh /\ lease'[i].share = sg
    BY <1>2, <2>6, <2>7
  <2>10. spec.s.engine = "eventgen" =>
           /\ DOMAIN x.conf.counts = DOMAIN spec.s.counts
           /\ run.mode = "count_interval" =>
                x.conf.counts = _rewrite_count_interval(spec.s.counts, x.slot, x.total)
    <3>1. CASE x.conf = w.conf
      BY <1>5, <2>1, <3>1 DEF Staffed, w
    <3>2. CASE x.conf = rewrite(spec.s, run.mode, new, FALSE)
      <4>1. new.slot = x.slot /\ new.total = x.total
        BY <1>4, <1>5
      <4>2. /\ DOMAIN x.conf.counts = DOMAIN spec.s.counts
            /\ run.mode = "count_interval" =>
                 x.conf.counts = _rewrite_count_interval(spec.s.counts, new.slot, new.total)
        <5>1. PICK h : h = FALSE
          OBVIOUS
        <5>2. x.conf = rewrite(spec.s, run.mode, new, h)
          BY <3>2, <5>1
        <5> QED BY <2>2, <5>2, Written
      <4> QED BY <4>1, <4>2
    <3> QED BY <1>5, <3>1, <3>2
  <2>11. x.slot = i /\ x.total \in Nat /\ i < x.total
    BY <1>5, <2>1 DEF Staffed, w
  <2>12. Granted(worker[i].share)' /\ Granted(lease[i].share)'
    BY <2>8, <2>9 DEF Granted, Fits
  <2>13. Staffed(i)'
    BY <1>1, <1>2, <2>10, <2>11, <2>12 DEF Staffed
  <2>14. Sized(i)'
    BY <2>12, <2>13 DEF Sized
  <2>15. ASSUME NEW j \in Slots \ {i} PROVE Sized(j)'
    <3>1. Sized(j)
      BY DEF SizingInv
    <3> QED BY <1>1, <1>2, <3>1, SizedKept
  <2> QED BY <1>6, <2>2, <2>14, <2>15 DEF SizingInv
<1> QED BY <1>7, <1>8

(* A worker is lost.                                                       *)
LEMMA ReplaceSized ==
    ASSUME SizingInv, NEW i \in Slots, replace(i)
    PROVE  SizingInv'
<1>1. /\ Running /\ spec' = spec /\ run' = run
      /\ lease' = [lease EXCEPT ![i].held = FALSE, ![i].retarget = FALSE]
      /\ worker' = [worker EXCEPT ![i] = NoWorker]
  BY DEF replace, Change
<1>2. /\ DOMAIN lease' = Slots /\ DOMAIN worker' = Slots /\ worker'[i] = NoWorker
      /\ \A j \in Slots \ {i} : worker'[j] = worker[j] /\ lease'[j] = lease[j]
      /\ DOMAIN lease'[i] = LeaseFields /\ lease'[i].row = lease[i].row
      /\ lease'[i].held = FALSE /\ lease'[i].share = lease[i].share
  BY <1>1 DEF SizingInv, Rows, LeaseFields
<1>3. DOMAIN NoWorker = WorkerFields
  BY DEF NoWorker, WorkerFields
<1>4. Judged'
  BY <1>1, JudgedKept
<1>5. Rows'
  BY <1>1, <1>2, <1>3 DEF SizingInv, Rows
<1>6. ASSUME NEW j \in Slots PROVE Sized(j)'
  <2>1. Sized(j)
    BY DEF SizingInv
  <2>2. CASE j # i
    BY <1>1, <1>2, <2>1, <2>2, SizedKept
  <2>3. CASE j = i
    <3>1. lease[i].row => Granted(lease[i].share)'
      <4>1. PICK sh : sh = lease[i].share
        OBVIOUS
      <4>2. lease[i].row => Granted(sh)
        BY <2>1, <2>3, <4>1 DEF Sized
      <4>3. lease[i].row => Granted(sh)'
        BY <1>1, <2>1, <4>2, SizedKept
      <4> QED BY <1>2, <4>1, <4>3 DEF Granted, Fits
    <3> QED BY <1>2, <2>3, <3>1 DEF Sized
  <2> QED BY <2>2, <2>3
<1> QED BY <1>4, <1>5, <1>6 DEF SizingInv

(* New shares for a fleet of n: what a scale and a rescale have in common. *)
LEMMA ReapportionSized ==
    ASSUME SizingInv, Running, spec' = spec, NEW rate, NEW n \in Nat \ {0},
           _guard_run_ceiling(rate, n), lease' = Reapportioned(rate, n),
           run'.mode = run.mode, run'.workers = n, DOMAIN run' = {"mode", "rate", "workers"},
           DOMAIN worker' = Slots,
           \A i \in Slots : /\ DOMAIN worker'[i] = WorkerFields
                            /\ i < n => worker'[i] = worker[i]
    PROVE  SizingInv'
<1> DEFINE shares == apportion_shares(run.mode, rate, n)
<1>0. /\ \A i \in Slots : i \in Int
      /\ lease' = [i \in Slots |->
           IF i >= n THEN NoLease
           ELSE [lease[i] EXCEPT !.row = TRUE, !.share = shares[i], !.retarget = lease[i].held]]
  <2>1. \A i \in Slots : i \in Int
    BY DEF Slots
  <2> QED BY <2>1, Zenon DEF Reapportioned
<1> HIDE DEF shares
<1>1. Judged'
  BY JudgedKept
<1>2. ASSUME NEW i \in Slots, i < n
      PROVE  /\ DOMAIN lease'[i] = LeaseFields /\ lease'[i].row = TRUE
             /\ lease'[i].held = lease[i].held /\ lease'[i].share = shares[i]
  <2>1. lease'[i] = [lease[i] EXCEPT !.row = TRUE, !.share = shares[i], !.retarget = lease[i].held]
    <3>0. i \in Int
      BY DEF Slots
    <3>1. ~(i >= n)
      BY <1>2, <3>0
    <3> QED BY <1>0, <3>1, Zenon
  <2> HIDE DEF shares
  <2> QED BY <2>1 DEF SizingInv, Rows, LeaseFields
<1>3. ASSUME NEW i \in Slots, ~(i < n)
      PROVE  lease'[i] = NoLease
  <2>0. i \in Int
    BY DEF Slots
  <2>1. i >= n
    BY <1>3, <2>0
  <2> QED BY <1>0, <1>3, <2>1, Zenon
<1>4. /\ DOMAIN NoLease = LeaseFields /\ NoLease.row = FALSE /\ NoLease.held = FALSE
  BY DEF NoLease, LeaseFields
<1>5. DOMAIN lease' = Slots
  BY DEF Reapportioned
<1> HIDE DEF shares
<1>6. Rows'
  <2>1. ASSUME NEW i \in Slots
        PROVE  /\ DOMAIN lease'[i] = LeaseFields /\ DOMAIN worker'[i] = WorkerFields
               /\ lease'[i].row \in BOOLEAN /\ lease'[i].held \in BOOLEAN
               /\ lease'[i].held => lease'[i].row
               /\ lease'[i].row => i < n
    <3>1. CASE i < n
      BY <1>2, <3>1 DEF SizingInv, Rows
    <3>2. CASE ~(i < n)
      BY <1>3, <1>4, <3>2
    <3> QED BY <3>1, <3>2
  <2> QED BY <1>5, <2>1 DEF Rows
<1>7. ASSUME NEW i \in Slots PROVE Sized(i)'
  <2>0. Sized(i)
    BY DEF SizingInv
  <2>1. CASE i < n
    <3>1. i \in 0 .. n - 1
      BY <2>1 DEF Slots
    <3>2. check_slice(run.mode, shares[i], spec.s.bpe, Ceil(spec.s))
      BY <3>1, Dealt DEF shares, _guard_run_ceiling, _per_worker_share
    <3>3. Granted(lease[i].share)'
      BY <1>2, <2>1, <3>2 DEF Granted, Fits
    <3>4. worker'[i] = worker[i]
      BY <2>1
    <3>5. lease[i].held => Staffed(i)'
      <4>1. lease[i].held => Staffed(i)
        BY <2>0 DEF Sized, SizingInv, Rows
      <4> QED BY <2>0, <3>4, <4>1, SizedKept
    <3> QED BY <1>2, <2>1, <3>3, <3>5 DEF Sized
  <2>2. CASE ~(i < n)
    BY <1>3, <1>4, <2>2 DEF Sized
  <2> QED BY <2>1, <2>2
<1> QED BY <1>1, <1>6, <1>7 DEF SizingInv

(* A scale: the fleet gets another size at the same rate.                  *)
LEMMA ScaleSized ==
    ASSUME SizingInv, NEW n \in 1 .. MaxWorkers, scale_run(n)
    PROVE  SizingInv'
<1>1. /\ Running /\ spec' = spec /\ run' = [run EXCEPT !.workers = n]
      /\ _guard_run_ceiling(run.rate, n) /\ lease' = Reapportioned(run.rate, n)
      /\ worker' = [i \in Slots |-> IF i < n THEN worker[i] ELSE NoWorker]
  BY DEF scale_run, Change
<1>2. n \in Nat \ {0}
  BY SizingAssumption
<1>3. DOMAIN run' = {"mode", "rate", "workers"} /\ run'.workers = n /\ run'.mode = run.mode
  BY <1>1 DEF SizingInv, Rows
<1>4. /\ DOMAIN worker' = Slots
      /\ \A i \in Slots : /\ DOMAIN worker'[i] = WorkerFields
                          /\ i < n => worker'[i] = worker[i]
  <2>1. DOMAIN NoWorker = WorkerFields
    BY DEF NoWorker, WorkerFields
  <2> QED BY <1>1, <2>1 DEF SizingInv, Rows
<1>5. PICK rate : rate = run.rate
  OBVIOUS
<1>6. _guard_run_ceiling(rate, n) /\ lease' = Reapportioned(rate, n)
  BY <1>1, <1>5
<1> QED BY <1>1, <1>2, <1>3, <1>4, <1>6, ReapportionSized

(* A rescale: the same fleet gets another rate.                            *)
LEMMA RescaleSized ==
    ASSUME SizingInv, NEW rate \in Rates, rescale_run(rate)
    PROVE  SizingInv'
<1>1. /\ Running /\ spec' = spec /\ run' = [run EXCEPT !.rate = rate]
      /\ _guard_run_ceiling(rate, run.workers) /\ lease' = Reapportioned(rate, run.workers)
      /\ worker' = worker
  BY DEF rescale_run, Change
<1>2. PICK n : n = run.workers
  OBVIOUS
<1>3. n \in Nat \ {0} /\ _guard_run_ceiling(rate, n) /\ lease' = Reapportioned(rate, n)
  BY <1>1, <1>2 DEF SizingInv, Rows, Running
<1>4. DOMAIN run' = {"mode", "rate", "workers"} /\ run'.workers = n /\ run'.mode = run.mode
  BY <1>1, <1>2 DEF SizingInv, Rows
<1>5. /\ DOMAIN worker' = Slots
      /\ \A i \in Slots : /\ DOMAIN worker'[i] = WorkerFields
                          /\ i < n => worker'[i] = worker[i]
  BY <1>1 DEF SizingInv, Rows
<1> QED BY <1>1, <1>3, <1>4, <1>5, ReapportionSized

(* Every step keeps it.                                                    *)
LEMMA StepSizing == SizingInv /\ [SizingNext]_SizingVars => SizingInv'
<1> SUFFICES ASSUME SizingInv, [SizingNext]_SizingVars PROVE SizingInv'
  OBVIOUS
<1>1. ASSUME NEW s \in Specs, insert_run(s) PROVE SizingInv'
  BY <1>1, InsertInv
<1>2. ASSUME NEW n \in 1 .. MaxWorkers, scale_run(n) PROVE SizingInv'
  BY <1>2, ScaleSized
<1>3. ASSUME NEW r \in Rates, rescale_run(r) PROVE SizingInv'
  BY <1>3, RescaleSized
<1>4. ASSUME NEW i \in Slots, claim(i) PROVE SizingInv'
  BY <1>4, ClaimSized
<1>5. ASSUME NEW i \in Slots, replace(i) PROVE SizingInv'
  BY <1>5, ReplaceSized
<1>6. ASSUME NEW i \in Slots, _retarget(i) PROVE SizingInv'
  BY <1>6, RetargetSized
<1>7. CASE UNCHANGED SizingVars
  <2>1. spec' = spec /\ run' = run /\ lease' = lease /\ worker' = worker
    BY <1>7 DEF SizingVars
  <2> QED BY <2>1 DEF SizingInv, Judged, Rows, Running, Sized, Staffed, Granted, Fits
<1> QED BY <1>1, <1>2, <1>3, <1>4, <1>5, <1>6, <1>7 DEF SizingNext

(* What the workers of an admitted spec know and hold, at every moment.    *)
THEOREM SizingInvariant == SizingSpec => []SizingInv
<1> QED BY InitSizing, StepSizing, PTL DEF SizingSpec

(* The share of every slot and of every worker fits its ceiling.           *)
LEMMA UnderCeiling == SizingInv => SharesUnderCeiling
<1> SUFFICES ASSUME SizingInv PROVE SharesUnderCeiling
  OBVIOUS
<1> QED BY DEF SizingInv, Sized, Staffed, Granted, SharesUnderCeiling, Held

(* The count a slot of n is dealt is not 0 where the gate said so.         *)
LEMMA CountsReach ==
    ASSUME NEW s \in Specs, NEW n \in Nat \ {0}, NEW i \in 0 .. n - 1,
           check_sharding(s, n), s.engine = "eventgen", s.mode = "count_interval",
           NEW c, c \in DOMAIN s.counts, s.counts[c] # 0
    PROVE  \E k \in DOMAIN s.counts : _rewrite_count_interval(s.counts, i, n)[k] # 0
<1> DEFINE C == s.counts
           R == _rewrite_count_interval(C, i, n)
<1>1. C \in Seq(Int) /\ DOMAIN C \subseteq Nat /\ \A k \in DOMAIN C : C[k] \in Int
  <2>1. s \in SpecType
    BY SizingAssumption
  <2>2. C \in Seq(Int)
    BY <2>1 DEF SpecType
  <2> HIDE DEF C
  <2> QED BY <2>2
<1>2. \A k \in DOMAIN C : R[k] = IF C[k] < 0 THEN C[k] ELSE largest_remainder(C[k], Equal(n))[i + 1]
  BY DEF _rewrite_count_interval
<1> HIDE DEF C, R
<1>3. CASE \E k \in DOMAIN C : C[k] < 0
  <2>1. PICK k \in DOMAIN C : C[k] < 0
    BY <1>3
  <2>2. R[k] # 0
    BY <1>1, <1>2, <2>1
  <2> QED BY <2>2 DEF R, C
<1>4. CASE ~(\E k \in DOMAIN C : C[k] < 0) /\ n = 1
  <2>1. c \in DOMAIN C /\ C[c] # 0
    BY DEF C
  <2>2. C[c] \in Nat /\ ~(C[c] < 0)
    BY <1>1, <1>4, <2>1
  <2>3. largest_remainder(C[c], Equal(1))[1] = C[c] \div 1 + (IF 1 - 1 < C[c] % 1 THEN 1 ELSE 0)
    <3>1. 1 \in 1 .. 1 /\ 1 \in Nat \ {0}
      OBVIOUS
    <3>2. largest_remainder(C[c], Equal(1)) =
            [j \in 1 .. 1 |-> C[c] \div 1 + (IF j - 1 < C[c] % 1 THEN 1 ELSE 0)]
      BY <2>2, <3>1, EvenSplit
    <3> QED BY <3>1, <3>2
  <2>4. C[c] \div 1 = C[c] /\ C[c] % 1 = 0
    <3>1. /\ C[c] \div 1 \in Nat /\ C[c] % 1 \in 0 .. 1 - 1
          /\ C[c] = 1 * (C[c] \div 1) + (C[c] % 1)
      BY <2>2, Division
    <3> QED BY <2>2, <3>1
  <2>5. i + 1 = 1
    BY <1>4
  <2>6. R[c] # 0
    BY <1>2, <1>4, <2>1, <2>2, <2>3, <2>4, <2>5
  <2> QED BY <2>1, <2>6 DEF R, C
<1>5. CASE ~(\E k \in DOMAIN C : C[k] < 0) /\ n # 1
  <2> DEFINE S == {k \in 1 .. n : \E j \in DOMAIN C : largest_remainder(C[j], Equal(n))[k] > 0}
  <2>1. count_interval_active_workers(C, n) >= n
    <3>1. C # <<>>
      BY DEF C
    <3> QED BY <1>5, <3>1 DEF check_sharding, C
  <2>2. Cardinality(S) >= n
    BY <1>5, <2>1 DEF count_interval_active_workers
  <2>3. S = 1 .. n
    <3>1. S \subseteq 1 .. n
      OBVIOUS
    <3> HIDE DEF S
    <3> QED BY <2>2, <3>1, AllOfThem
  <2>4. i + 1 \in S
    <3> HIDE DEF S
    <3> QED BY <2>3
  <2>5. PICK j \in DOMAIN C : largest_remainder(C[j], Equal(n))[i + 1] > 0
    BY <2>4
  <2>6. R[j] = largest_remainder(C[j], Equal(n))[i + 1]
    BY <1>2, <1>5
  <2> QED BY <2>5, <2>6 DEF R, C
<1> QED BY <1>3, <1>4, <1>5

(* The worker of slot i of an admitted fleet has something to generate.    *)
LEMMA WorkerWorks ==
    ASSUME SizingInv, Running, NEW i \in Held,
           worker[i].total = effective_workers(spec.s.engine, spec.s.workers)
    PROVE  \/ Assigned(spec.s, run.mode, worker[i]) > 0
           \/ spec.s.engine = "eventgen" /\ \A k \in DOMAIN spec.s.counts : spec.s.counts[k] = 0
<1> DEFINE s == spec.s
           n == s.workers
           w == worker[i]
<1>1. /\ s \in Specs /\ Verdict(s) = "admitted" /\ run.mode = EffMode(s)
      /\ i \in Slots /\ Staffed(i)
  BY DEF SizingInv, Judged, Sized, Held
<1>2. s \in SpecType /\ (s.engine = "metrics" => s.series > 0)
  BY <1>1, SizingAssumption
<1>3. n \in Nat \ {0} /\ w.total = n /\ w.slot = i /\ i < n /\ check_sharding(s, n)
  BY <1>1, AdmittedSpec DEF Staffed
<1>4. i \in 0 .. n - 1
  BY <1>1, <1>3 DEF Slots
<1> HIDE DEF w, n
<1>5. CASE s.engine = "metrics"
  <2>1. s.series \in Nat /\ s.series >= n
    <3>1. s.series \in Nat /\ s.series > 0
      BY <1>2, <1>5 DEF SpecType
    <3>2. n # 1 => Min({s.series, n}) >= n
      BY <1>3, <1>5 DEF check_sharding, metrics_active_workers
    <3>3. Min({s.series, n}) <= s.series
      BY <1>3, <3>1 DEF Min
    <3>4. Min({s.series, n}) \in {s.series, n}
      BY <1>3, <3>1 DEF Min
    <3> QED BY <1>3, <3>1, <3>2, <3>3, <3>4
  <2> DEFINE K == {k \in 0 .. s.series - 1 : k % w.total = w.slot}
  <2>2. i \in K
    <3>1. i % n = i
      BY <1>3, <1>4
    <3> QED BY <1>3, <1>4, <2>1, <3>1
  <2>3. IsFiniteSet(K)
    <3>1. 0 \in Int /\ s.series - 1 \in Int
      BY <2>1
    <3>2. IsFiniteSet(0 .. s.series - 1)
      BY <3>1, FS_Interval
    <3> QED BY <3>2, FS_Subset
  <2>4. Cardinality(K) > 0
    <3> HIDE DEF K
    <3> QED BY <2>2, <2>3, SomeOfThem
  <2>5. Assigned(s, run.mode, w) = Cardinality(K)
    BY <1>5 DEF Assigned, OwnedSeries
  <2> QED BY <2>4, <2>5 DEF w
<1>6. CASE s.engine = "rawreplay"
  BY <1>6 DEF Assigned
<1>7. CASE s.engine = "eventgen" /\ \E c \in DOMAIN s.counts : s.counts[c] # 0
  <2> DEFINE C == w.conf.counts
             K == {k \in DOMAIN C : run.mode # "count_interval" \/ C[k] # 0}
  <2>1. Assigned(s, run.mode, w) = Cardinality(K)
    BY <1>7 DEF Assigned, assigned_stanza_count
  <2>2. /\ DOMAIN C = DOMAIN s.counts
        /\ run.mode = "count_interval" => C = _rewrite_count_interval(s.counts, i, n)
    BY <1>1, <1>3, <1>7 DEF Staffed, w
  <2>3. IsFiniteSet(DOMAIN s.counts)
    <3>1. s.counts \in Seq(Int)
      BY <1>2 DEF SpecType
    <3>2. Len(s.counts) \in Nat /\ DOMAIN s.counts = 1 .. Len(s.counts)
      BY <3>1
    <3>3. 1 \in Int /\ Len(s.counts) \in Int
      BY <3>2
    <3> QED BY <3>2, <3>3, FS_Interval
  <2> HIDE DEF C
  <2>4. \E k \in DOMAIN C : k \in K
    <3>1. PICK c \in DOMAIN s.counts : s.counts[c] # 0
      BY <1>7
    <3>2. CASE run.mode = "count_interval"
      <4>1. s.mode = "count_interval"
        BY <1>1, <3>2 DEF EffMode
      <4>2. \E k \in DOMAIN s.counts : _rewrite_count_interval(s.counts, i, n)[k] # 0
        BY <1>1, <1>3, <1>4, <1>7, <3>1, <4>1, CountsReach
      <4> QED BY <2>2, <3>2, <4>2
    <3>3. CASE run.mode # "count_interval"
      BY <2>2, <3>1, <3>3
    <3> QED BY <3>2, <3>3
  <2>5. IsFiniteSet(K)
    BY <2>2, <2>3, FS_Subset
  <2>6. Cardinality(K) > 0
    <3> HIDE DEF K
    <3> QED BY <2>4, <2>5, SomeOfThem
  <2> QED BY <2>1, <2>6 DEF w
<1>8. s.engine \in {"metrics", "rawreplay", "eventgen"}
  BY <1>2 DEF SpecType, Engines
<1> QED BY <1>5, <1>6, <1>7, <1>8

(* What the gates of a submit admit fits its workers, and its workers it:  *)
(* no slot and no worker is ever above its ceiling, whatever scales,       *)
(* rescales and late retargets follow, and no worker of the fleet that was *)
(* judged is left without work.                                            *)
THEOREM AdmissionFits == SizingSpec => []AdmittedFits
<1>1. SizingInv => AdmittedFits
  <2> SUFFICES ASSUME SizingInv PROVE AdmittedFits
    OBVIOUS
  <2>1. EveryWorkerWorks
    BY WorkerWorks, Zenon DEF EveryWorkerWorks
  <2> QED BY <2>1, UnderCeiling DEF AdmittedFits
<1> QED BY <1>1, SizingInvariant, PTL

(* Workers that agree on the size of their fleet deal every stanza's count *)
(* out exactly, none more than one ahead of another.                       *)
THEOREM CountsDealtOut == SizingSpec => []CountsPartitioned
<1>1. SizingInv => CountsPartitioned
  <2> SUFFICES ASSUME SizingInv, Running, run.mode = "count_interval", spec.s.engine = "eventgen",
                      Held = 0 .. run.workers - 1, \A i \in Held : worker[i].total = run.workers,
                      NEW k \in DOMAIN spec.s.counts, spec.s.counts[k] >= 0
               PROVE  LET parts == [i \in Held |-> worker[i].conf.counts[k]]
                      IN  /\ SumFunction(parts) = spec.s.counts[k]
                          /\ \A i, j \in Held : parts[i] - parts[j] \in {-1, 0, 1}
    BY DEF CountsPartitioned
  <2> DEFINE parts == [i \in Held |-> worker[i].conf.counts[k]]
             t == spec.s.counts[k]
             n == run.workers
  <2>1. spec.s \in Specs /\ n \in Nat \ {0}
    BY DEF SizingInv, Judged, Rows, Running
  <2>2. t \in Nat
    <3>1. spec.s.counts \in Seq(Int)
      BY <2>1, SizingAssumption DEF SpecType
    <3>2. \A c \in DOMAIN spec.s.counts : spec.s.counts[c] \in Int
      BY <3>1
    <3> QED BY <3>2
  <2>3. /\ t \div n \in Nat /\ t % n \in 0 .. n - 1 /\ t = n * (t \div n) + (t % n)
    BY <2>1, <2>2, Division
  <2>4. ASSUME NEW i \in Held
        PROVE  parts[i] = t \div n + (IF i < t % n THEN 1 ELSE 0)
    <3>1. worker[i].conf.counts = _rewrite_count_interval(spec.s.counts, i, n)
      BY DEF SizingInv, Sized, Staffed, Held
    <3>2. parts[i] = largest_remainder(t, Equal(n))[i + 1]
      BY <2>2, <3>1 DEF _rewrite_count_interval
    <3>3. i + 1 \in 1 .. n /\ (i + 1) - 1 = i
      BY <2>1
    <3>4. largest_remainder(t, Equal(n)) =
            [j \in 1 .. n |-> t \div n + (IF j - 1 < t % n THEN 1 ELSE 0)]
      BY <2>1, <2>2, EvenSplit
    <3> HIDE DEF parts, t, n
    <3> QED BY <3>2, <3>3, <3>4
  <2>5. DOMAIN parts = 0 .. n - 1
    OBVIOUS
  <2> HIDE DEF parts, t, n
  <2>6. \A i \in 0 .. n - 1 : parts[i] = t \div n + (IF i < t % n THEN 1 ELSE 0)
    BY <2>4 DEF n
  <2>7. \A i, j \in Held : parts[i] - parts[j] \in {-1, 0, 1}
    BY <2>3, <2>4
  <2>8. SumFunction(parts) = n * (t \div n) + (t % n)
    <3> DEFINE q == t \div n
               r == t % n
    <3>1. q \in Int /\ r \in 0 .. n /\ 0 \in Int /\ 0 .. 0 + n - 1 = 0 .. n - 1
      BY <2>1, <2>3
    <3>2. parts = [i \in DOMAIN parts |-> parts[i]]
      BY DEF parts
    <3>3. parts \in [0 .. 0 + n - 1 -> Int]
      <4>1. \A i \in 0 .. n - 1 : parts[i] \in Int
        BY <2>3, <2>6
      <4> QED BY <2>5, <3>1, <3>2, <4>1
    <3>4. \A i \in 0 .. 0 + n - 1 : parts[i] = q + (IF i - 0 < r THEN 1 ELSE 0)
      <4>1. ASSUME NEW i \in 0 .. 0 + n - 1
            PROVE  parts[i] = q + (IF i - 0 < r THEN 1 ELSE 0)
        <5>1. i \in 0 .. n - 1 /\ i - 0 = i
          BY <2>1
        <5>2. parts[i] = q + (IF i < r THEN 1 ELSE 0)
          BY <2>6, <5>1, Zenon DEF q, r
        <5> QED BY <5>1, <5>2, Zenon
      <4> QED BY <4>1
    <3>5. n \in Nat
      BY <2>1
    <3> HIDE DEF q, r
    <3>6. SumFunction(parts) = n * q + r
      BY <3>1, <3>3, <3>4, <3>5, SumStair, Zenon
    <3> QED BY <3>6 DEF q, r
  <2> QED BY <2>3, <2>7, <2>8 DEF parts, t
<1> QED BY <1>1, SizingInvariant, PTL

=============================================================================
