------------------------- MODULE RunLifecycleProofs -------------------------
(* Theorems about RunLifecycle for every value of its constants.           *)
EXTENDS RunLifecycle, FiniteSetTheorems, TLAPS

(* A database whose rows are well typed and hold at least one lease.       *)
DbOK(d) == d \in Db /\ Rows(d.lease) # {}

IInv == TypeOK /\ Rows(lease) # {}

USE ConstantsAssumption

LEMMA SlotsFinite == IsFiniteSet(Slots)
BY FS_Interval DEF Slots

LEMMA CountNat ==
    ASSUME NEW S \in SUBSET Slots, S # {}
    PROVE  Cardinality(S) \in Nat \ {0}
BY SlotsFinite, FS_Subset, FS_CardinalityType, FS_EmptySet

LEMMA ShareNat ==
    ASSUME NEW r \in Nat, NEW n \in Nat \ {0}
    PROVE  build_share_list(r, n) \in Nat
BY DEF build_share_list

LEMMA TransitionOK ==
    ASSUME NEW d, DbOK(d), NEW st \in RunStates, NEW re \in Reasons
    PROVE  DbOK(transition_run(d, st, re))
BY DEF DbOK, Db, RunRow, transition_run, Rows

LEMMA DestroyOK ==
    ASSUME NEW d, DbOK(d), NEW ok \in BOOLEAN
    PROVE  DbOK(destroy_fleet(d, ok))
BY DEF DbOK, Db, FleetRow, destroy_fleet, Rows

LEMMA CompleteOK ==
    ASSUME NEW d, DbOK(d)
    PROVE  DbOK(maybe_complete_run(d))
<1>1. terminal_state_for(d) \in RunStates
  BY DEF terminal_state_for, RunStates, Terminal
<1>2. default_end_reason(d, terminal_state_for(d)) \in Reasons
  BY DEF default_end_reason, Reasons, FailedReasons
<1>3. d.run.reason \in Reasons
  BY DEF DbOK, Db, RunRow
<1> QED BY <1>1, <1>2, <1>3, TransitionOK DEF maybe_complete_run

(* The functions on lease tables keep the type and the set of rows.        *)
LTable == [Slots -> LeaseRow]

(* Giving a row a new share keeps its type, whatever the retarget marker.  *)
LEMMA ShareRow ==
    ASSUME NEW row \in LeaseRow, NEW n \in Nat, NEW b \in BOOLEAN
    PROVE  /\ [row EXCEPT !.share = n, !.retarget = b] \in LeaseRow
           /\ [row EXCEPT !.share = n, !.retarget = b].state = row.state
BY DEF LeaseRow

LEMMA LeaseFunctions ==
    ASSUME NEW L \in LTable
    PROVE  /\ LoseUnfinished(L) \in LTable /\ Rows(LoseUnfinished(L)) = Rows(L)
           /\ LosePending(L) \in LTable /\ Rows(LosePending(L)) = Rows(L)
           /\ FinaliseAll(L) \in LTable /\ Rows(FinaliseAll(L)) = Rows(L)
           /\ \A n \in Nat : Reshare(L, n) \in LTable /\ Rows(Reshare(L, n)) = Rows(L)
<1>1. LoseUnfinished(L) \in LTable /\ Rows(LoseUnfinished(L)) = Rows(L)
  BY DEF LTable, LeaseRow, LeaseStates, LoseUnfinished, Rows, Live
<1>2. LosePending(L) \in LTable /\ Rows(LosePending(L)) = Rows(L)
  BY DEF LTable, LeaseRow, LeaseStates, LosePending, Pending, In, Rows, Live
<1>3. FinaliseAll(L) \in LTable /\ Rows(FinaliseAll(L)) = Rows(L)
  BY DEF LTable, LeaseRow, LeaseStates, FinaliseAll, Rows, Live
<1>4. ASSUME NEW n \in Nat
      PROVE  Reshare(L, n) \in LTable /\ Rows(Reshare(L, n)) = Rows(L)
  <2>1. ASSUME NEW s \in Slots
        PROVE  Reshare(L, n)[s] \in LeaseRow /\ (Reshare(L, n)[s].state = L[s].state)
    <3>2. L[s] \in LeaseRow
      BY DEF LTable
    <3>3. Reshare(L, n)[s] = IF L[s].state = "absent" THEN L[s]
             ELSE [L[s] EXCEPT !.share = n, !.retarget = L[s].state \in Live]
      BY DEF Reshare
    <3> DEFINE b == L[s].state \in Live
               new == [L[s] EXCEPT !.share = n, !.retarget = b]
    <3>4. new \in LeaseRow /\ new.state = L[s].state
      <4>1. b \in BOOLEAN
        OBVIOUS
      <4> HIDE DEF b
      <4> QED BY <4>1, <3>2, ShareRow
    <3> HIDE DEF new
    <3>5. CASE L[s].state = "absent"
      BY <3>2, <3>3, <3>5
    <3>6. CASE L[s].state # "absent"
      <4>1. Reshare(L, n)[s] = new
        BY <3>3, <3>6 DEF new
      <4> QED BY <3>4, <4>1
    <3> QED BY <3>5, <3>6
  <2> QED BY <2>1 DEF LTable, Rows, Reshare
<1> QED BY <1>1, <1>2, <1>3, <1>4

LEMMA ReadyShares ==
    ASSUME NEW d, DbOK(d), In(d.lease, {"ready"}) # {}
    PROVE  reapportion_ready(d) \in LTable /\ Rows(reapportion_ready(d)) = Rows(d.lease)
<1> DEFINE ready == In(d.lease, {"ready"})
           share == build_share_list(d.run.rate, Cardinality(ready))
<1>1. share \in Nat
  <2>1. ready \in SUBSET Slots /\ ready # {}
    BY DEF In
  <2>2. d.run.rate \in Nat
    BY DEF DbOK, Db, RunRow
  <2> QED BY <2>1, <2>2, CountNat, ShareNat
<1>2. reapportion_ready(d) = [s \in Slots |->
          IF s \in ready THEN [d.lease[s] EXCEPT !.share = share, !.retarget = TRUE]
          ELSE d.lease[s]]
  BY DEF reapportion_ready
<1> HIDE DEF share, ready
<1>3. ASSUME NEW s \in Slots
      PROVE  /\ reapportion_ready(d)[s] \in LeaseRow
             /\ reapportion_ready(d)[s].state = d.lease[s].state
  <2>1. d.lease[s] \in LeaseRow
    BY DEF DbOK, Db
  <2>2. /\ [d.lease[s] EXCEPT !.share = share, !.retarget = TRUE] \in LeaseRow
        /\ [d.lease[s] EXCEPT !.share = share, !.retarget = TRUE].state = d.lease[s].state
    BY <1>1, <2>1, ShareRow
  <2>3. reapportion_ready(d)[s] =
          IF s \in ready THEN [d.lease[s] EXCEPT !.share = share, !.retarget = TRUE]
          ELSE d.lease[s]
    BY <1>2
  <2> QED BY <2>1, <2>2, <2>3
<1> QED BY <1>2, <1>3 DEF LTable, Rows

LEMMA ReleaseOK ==
    ASSUME NEW d, DbOK(d), NEW force \in BOOLEAN
    PROVE  DbOK(evaluate_release(d, force))
<1> DEFINE strict  == [d EXCEPT !.lease = LosePending(d.lease)]
           partial == [d EXCEPT !.lease = LosePending(reapportion_ready(d)),
                                !.run.t0 = "ahead", !.run.degraded = TRUE]
           whole   == [d EXCEPT !.run.t0 = "ahead"]
<1>1. DbOK(strict)
  BY LeaseFunctions DEF DbOK, Db, LTable
<1>2. In(d.lease, {"ready"}) # {} => DbOK(partial)
  <2> SUFFICES ASSUME In(d.lease, {"ready"}) # {} PROVE DbOK(partial)
    OBVIOUS
  <2>1. LosePending(reapportion_ready(d)) \in LTable
        /\ Rows(LosePending(reapportion_ready(d))) = Rows(d.lease)
    BY LeaseFunctions, ReadyShares
  <2> QED BY <2>1 DEF DbOK, Db, RunRow, LTable
<1>3. DbOK(whole)
  BY DEF DbOK, Db, RunRow
<1>4. {"failed", "releasing"} \subseteq RunStates /\ {"none", "strict-release-timeout"} \subseteq Reasons
  BY DEF RunStates, Terminal, Reasons, FailedReasons
<1>5. MayRelease(d, force) => In(d.lease, {"ready"}) # {}
  BY DEF MayRelease
<1> HIDE DEF strict, partial, whole
<1>6. evaluate_release(d, force) \in
         {d, transition_run(strict, "failed", "strict-release-timeout"),
          transition_run(whole, "releasing", "none")}
      \/ /\ MayRelease(d, force)
         /\ evaluate_release(d, force) = transition_run(partial, "releasing", "none")
  BY DEF evaluate_release, strict, partial, whole
<1> QED BY <1>1, <1>2, <1>3, <1>4, <1>5, <1>6, TransitionOK

LEMMA RescaleOK ==
    ASSUME NEW d, DbOK(d), NEW rate \in Nat
    PROVE  DbOK(RescaleRows(d, rate))
<1>1. Cardinality(Rows(d.lease)) \in Nat \ {0}
  BY CountNat DEF DbOK, Rows
<1>2. build_share_list(rate, Cardinality(Rows(d.lease))) \in Nat
  BY <1>1, ShareNat
<1> QED BY <1>2, LeaseFunctions DEF RescaleRows, DbOK, Db, RunRow, LTable

LEMMA ScaleOK ==
    ASSUME NEW d, DbOK(d), NEW n \in 1 .. MaxSlots
    PROVE  DbOK(ScaleRows(d, n))
<1> DEFINE share == build_share_list(d.run.rate, n)
           kept  == Reshare(d.lease, share)
           L == [s \in Slots |->
                    IF s >= n THEN NoLease(d.lease[s].token)
                    ELSE IF d.lease[s].state = "absent"
                      THEN NewLease(d.lease[s].token + 1, share)
                    ELSE kept[s]]
<1>1. share \in Nat
  BY ShareNat DEF DbOK, Db, RunRow
<1>2. kept \in LTable /\ Rows(kept) = Rows(d.lease)
  BY <1>1, LeaseFunctions DEF DbOK, Db, LTable
<1>3. ScaleRows(d, n) = [d EXCEPT !.run.workers = n, !.lease = L]
  BY DEF ScaleRows
<1> HIDE DEF share, kept
<1>4. L \in LTable
  <2>1. ASSUME NEW s \in Slots PROVE L[s] \in LeaseRow
    <3>1. d.lease[s].token \in Nat /\ kept[s] \in LeaseRow
      BY <1>2 DEF DbOK, Db, LTable, LeaseRow
    <3>2. \A k \in Nat : NoLease(k) \in LeaseRow /\ NewLease(k, share) \in LeaseRow
      BY <1>1 DEF NewLease, NoLease, LeaseRow, LeaseStates
    <3> QED BY <3>1, <3>2
  <2> QED BY <2>1 DEF LTable
<1>5. 0 \in Rows(L)
  BY <1>2 DEF Rows, Slots, NewLease, LTable
<1> HIDE DEF L
<1>6. d.run \in RunRow /\ d.fleet \in FleetRow
  BY DEF DbOK, Db
<1>7. [d.run EXCEPT !.workers = n] \in RunRow
  BY <1>6 DEF RunRow
<1>8. /\ ScaleRows(d, n).run = [d.run EXCEPT !.workers = n]
      /\ ScaleRows(d, n).lease = L
      /\ ScaleRows(d, n) \in Db
  BY <1>3, <1>4, <1>6, <1>7 DEF DbOK, Db, LTable
<1> QED BY <1>5, <1>8 DEF DbOK

-----------------------------------------------------------------------------
(* What a stage of the supervisor pass may do to the rows.                 *)

Uniform(d) ==
    ~d.run.degraded =>
        /\ d.run.workers \in 1 .. MaxSlots
        /\ Rows(d.lease) = 0 .. d.run.workers - 1
        /\ \A s \in Rows(d.lease) :
              d.lease[s].share = build_share_list(d.run.rate, d.run.workers)

Quiet(d) ==
    /\ d.run.state \in {"completed", "stopped"} => In(d.lease, Live) = {}
    /\ d.run.state = "completed" => d.run.delivered /\ In(d.lease, {"done"}) # {}

(* Tokens and holders stay, and a slot's state stays or becomes lost.      *)
LostOnly(L, M) ==
    \A s \in Slots :
        /\ M[s].token = L[s].token
        /\ M[s].holder = L[s].holder
        /\ \/ M[s].state = L[s].state
           \/ L[s].state \in Live \cup {"free"} /\ M[s].state = "lost"

Stage(d, e) ==
    /\ DbOK(e)
    /\ Uniform(d) => Uniform(e)
    /\ Quiet(d) => Quiet(e)
    /\ LostOnly(d.lease, e.lease)

LEMMA StageTransitive ==
    ASSUME NEW d, NEW e, NEW f, Stage(d, e), Stage(e, f)
    PROVE  Stage(d, f)
<1>1. LostOnly(d.lease, f.lease)
  BY DEF Stage, LostOnly, Live
<1> QED BY <1>1 DEF Stage

LEMMA StageReflexive ==
    ASSUME NEW d, DbOK(d)
    PROVE  Stage(d, d)
BY DEF Stage, LostOnly

(* Writing a state that is neither completed nor stopped.                  *)
LEMMA TransitionStage ==
    ASSUME NEW d, DbOK(d), NEW st \in RunStates \ {"completed", "stopped"}, NEW re \in Reasons
    PROVE  Stage(d, transition_run(d, st, re))
<1> DEFINE e == transition_run(d, st, re)
<1>1. DbOK(e)
  BY TransitionOK
<1>2. /\ e.lease = d.lease /\ e.run.state = st
      /\ e.run.degraded = d.run.degraded /\ e.run.workers = d.run.workers
      /\ e.run.rate = d.run.rate
  BY DEF transition_run, DbOK, Db, RunRow
<1> HIDE DEF e
<1>3. Uniform(d) => Uniform(e)
  BY <1>2 DEF Uniform
<1>4. Quiet(e)
  BY <1>2 DEF Quiet
<1>5. LostOnly(d.lease, e.lease)
  BY <1>2 DEF LostOnly
<1>6. Stage(d, e)
  BY <1>1, <1>3, <1>4, <1>5 DEF Stage
<1> QED BY <1>6 DEF e

LEMMA DestroyStage ==
    ASSUME NEW d, DbOK(d), NEW ok \in BOOLEAN
    PROVE  Stage(d, destroy_fleet(d, ok))
<1> DEFINE e == destroy_fleet(d, ok)
<1>1. DbOK(e)
  BY DestroyOK
<1>2. e.lease = d.lease /\ e.run = d.run
  BY DEF destroy_fleet, DbOK, Db
<1> HIDE DEF e
<1>3. Stage(d, e)
  BY <1>1, <1>2 DEF Stage, Uniform, Quiet, LostOnly
<1> QED BY <1>3 DEF e

LEMMA CompleteStage ==
    ASSUME NEW d, DbOK(d)
    PROVE  Stage(d, maybe_complete_run(d))
<1> DEFINE e == maybe_complete_run(d)
<1>1. DbOK(e)
  BY CompleteOK
<1>2. /\ e.lease = d.lease
      /\ e.run.degraded = d.run.degraded /\ e.run.workers = d.run.workers
      /\ e.run.rate = d.run.rate /\ e.run.delivered = d.run.delivered
      /\ e.run.state = IF Completes(d) THEN terminal_state_for(d) ELSE d.run.state
  BY DEF maybe_complete_run, transition_run, DbOK, Db, RunRow
<1>3. Completes(d) => In(d.lease, Live) = {}
  BY DEF Completes
<1>4. terminal_state_for(d) = "completed" => d.run.delivered /\ In(d.lease, {"done"}) # {}
  BY DEF terminal_state_for
<1> HIDE DEF e
<1>5. Uniform(d) => Uniform(e)
  BY <1>2 DEF Uniform
<1>6. Quiet(d) => Quiet(e)
  BY <1>2, <1>3, <1>4 DEF Quiet
<1>7. Stage(d, e)
  BY <1>1, <1>2, <1>5, <1>6 DEF Stage, LostOnly
<1> QED BY <1>7 DEF e

(* Declaring some live or free leases lost.                                *)
LoseSome(L, M) ==
    /\ M \in LTable
    /\ \A s \in Slots :
          \/ M[s] = L[s]
          \/ L[s].state \in Live \cup {"free"} /\ M[s] = [L[s] EXCEPT !.state = "lost"]

LEMMA LoseStage ==
    ASSUME NEW d, DbOK(d), NEW M, LoseSome(d.lease, M)
    PROVE  Stage(d, [d EXCEPT !.lease = M])
<1> DEFINE L == d.lease
           e == [d EXCEPT !.lease = M]
<1>1. L \in LTable /\ e.lease = M /\ e.run = d.run /\ e \in Db
  BY DEF DbOK, Db, LTable, LoseSome
<1>2. \A s \in Slots : /\ M[s].token = L[s].token /\ M[s].holder = L[s].holder
                       /\ M[s].share = L[s].share
                       /\ \/ M[s].state = L[s].state
                          \/ L[s].state \in Live \cup {"free"} /\ M[s].state = "lost"
  <2> TAKE s \in Slots
  <2>1. L[s] \in LeaseRow
    BY <1>1 DEF LTable
  <2>2. CASE M[s] = L[s]
    BY <2>2
  <2>3. CASE L[s].state \in Live \cup {"free"} /\ M[s] = [L[s] EXCEPT !.state = "lost"]
    BY <2>1, <2>3 DEF LeaseRow
  <2> QED BY <2>2, <2>3 DEF LoseSome
<1> HIDE DEF L, e
<1>3. Rows(M) = Rows(L)
  BY <1>2 DEF Rows, Live
<1>4. In(M, Live) \subseteq In(L, Live) /\ In(M, {"done"}) = In(L, {"done"})
  BY <1>2 DEF In, Live
<1>5. L = d.lease
  BY DEF L
<1>6. DbOK(e) /\ LostOnly(L, M)
  BY <1>1, <1>2, <1>3, <1>5 DEF DbOK, LostOnly
<1>7. Uniform(d) => Uniform(e)
  BY <1>1, <1>2, <1>3, <1>5 DEF Uniform, Rows
<1>8. Quiet(d) => Quiet(e)
  BY <1>1, <1>4, <1>5 DEF Quiet
<1>9. Stage(d, e)
  BY <1>1, <1>5, <1>6, <1>7, <1>8 DEF Stage
<1> QED BY <1>9 DEF e

LEMMA LoseSomeTables ==
    ASSUME NEW L \in LTable
    PROVE  LoseSome(L, LoseUnfinished(L)) /\ LoseSome(L, LosePending(L))
<1>1. LoseSome(L, LoseUnfinished(L))
  BY LeaseFunctions DEF LoseSome, LoseUnfinished
<1>2. LoseSome(L, LosePending(L))
  BY LeaseFunctions DEF LoseSome, LosePending, Pending, In, Live
<1> QED BY <1>1, <1>2

LEMMA LapseStage ==
    ASSUME NEW d, DbOK(d)
    PROVE  Stage(d, lapse_stale_leases(d))
<1> DEFINE M == [s \in Slots |->
        IF ~booting /\ d.lease[s].state \in Live /\ d.lease[s].age \in {"stale", "dead"}
          THEN [d.lease[s] EXCEPT !.state = "lost"] ELSE d.lease[s]]
<1>1. LoseSome(d.lease, M)
  BY DEF LoseSome, DbOK, Db, LTable, LeaseRow, LeaseStates
<1>2. lapse_stale_leases(d) = [d EXCEPT !.lease = M]
  BY DEF lapse_stale_leases
<1> HIDE DEF M
<1> QED BY <1>1, <1>2, LoseStage

LEMMA ReleaseStage ==
    ASSUME NEW d, DbOK(d), NEW force \in BOOLEAN
    PROVE  Stage(d, evaluate_release(d, force))
<1> DEFINE e == evaluate_release(d, force)
           lost == LosePending(d.lease)
<1>1. DbOK(e)
  BY ReleaseOK
<1>2. d.lease \in LTable
  BY DEF DbOK, Db, LTable
<1>3. CASE ~MayRelease(d, force)
  BY <1>3, StageReflexive DEF evaluate_release
<1>4. CASE MayRelease(d, force) /\ PartialFails(d)
  <2>1. Stage(d, [d EXCEPT !.lease = lost])
    BY <1>2, LoseSomeTables, LoseStage
  <2>2. "failed" \in RunStates \ {"completed", "stopped"} /\ "strict-release-timeout" \in Reasons
    BY DEF RunStates, Terminal, Reasons, FailedReasons
  <2>3. Stage([d EXCEPT !.lease = lost],
              transition_run([d EXCEPT !.lease = lost], "failed", "strict-release-timeout"))
    BY <2>1, <2>2, TransitionStage DEF Stage
  <2> QED BY <1>4, <2>1, <2>3, StageTransitive DEF evaluate_release
<1>5. CASE MayRelease(d, force) /\ ~PartialFails(d)
  <2>1. /\ e.run.state = "releasing" /\ e.run.workers = d.run.workers /\ e.run.rate = d.run.rate
        /\ \/ e.run.degraded /\ e.lease = LosePending(reapportion_ready(d))
           \/ e.run.degraded = d.run.degraded /\ e.lease = d.lease
    BY <1>5 DEF evaluate_release, transition_run, DbOK, Db, RunRow
  <2> HIDE DEF e
  <2>2. Quiet(e)
    BY <2>1 DEF Quiet
  <2>3. Uniform(d) => Uniform(e)
    BY <2>1 DEF Uniform
  <2>4. LostOnly(d.lease, LosePending(reapportion_ready(d)))
    <3>1. \A s \in Slots : /\ reapportion_ready(d)[s].token = d.lease[s].token
                           /\ reapportion_ready(d)[s].holder = d.lease[s].holder
                           /\ reapportion_ready(d)[s].state = d.lease[s].state
      BY <1>2 DEF reapportion_ready, LTable, LeaseRow
    <3>2. reapportion_ready(d) \in LTable
      BY <1>5, ReadyShares DEF MayRelease
    <3>3. LoseSome(reapportion_ready(d), LosePending(reapportion_ready(d)))
      BY <3>2, LoseSomeTables
    <3> QED BY <3>1, <3>2, <3>3 DEF LoseSome, LostOnly, LTable, LeaseRow
  <2>5. LostOnly(d.lease, e.lease)
    BY <2>1, <2>4 DEF LostOnly
  <2> QED BY <1>1, <2>2, <2>3, <2>5 DEF Stage, e
<1> QED BY <1>3, <1>4, <1>5

LEMMA ProvisionStage ==
    ASSUME NEW d, DbOK(d), NEW ok \in BOOLEAN
    PROVE  Stage(d, check_provision_timeout(d, ok))
<1>1. "failed" \in RunStates \ {"completed", "stopped"} /\ "provision-timeout" \in Reasons
  BY DEF RunStates, Terminal, Reasons
<1> DEFINE f == transition_run(d, "failed", "provision-timeout")
<1>2. Stage(d, f) /\ DbOK(f)
  BY <1>1, TransitionStage DEF Stage
<1> HIDE DEF f
<1>3. Stage(d, destroy_fleet(f, ok))
  BY <1>2, DestroyStage, StageTransitive
<1>4. check_provision_timeout(d, ok) \in {d, evaluate_release(d, TRUE), destroy_fleet(f, ok)}
  BY DEF check_provision_timeout, f
<1> QED BY <1>3, <1>4, StageReflexive, ReleaseStage

LEMMA DurationStage ==
    ASSUME NEW d, DbOK(d)
    PROVE  Stage(d, check_duration(d))
<1>1. "draining" \in RunStates \ {"completed", "stopped"} /\ "duration-complete" \in Reasons
  BY DEF RunStates, Terminal, Reasons
<1> QED BY <1>1, TransitionStage, StageReflexive DEF check_duration

LEMMA AbortStage ==
    ASSUME NEW d, DbOK(d), NEW ok \in BOOLEAN
    PROVE  Stage(d, check_auto_abort(d, ok))
<1>1. ASSUME NEW re \in {"auto-abort-lost", "auto-abort-auth"}
      PROVE  Stage(d, destroy_fleet(transition_run(d, "failed", re), ok))
  <2>1. "failed" \in RunStates \ {"completed", "stopped"} /\ re \in Reasons
    BY DEF RunStates, Terminal, Reasons, FailedReasons
  <2>2. Stage(d, transition_run(d, "failed", re)) /\ DbOK(transition_run(d, "failed", re))
    BY <2>1, TransitionStage DEF Stage
  <2> QED BY <2>2, DestroyStage, StageTransitive
<1>2. check_auto_abort(d, ok) \in
        {d, destroy_fleet(transition_run(d, "failed", "auto-abort-lost"), ok),
            destroy_fleet(transition_run(d, "failed", "auto-abort-auth"), ok)}
  BY DEF check_auto_abort
<1> QED BY <1>1, <1>2, StageReflexive

LEMMA ReapStage ==
    ASSUME NEW d, DbOK(d), NEW ok \in BOOLEAN
    PROVE  Stage(d, reap_draining(d, ok))
<1> DEFINE f == destroy_fleet(d, ok)
<1>1. Stage(d, f) /\ DbOK(f) /\ f.lease = d.lease
  BY DestroyStage DEF Stage, destroy_fleet, DbOK, Db
<1> HIDE DEF f
<1>2. LoseSome(f.lease, LoseUnfinished(d.lease))
  BY <1>1, LoseSomeTables DEF DbOK, Db, LTable
<1>3. Stage(d, [f EXCEPT !.lease = LoseUnfinished(d.lease)])
  BY <1>1, <1>2, LoseStage, StageTransitive
<1> QED BY <1>3, StageReflexive DEF reap_draining, f

LEMMA RescaleStage ==
    ASSUME NEW d, DbOK(d), NEW rate \in Nat
    PROVE  LET e == RescaleRows(d, rate)
           IN /\ DbOK(e)
              /\ Uniform(d) => Uniform(e)
              /\ LostOnly(d.lease, e.lease)
              /\ e.run = [d.run EXCEPT !.rate = rate]
              /\ In(e.lease, Live) = In(d.lease, Live)
<1> DEFINE e == RescaleRows(d, rate)
           share == build_share_list(rate, Cardinality(Rows(d.lease)))
           M == Reshare(d.lease, share)
<1>1. DbOK(e)
  BY RescaleOK
<1>2. e.lease = M /\ e.run = [d.run EXCEPT !.rate = rate]
  BY DEF RescaleRows, DbOK, Db
<1>3. \A s \in Slots : /\ M[s].state = d.lease[s].state
                       /\ M[s].token = d.lease[s].token
                       /\ M[s].holder = d.lease[s].holder
                       /\ d.lease[s].state # "absent" => M[s].share = share
  <2> TAKE s \in Slots
  <2> DEFINE b == d.lease[s].state \in Live
  <2>1. M[s] = IF d.lease[s].state = "absent" THEN d.lease[s]
               ELSE [d.lease[s] EXCEPT !.share = share, !.retarget = b]
    BY DEF Reshare
  <2>2. d.lease[s] \in LeaseRow
    BY DEF DbOK, Db
  <2> HIDE DEF b, M, share
  <2> QED BY <2>1, <2>2 DEF LeaseRow
<1>4. ASSUME Uniform(d), ~d.run.degraded
      PROVE  share = build_share_list(rate, d.run.workers)
  <2>1. Cardinality(0 .. d.run.workers - 1) = d.run.workers
    <3> DEFINE n == d.run.workers
    <3>1. n \in Nat /\ n >= 1
      BY <1>4 DEF Uniform
    <3> HIDE DEF n
    <3>2. Cardinality(0 .. n - 1) = n
      <4>1. 0 \in Int /\ n - 1 \in Int
        BY <3>1
      <4>2. Cardinality(0 .. n - 1) = IF 0 > n - 1 THEN 0 ELSE (n - 1) - 0 + 1
        BY <4>1, FS_Interval
      <4> QED BY <3>1, <4>2
    <3> QED BY <3>2 DEF n
  <2> QED BY <1>4, <2>1 DEF Uniform
<1>5. d.run \in RunRow
  BY DEF DbOK, Db
<1> HIDE DEF e, M, share
<1>6. Rows(M) = Rows(d.lease) /\ In(M, Live) = In(d.lease, Live)
  BY <1>3 DEF Rows, In
<1>7. Uniform(d) => Uniform(e)
  BY <1>2, <1>3, <1>4, <1>5, <1>6 DEF Uniform, Rows, RunRow
<1>8. LostOnly(d.lease, e.lease)
  BY <1>2, <1>3 DEF LostOnly
<1> QED BY <1>1, <1>2, <1>6, <1>7, <1>8 DEF e

LEMMA PressureStage ==
    ASSUME NEW d, DbOK(d), NEW failing \in BOOLEAN
    PROVE  Stage(d, check_backpressure(d, failing))
<1>1. "draining" \in RunStates \ {"completed", "stopped"} /\ "backpressure-drain" \in Reasons
  BY DEF RunStates, Terminal, Reasons
<1> DEFINE half == d.run.rate \div 2
           f == RescaleRows(d, half)
           e == [f EXCEPT !.run.degraded = TRUE]
<1>2. half \in Nat
  BY DEF DbOK, Db, RunRow
<1> HIDE DEF half
<1>3. DbOK(f) /\ LostOnly(d.lease, f.lease) /\ f.run.state = d.run.state
  <2>1. d.run \in RunRow
    BY DEF DbOK, Db
  <2>2. DbOK(f) /\ LostOnly(d.lease, f.lease) /\ f.run = [d.run EXCEPT !.rate = half]
    BY <1>2, RescaleStage
  <2> HIDE DEF f
  <2> QED BY <2>1, <2>2 DEF RunRow
<1> HIDE DEF f
<1>4. e.lease = f.lease /\ e.run.degraded /\ e.run.state = f.run.state /\ DbOK(e)
  BY <1>3 DEF DbOK, Db, RunRow
<1> HIDE DEF e
<1>5. d.run.state \in {"running", "releasing"} => Stage(d, e)
  BY <1>3, <1>4 DEF Stage, Uniform, Quiet
<1>6. \/ check_backpressure(d, failing) \in {d, transition_run(d, "draining", "backpressure-drain")}
      \/ d.run.state \in {"running", "releasing"} /\ check_backpressure(d, failing) = e
  BY DEF check_backpressure, e, f, half
<1> QED BY <1>1, <1>5, <1>6, TransitionStage, StageReflexive

(* A supervisor pass over an active run.                                   *)
LEMMA SuperviseStage ==
    ASSUME NEW ok \in BOOLEAN, NEW failing \in BOOLEAN, DbOK(db), supervise_run(ok, failing)
    PROVE  \E e : Stage(db, e) /\ Commit(e)
<1> DEFINE l == lapse_stale_leases(db)
           t == check_provision_timeout(l, ok)
           b == check_duration(t)
           a == check_auto_abort(b, ok)
           p == check_backpressure(a, failing)
           r == reap_draining(p, ok)
           c == maybe_complete_run(r)
<1>0. Commit(c)
  BY DEF supervise_run
<1>1. Stage(db, l) /\ DbOK(l)
  BY LapseStage DEF Stage
<1> HIDE DEF l
<1>2. Stage(db, t) /\ DbOK(t)
  BY <1>1, ProvisionStage, StageTransitive DEF Stage
<1> HIDE DEF t
<1>3. Stage(db, b) /\ DbOK(b)
  BY <1>2, DurationStage, StageTransitive DEF Stage
<1> HIDE DEF b
<1>4. Stage(db, a) /\ DbOK(a)
  BY <1>3, AbortStage, StageTransitive DEF Stage
<1> HIDE DEF a
<1>5. Stage(db, p) /\ DbOK(p)
  BY <1>4, PressureStage, StageTransitive DEF Stage
<1> HIDE DEF p
<1>6. Stage(db, r) /\ DbOK(r)
  BY <1>5, ReapStage, StageTransitive DEF Stage
<1> HIDE DEF r
<1>7. Stage(db, c)
  BY <1>6, CompleteStage, StageTransitive
<1> QED BY <1>0, <1>7

-----------------------------------------------------------------------------
(* The worker requests.                                                    *)

(* The invariant that the safety theorems rest on.  A worker beyond boot   *)
(* has a minted token; the current token of a row is only ever in the      *)
(* hands of the row's holder; and no row in use carries the seeded token.  *)
Fenced ==
    /\ \A w \in Workers :
         /\ worker[w].pc \notin {"boot", "gone"} => worker[w].token > 0
         /\ worker[w].token <= lease[worker[w].slot].token
         /\ worker[w].token > 0 /\ is_lease_holder(lease, w) =>
              /\ lease[worker[w].slot].holder = w
              /\ lease[worker[w].slot].state # "free"
              /\ worker[w].pc \in {"awaiting", "released", "generating"} =>
                    lease[worker[w].slot].state # "claimed"
    /\ \A v, w \in Workers :
         v # w /\ worker[v].slot = worker[w].slot /\ worker[w].token > 0
           => worker[v].token # worker[w].token
    /\ \A s \in Slots : lease[s].state \in Live \cup {"done"} => lease[s].token > 0

FullInv == IInv /\ Uniform(db) /\ Quiet(db) /\ Fenced

LEMMA InitInv == Init => FullInv
<1> SUFFICES ASSUME Init PROVE FullInv
  OBVIOUS
<1> DEFINE share == build_share_list(InitialRate, InitialWorkers)
<1>1. share \in Nat
  BY ShareNat
<1> HIDE DEF share
<1>2. ASSUME NEW s \in Slots
      PROVE  /\ lease[s] \in LeaseRow /\ lease[s].token = 0
             /\ s < InitialWorkers => lease[s].state = "free" /\ lease[s].share = share
             /\ ~(s < InitialWorkers) => lease[s].state = "absent"
  BY <1>1 DEF Init, NewLease, NoLease, LeaseRow, LeaseStates, share
<1>3. lease \in [Slots -> LeaseRow]
  BY <1>2 DEF Init
<1>4. Rows(lease) = 0 .. InitialWorkers - 1
  BY <1>2 DEF Rows, Slots
<1>5. TypeOK
  <2>1. run \in RunRow
    BY DEF Init, RunRow, RunStates, Reasons
  <2>2. worker \in [Workers -> WorkerRow]
    <3>1. 0 \in Slots
      BY DEF Slots
    <3>2. [Gone EXCEPT !.pc = "boot"] \in WorkerRow
      BY <3>1 DEF Gone, WorkerRow, WorkerStates
    <3> QED BY <3>2 DEF Init
  <2> QED BY <1>3, <2>1, <2>2 DEF Init, TypeOK, FleetRow
<1>6. IInv
  <2>1. 0 \in 0 .. InitialWorkers - 1
    OBVIOUS
  <2> QED BY <1>4, <1>5, <2>1 DEF IInv
<1>7. Uniform(db)
  BY <1>2, <1>4 DEF Uniform, db, Init, share, Rows
<1>8. Quiet(db)
  BY DEF Quiet, db, Init
<1>9. Fenced
  BY <1>2, SMTT(60) DEF Fenced, Init, Gone, Live, Slots
<1> QED BY <1>6, <1>7, <1>8, <1>9 DEF FullInv

(* A step that grants nothing: a slot keeps its token and holder and moves *)
(* along the life of its grant.                                            *)
Pairs == {<<"claimed", "ready">>, <<"ready", "running">>}
            \cup ((Live \cup {"free"}) \X {"lost"})
            \cup ({"lost"} \X {"ready", "running"})
            \cup ((Live \cup {"lost"}) \X {"done"})

MovedTable(L, M) ==
    \A s \in Slots :
        /\ M[s].token = L[s].token
        /\ M[s].holder = L[s].holder
        /\ M[s].state = L[s].state \/ <<L[s].state, M[s].state>> \in Pairs
        /\ M[s].state \in Live \cup {"done"} => M[s].token > 0

Minted(L) == \A s \in Slots : L[s].state \in Live \cup {"done"} => L[s].token > 0

MoveOK(d, e) ==
    /\ DbOK(e)
    /\ Uniform(d) => Uniform(e)
    /\ Quiet(d) => Quiet(e)
    /\ MovedTable(d.lease, e.lease)

LEMMA PairCases ==
    ASSUME NEW a, NEW b
    PROVE  <<a, b>> \in Pairs <=>
              \/ a = "claimed" /\ b = "ready"
              \/ a = "ready" /\ b = "running"
              \/ a \in {"claimed", "ready", "running", "free"} /\ b = "lost"
              \/ a = "lost" /\ b \in {"ready", "running"}
              \/ a \in {"claimed", "ready", "running", "lost"} /\ b = "done"
BY DEF Pairs, Live

LEMMA StageMoves ==
    ASSUME NEW d, NEW e, Stage(d, e), Minted(d.lease)
    PROVE  MoveOK(d, e)
<1>1. MovedTable(d.lease, e.lease)
  BY PairCases DEF Stage, LostOnly, MovedTable, Minted, Live
<1> QED BY <1>1 DEF Stage, MoveOK

LEMMA MoveThenStage ==
    ASSUME NEW d, NEW e, NEW f, MoveOK(d, e), Stage(e, f)
    PROVE  MoveOK(d, f)
<1>1. MovedTable(d.lease, f.lease)
  <2> SUFFICES ASSUME NEW s \in Slots
               PROVE  /\ f.lease[s].token = d.lease[s].token
                      /\ f.lease[s].holder = d.lease[s].holder
                      /\ \/ f.lease[s].state = d.lease[s].state
                         \/ <<d.lease[s].state, f.lease[s].state>> \in Pairs
                      /\ f.lease[s].state \in Live \cup {"done"} => f.lease[s].token > 0
    BY DEF MovedTable
  <2> DEFINE a == d.lease[s].state
             b == e.lease[s].state
             c == f.lease[s].state
  <2>1. /\ f.lease[s].token = e.lease[s].token /\ f.lease[s].holder = e.lease[s].holder
        /\ e.lease[s].token = d.lease[s].token /\ e.lease[s].holder = d.lease[s].holder
        /\ b \in Live \cup {"done"} => e.lease[s].token > 0
    BY DEF Stage, LostOnly, MoveOK, MovedTable
  <2>2. (b = a \/ <<a, b>> \in Pairs) /\ (c = b \/ (b \in Live \cup {"free"} /\ c = "lost"))
    BY DEF Stage, LostOnly, MoveOK, MovedTable
  <2> HIDE DEF a, b, c
  <2>3. c = a \/ <<a, c>> \in Pairs
    BY <2>2, PairCases DEF Live
  <2>4. c \in Live \cup {"done"} => b \in Live \cup {"done"}
    BY <2>2 DEF Live
  <2> QED BY <2>1, <2>3, <2>4 DEF a, b, c
<1> QED BY <1>1 DEF Stage, MoveOK

(* Rewriting the row of one slot under its token.                          *)
LEMMA RowMoves ==
    ASSUME NEW d, DbOK(d), Minted(d.lease),
           NEW s \in Slots, d.lease[s].state # "absent",
           NEW row \in LeaseRow,
           row.token = d.lease[s].token, row.holder = d.lease[s].holder,
           row.share = d.lease[s].share,
           row.state = d.lease[s].state \/ <<d.lease[s].state, row.state>> \in Pairs,
           row.state \in Live \cup {"done"} => row.token > 0,
           d.run.state \in {"completed", "stopped"} /\ row.state \in Live =>
              d.lease[s].state \in Live
    PROVE  MoveOK(d, [d EXCEPT !.lease[s] = row])
<1> DEFINE L == d.lease
           M == [L EXCEPT ![s] = row]
           e == [d EXCEPT !.lease[s] = row]
<1>1. e.lease = M /\ e.run = d.run /\ e \in Db /\ L \in LTable
  BY DEF DbOK, Db, LTable
<1>2. \A u \in Slots : M[u] = IF u = s THEN row ELSE L[u]
  BY <1>1 DEF LTable
<1>3. row.state # "absent" /\ (L[s].state = "done" => row.state = "done")
  BY PairCases
<1>4. L = d.lease
  BY DEF L
<1> HIDE DEF L, M, e
<1>5. Rows(M) = Rows(L) /\ In(L, {"done"}) \subseteq In(M, {"done"})
  BY <1>2, <1>3, <1>4 DEF Rows, In
<1>6. d.run.state \in {"completed", "stopped"} => In(M, Live) \subseteq In(L, Live)
  BY <1>2, <1>4 DEF In
<1>7. MovedTable(L, M)
  BY <1>2, <1>4 DEF MovedTable, Minted
<1>8. Uniform(d) => Uniform(e)
  BY <1>1, <1>2, <1>4, <1>5 DEF Uniform, Rows
<1>9. Quiet(d) => Quiet(e)
  BY <1>1, <1>4, <1>5, <1>6 DEF Quiet
<1>10. MoveOK(d, e)
  BY <1>1, <1>4, <1>5, <1>7, <1>8, <1>9 DEF MoveOK, DbOK
<1> QED BY <1>10 DEF e

(* Fencing survives a step that grants nothing, if no process leaves boot  *)
(* and none reaches the polling states on a lease that is only claimed.    *)
Polling == {"awaiting", "released", "generating"}

Keeps(w) ==
    \/ worker'[w].token = 0 /\ worker'[w].pc \in {"boot", "gone"}
    \/ /\ worker'[w].slot = worker[w].slot
       /\ worker'[w].token = worker[w].token
       /\ worker'[w].pc \notin {"boot", "gone"} => worker[w].pc \notin {"boot", "gone"}
       /\ worker'[w].pc \in Polling =>
            worker[w].pc \in Polling \/ lease'[worker[w].slot].state # "claimed"

LEMMA FencedMoves ==
    ASSUME TypeOK, TypeOK', Fenced, MovedTable(lease, lease'),
           \A w \in Workers : Keeps(w)
    PROVE  Fenced'
<1>1. ASSUME NEW s \in Slots
      PROVE  /\ lease'[s].token = lease[s].token /\ lease'[s].holder = lease[s].holder
             /\ lease'[s].state = "free" => lease[s].state = "free"
             /\ lease'[s].state = "claimed" => lease[s].state = "claimed"
             /\ lease'[s].state = "absent" <=> lease[s].state = "absent"
             /\ lease'[s].state \in Live \cup {"done"} => lease'[s].token > 0
  <2>1. lease'[s].state = lease[s].state \/ <<lease[s].state, lease'[s].state>> \in Pairs
    BY <1>1 DEF MovedTable
  <2>2. CASE lease'[s].state = lease[s].state
    BY <1>1, <2>2 DEF MovedTable
  <2>3. CASE <<lease[s].state, lease'[s].state>> \in Pairs
    <3>1. lease'[s].state \notin {"free", "claimed", "absent"} /\ lease[s].state # "absent"
      BY <2>3, PairCases
    <3> QED BY <1>1, <3>1 DEF MovedTable
  <2> QED BY <2>1, <2>2, <2>3
<1>2. ASSUME NEW w \in Workers
      PROVE  /\ worker[w].slot \in Slots /\ worker'[w].slot \in Slots
             /\ worker[w].token \in Nat /\ worker'[w].token \in Nat
             /\ lease[worker[w].slot].token \in Nat
             /\ lease'[worker'[w].slot].token \in Nat
  BY <1>2 DEF TypeOK, WorkerRow, LeaseRow
<1>3. ASSUME NEW w \in Workers
      PROVE  /\ worker'[w].pc \notin {"boot", "gone"} => worker'[w].token > 0
             /\ worker'[w].token <= lease'[worker'[w].slot].token
             /\ worker'[w].token > 0 /\ is_lease_holder(lease, w)' =>
                  /\ lease'[worker'[w].slot].holder = w
                  /\ lease'[worker'[w].slot].state # "free"
                  /\ worker'[w].pc \in Polling => lease'[worker'[w].slot].state # "claimed"
  <2>1. CASE worker'[w].token = 0 /\ worker'[w].pc \in {"boot", "gone"}
    BY <1>2, <2>1
  <2>2. CASE /\ worker'[w].slot = worker[w].slot
             /\ worker'[w].token = worker[w].token
             /\ worker'[w].pc \notin {"boot", "gone"} => worker[w].pc \notin {"boot", "gone"}
             /\ worker'[w].pc \in Polling =>
                  worker[w].pc \in Polling \/ lease'[worker[w].slot].state # "claimed"
    BY <1>1, <1>2, <2>2 DEF Fenced, is_lease_holder, Polling
  <2> QED BY <2>1, <2>2 DEF Keeps
<1>4. ASSUME NEW v \in Workers, NEW w \in Workers, v # w,
             worker'[v].slot = worker'[w].slot, worker'[w].token > 0
      PROVE  worker'[v].token # worker'[w].token
  BY <1>2, <1>4 DEF Fenced, Keeps
<1> QED BY <1>1, <1>3, <1>4 DEF Fenced, Polling

(* A table that moves without a grant keeps the contract.                  *)
LEMMA MovedContract ==
    ASSUME TypeOK, TypeOK', MovedTable(lease, lease')
    PROVE  Contract!Next
<1>1. ASSUME NEW s \in Slots
      PROVE  Contract!SlotStep(s) /\ ~Contract!Granted(s)
  <2>1. /\ lease'[s].token = lease[s].token /\ lease[s].token \in Nat
        /\ lease'[s].state = lease[s].state \/ <<lease[s].state, lease'[s].state>> \in Pairs
    BY DEF MovedTable, TypeOK, LeaseRow
  <2>2. CASE lease'[s].state = lease[s].state
    BY <2>1, <2>2 DEF Contract!SlotStep, Contract!Granted
  <2>3. CASE <<lease[s].state, lease'[s].state>> \in Pairs
    <3>1. Contract!Moves = Pairs
      BY DEF Contract!Moves, Contract!Advances, Contract!Lapses, Contract!Recovers,
             Contract!Finishes, Contract!Live, Pairs, Live
    <3>2. Contract!Moved(s)
      BY <2>1, <2>3, <3>1 DEF Contract!Moved
    <3> QED BY <2>1, <3>2 DEF Contract!SlotStep, Contract!Granted
  <2> QED BY <2>1, <2>2, <2>3
<1> QED BY <1>1 DEF Contract!Next

(* A step that grants nothing keeps the invariant and the lease contract.  *)
LEMMA MoveInv ==
    ASSUME FullInv, NEW e, MoveOK(db, e), Commit(e),
           worker' \in [Workers -> WorkerRow], booting' \in BOOLEAN,
           \A w \in Workers : Keeps(w)
    PROVE  FullInv' /\ Contract!Next
<1>1. e.run = run' /\ e.lease = lease' /\ e.fleet = fleet'
  BY DEF Commit
<1>2. IInv'
  BY <1>1 DEF MoveOK, DbOK, Db, IInv, TypeOK, Rows
<1>3. Uniform(e) /\ Quiet(e)
  BY DEF FullInv, MoveOK
<1>4. Uniform(db)'
  BY <1>1, <1>3 DEF Uniform, db, Rows
<1>5. Quiet(db)'
  BY <1>1, <1>3 DEF Quiet, db, In
<1>6. MovedTable(lease, lease')
  BY <1>1 DEF MoveOK, db
<1>7. Fenced'
  BY <1>2, <1>6, FencedMoves DEF FullInv, IInv
<1>8. Contract!Next
  BY <1>6, <1>2, MovedContract DEF FullInv, IInv
<1> QED BY <1>2, <1>4, <1>5, <1>7, <1>8 DEF FullInv

-----------------------------------------------------------------------------
(* One lemma per action: it keeps the invariant and the lease contract.    *)

LEMMA DbInv ==
    ASSUME FullInv
    PROVE  /\ DbOK(db) /\ Minted(db.lease)
           /\ db.lease = lease /\ db.run = run /\ db.fleet = fleet
           /\ run \in RunRow /\ lease \in LTable /\ fleet \in FleetRow
           /\ MoveOK(db, db)
<1>1. db.lease = lease /\ db.run = run /\ db.fleet = fleet
  BY DEF db
<1>2. run \in RunRow /\ lease \in LTable /\ fleet \in FleetRow
  BY DEF FullInv, IInv, TypeOK, LTable
<1>3. DbOK(db)
  BY <1>1, <1>2 DEF DbOK, Db, db, FullInv, IInv, LTable
<1>4. Minted(db.lease)
  BY <1>1 DEF Minted, FullInv, Fenced
<1>5. MoveOK(db, db)
  BY <1>3, <1>4, StageReflexive, StageMoves
<1> QED BY <1>1, <1>2, <1>3, <1>4, <1>5

LEMMA IdleWorkers ==
    ASSUME FullInv, UNCHANGED worker
    PROVE  worker' \in [Workers -> WorkerRow] /\ \A w \in Workers : Keeps(w)
BY DEF FullInv, IInv, TypeOK, Keeps

LEMMA StageInv ==
    ASSUME FullInv, NEW e, Stage(db, e), Commit(e), UNCHANGED worker, booting' \in BOOLEAN
    PROVE  FullInv' /\ Contract!Next
BY DbInv, IdleWorkers, StageMoves, MoveInv

LEMMA BootingType ==
    ASSUME FullInv, UNCHANGED booting
    PROVE  booting' \in BOOLEAN
BY DEF FullInv, IInv, TypeOK

LEMMA TickInv ==
    ASSUME FullInv, NEW ok \in BOOLEAN, NEW failing \in BOOLEAN, SupervisorTick(ok, failing)
    PROVE  FullInv' /\ Contract!Next
<1>1. PICK e : Stage(db, e) /\ Commit(e)
  BY DbInv, SuperviseStage DEF SupervisorTick
<1> QED BY <1>1, StageInv, BootingType DEF SupervisorTick

LEMMA ReapInv ==
    ASSUME FullInv, NEW ok \in BOOLEAN, ReapTerminalFleet(ok)
    PROVE  FullInv' /\ Contract!Next
<1>1. Stage(db, destroy_fleet(db, ok))
  BY DbInv, DestroyStage
<1> QED BY <1>1, StageInv, BootingType DEF ReapTerminalFleet

(* A change of the run row that no part of the invariant looks at, or of   *)
(* the fleet.                                                              *)
LEMMA RunRowStage ==
    ASSUME NEW d, DbOK(d), NEW e, e \in Db, e.lease = d.lease,
           e.run.state = d.run.state \/ e.run.state \notin {"completed", "stopped"},
           e.run.degraded = d.run.degraded, e.run.workers = d.run.workers,
           e.run.rate = d.run.rate, e.run.delivered = d.run.delivered
    PROVE  Stage(d, e)
BY DEF DbOK, Stage, Uniform, Quiet, LostOnly

LEMMA TimeInv ==
    ASSUME FullInv, TimePasses
    PROVE  FullInv' /\ Contract!Next
<1> DEFINE Clock == [run |-> run', lease |-> lease, fleet |-> fleet]
<1>1. CASE WorkloadEnds
  <2> DEFINE e == [db EXCEPT !.fleet.load = "down"]
  <2>1. Commit(e)
    BY <1>1, DbInv DEF WorkloadEnds, Commit, db
  <2>2. Stage(db, e)
    BY DbInv, RunRowStage DEF db, Db, FleetRow, LTable
  <2> HIDE DEF e
  <2> QED BY <1>1, <2>1, <2>2, StageInv, BootingType DEF WorkloadEnds
<1>2. CASE T0Arrives \/ ProvisionTimeout \/ DurationEnds \/ StopGraceEnds
  <2>1. /\ run' \in RunRow /\ UNCHANGED <<lease, fleet, worker, booting>>
        /\ run'.state = run.state /\ run'.degraded = run.degraded
        /\ run'.workers = run.workers /\ run'.rate = run.rate
        /\ run'.delivered = run.delivered
    BY <1>2, DbInv DEF T0Arrives, ProvisionTimeout, DurationEnds, StopGraceEnds, RunRow
  <2>2. Commit(Clock)
    BY <2>1 DEF Commit
  <2>3. Stage(db, Clock)
    BY <2>1, DbInv, RunRowStage DEF db, Db, LTable
  <2> HIDE DEF Clock
  <2> QED BY <2>1, <2>2, <2>3, StageInv, BootingType
<1>3. CASE BootGraceEnds
  <2>1. Commit(db) /\ UNCHANGED worker /\ booting' \in BOOLEAN
    BY <1>3 DEF BootGraceEnds, Commit, db
  <2> QED BY <2>1, DbInv, StageReflexive, StageInv
<1>4. ASSUME NEW s \in Slots, HeartbeatAges(s)
      PROVE  FullInv' /\ Contract!Next
  <2> DEFINE row == [lease[s] EXCEPT !.age = IF @ = "fresh" THEN "stale" ELSE "dead"]
             e == [db EXCEPT !.lease[s] = row]
  <2>1. row \in LeaseRow /\ row.state = lease[s].state /\ row.token = lease[s].token
        /\ row.holder = lease[s].holder /\ row.share = lease[s].share
    BY DbInv DEF LTable, LeaseRow
  <2>2. Commit(e)
    BY <1>4, DbInv DEF HeartbeatAges, Commit, db
  <2>3. lease[s].state # "absent"
    BY <1>4 DEF HeartbeatAges, Live
  <2> HIDE DEF row
  <2>4. MoveOK(db, e)
    BY <2>1, <2>3, DbInv, RowMoves DEF Minted
  <2> HIDE DEF e
  <2>5. UNCHANGED <<worker, booting>>
    BY <1>4 DEF HeartbeatAges
  <2> QED BY <2>2, <2>4, <2>5, MoveInv, IdleWorkers, BootingType
<1> QED BY <1>1, <1>2, <1>3, <1>4 DEF TimePasses

(* A forced stop: every live lease done, every free one lost.              *)
LEMMA FinaliseMoves ==
    ASSUME NEW d, DbOK(d), Minted(d.lease), NEW e \in Db,
           e.lease = FinaliseAll(d.lease), e.run.state = "draining",
           e.run.degraded = d.run.degraded, e.run.workers = d.run.workers,
           e.run.rate = d.run.rate
    PROVE  MoveOK(d, e)
<1> DEFINE L == d.lease
           M == FinaliseAll(L)
<1>1. L \in LTable
  BY DEF DbOK, Db, LTable
<1>2. M \in LTable /\ Rows(M) = Rows(L)
  BY <1>1, LeaseFunctions
<1>3. ASSUME NEW s \in Slots
      PROVE  /\ M[s].token = L[s].token /\ M[s].holder = L[s].holder
             /\ M[s].share = L[s].share
             /\ \/ M[s].state = L[s].state /\ M[s].state \notin Live
                \/ L[s].state \in Live /\ M[s].state = "done"
                \/ L[s].state = "free" /\ M[s].state = "lost"
  <2>1. L[s] \in LeaseRow
    BY <1>1 DEF LTable
  <2>2. M[s] = CASE L[s].state \in Live   -> [L[s] EXCEPT !.state = "done"]
                 [] L[s].state = "free"   -> [L[s] EXCEPT !.state = "lost"]
                 [] OTHER                 -> L[s]
    BY DEF FinaliseAll
  <2> HIDE DEF M, L
  <2> QED BY <2>1, <2>2 DEF LeaseRow, Live
<1>4. e.lease = M /\ L = d.lease
  OBVIOUS
<1> HIDE DEF M, L
<1>5. MovedTable(L, M)
  BY <1>3, <1>4, PairCases DEF MovedTable, Live, Minted
<1>6. Uniform(d) => Uniform(e)
  BY <1>2, <1>3, <1>4 DEF Uniform, Rows
<1>7. Quiet(e)
  BY DEF Quiet
<1>8. DbOK(e)
  BY <1>2, <1>4 DEF DbOK
<1> QED BY <1>4, <1>5, <1>6, <1>7, <1>8 DEF MoveOK

LEMMA StopInv ==
    ASSUME FullInv, NEW force \in BOOLEAN, NEW ok \in BOOLEAN, NEW delivered \in BOOLEAN,
           StopRun(force, ok, delivered)
    PROVE  FullInv' /\ Contract!Next
<1> DEFINE drained  == transition_run(db, "draining", "operator-stop")
           draining == [drained EXCEPT !.fleet.load = IF ok /\ @ = "up" THEN "stopping" ELSE @]
           forced   == [draining EXCEPT !.fleet.load = IF ok THEN "down" ELSE @,
                                        !.lease = FinaliseAll(lease),
                                        !.run.delivered = @ \/ delivered]
<1>1. "draining" \in RunStates \ {"completed", "stopped"} /\ "operator-stop" \in Reasons
  BY DEF RunStates, Terminal, Reasons
<1>2. Stage(db, drained) /\ DbOK(drained)
  BY <1>1, DbInv, TransitionStage DEF Stage
<1>3. /\ drained.lease = lease /\ drained.run.state = "draining"
      /\ drained.run.degraded = run.degraded /\ drained.run.workers = run.workers
      /\ drained.run.rate = run.rate
  BY DbInv DEF transition_run, DbOK, Db, RunRow
<1> HIDE DEF drained
<1>4. /\ draining \in Db /\ draining.lease = drained.lease /\ draining.run = drained.run
  BY <1>2 DEF DbOK, Db, FleetRow
<1> HIDE DEF draining
<1>5. Stage(db, draining) /\ DbOK(draining)
  BY <1>2, <1>4, RunRowStage, StageTransitive DEF Stage
<1>6. MoveOK(db, forced)
  <2>1. FinaliseAll(lease) \in LTable
    BY DbInv, LeaseFunctions
  <2>2. /\ forced \in Db /\ forced.lease = FinaliseAll(lease)
        /\ forced.run.state = draining.run.state
        /\ forced.run.degraded = draining.run.degraded
        /\ forced.run.workers = draining.run.workers /\ forced.run.rate = draining.run.rate
    <3>1. draining.run \in RunRow /\ draining.fleet \in FleetRow /\ draining.run.delivered \in BOOLEAN
      BY <1>4 DEF Db, RunRow
    <3> DEFINE b == draining.run.delivered \/ delivered
               r == [draining.run EXCEPT !.delivered = b]
               f == [draining.fleet EXCEPT !.load = IF ok THEN "down" ELSE @]
    <3>2. b \in BOOLEAN
      OBVIOUS
    <3>3. forced = [draining EXCEPT !.fleet = f, !.lease = FinaliseAll(lease), !.run = r]
      BY <1>4 DEF Db
    <3> HIDE DEF b
    <3>4. /\ r \in RunRow /\ r.state = draining.run.state
          /\ r.degraded = draining.run.degraded
          /\ r.workers = draining.run.workers /\ r.rate = draining.run.rate
      BY <3>1, <3>2 DEF RunRow
    <3>5. f \in FleetRow
      BY <3>1 DEF FleetRow
    <3> HIDE DEF r, f, forced
    <3> QED BY <1>4, <2>1, <3>3, <3>4, <3>5 DEF Db, LTable
  <2> HIDE DEF forced
  <2> QED BY <1>3, <1>4, <2>2, DbInv, FinaliseMoves
<1> HIDE DEF forced
<1>7. MoveOK(db, maybe_complete_run(forced))
  BY <1>6, CompleteStage, MoveThenStage DEF MoveOK
<1>8. MoveOK(db, draining)
  BY <1>5, DbInv, StageMoves
<1>9. Commit(IF force THEN maybe_complete_run(forced) ELSE draining) /\ UNCHANGED <<worker, booting>>
  BY DEF StopRun, forced, draining, drained
<1> QED BY <1>7, <1>8, <1>9, MoveInv, IdleWorkers, BootingType

LEMMA PauseInv ==
    ASSUME FullInv, PauseRun \/ ResumeRun
    PROVE  FullInv' /\ Contract!Next
<1>1. {"paused", "running"} \subseteq RunStates \ {"completed", "stopped"} /\ "none" \in Reasons
  BY DEF RunStates, Terminal, Reasons
<1>2. PICK st \in {"paused", "running"} :
         Commit(transition_run(db, st, "none")) /\ UNCHANGED <<worker, booting>>
  BY DEF PauseRun, ResumeRun
<1>3. Stage(db, transition_run(db, st, "none"))
  BY <1>1, DbInv, TransitionStage
<1> QED BY <1>2, <1>3, StageInv, BootingType

LEMMA RescaleInv ==
    ASSUME FullInv, NEW rate \in Rates, RescaleRun(rate)
    PROVE  FullInv' /\ Contract!Next
<1> DEFINE e == RescaleRows(db, rate)
<1>1. rate \in Nat
  OBVIOUS
<1>2. /\ DbOK(e) /\ (Uniform(db) => Uniform(e)) /\ LostOnly(db.lease, e.lease)
      /\ e.run = [run EXCEPT !.rate = rate]
  BY <1>1, DbInv, RescaleStage
<1>3. Commit(e) /\ UNCHANGED <<worker, booting>> /\ run.state \notin Terminal
  BY DEF RescaleRun
<1> HIDE DEF e
<1>4. e.run.state = run.state
  BY <1>2, DbInv DEF RunRow
<1>5. Stage(db, e)
  BY <1>2, <1>3, <1>4 DEF Stage, Quiet, Terminal
<1> QED BY <1>3, <1>5, StageInv, BootingType

LEMMA RestartInv ==
    ASSUME FullInv, NEW ok \in BOOLEAN, RestartControlPlane(ok)
    PROVE  FullInv' /\ Contract!Next
<1> DEFINE lost == [db EXCEPT !.lease = LoseUnfinished(lease)]
           orphan == transition_run(lost, "failed", "orphaned")
           swept == [db EXCEPT !.fleet.load = "down"]
<1>1. "failed" \in RunStates \ {"completed", "stopped"} /\ "orphaned" \in Reasons
  BY DEF RunStates, Terminal, Reasons, FailedReasons
<1>2. Stage(db, lost) /\ DbOK(lost)
  BY DbInv, LoseStage, LoseSomeTables DEF Stage
<1>3. Stage(db, swept)
  BY DbInv, RunRowStage DEF db, Db, FleetRow, LTable
<1>4. \E e \in {orphan, swept, db} : Commit(e)
  BY DEF RestartControlPlane
<1> HIDE DEF lost
<1>5. Stage(db, orphan)
  BY <1>1, <1>2, TransitionStage, StageTransitive
<1>6. UNCHANGED worker /\ booting' \in BOOLEAN
  BY DEF RestartControlPlane
<1> HIDE DEF orphan, swept
<1> QED BY <1>3, <1>4, <1>5, <1>6, DbInv, StageReflexive, StageInv

(* A step of one process that leaves the rows alone.                       *)
LEMMA LocalInv ==
    ASSUME FullInv, NEW w \in Workers, NEW new \in WorkerRow,
           worker' = [worker EXCEPT ![w] = new],
           UNCHANGED <<run, lease, fleet, booting>>,
           \/ new.token = 0 /\ new.pc \in {"boot", "gone"}
           \/ /\ new.slot = worker[w].slot /\ new.token = worker[w].token
              /\ new.pc \notin {"boot", "gone"} => worker[w].pc \notin {"boot", "gone"}
              /\ new.pc \in Polling => worker[w].pc \in Polling
    PROVE  FullInv' /\ Contract!Next
<1>1. worker \in [Workers -> WorkerRow]
  BY DEF FullInv, IInv, TypeOK
<1>2. \A v \in Workers : worker'[v] = IF v = w THEN new ELSE worker[v]
  BY <1>1
<1>3. worker' \in [Workers -> WorkerRow] /\ \A v \in Workers : Keeps(v)
  BY <1>1, <1>2 DEF Keeps
<1>4. Commit(db)
  BY DEF Commit, db
<1> QED BY <1>3, <1>4, DbInv, MoveInv, BootingType

LEMMA LocalSteps ==
    ASSUME FullInv, NEW w \in Workers,
           StartGenerating(w) \/ WorkerDrains(w) \/ WorkerDies(w) \/ WorkerRestarts(w)
    PROVE  FullInv' /\ Contract!Next
<1>1. worker[w] \in WorkerRow /\ worker \in [Workers -> WorkerRow]
  BY DEF FullInv, IInv, TypeOK
<1>2. CASE StartGenerating(w)
  <2> DEFINE new == [worker[w] EXCEPT !.pc = "generating", !.sent = TRUE]
  <2>1. /\ new \in WorkerRow /\ new.slot = worker[w].slot /\ new.token = worker[w].token
        /\ new.pc = "generating"
    BY <1>1 DEF WorkerRow, WorkerStates
  <2>2. worker' = [worker EXCEPT ![w] = new] /\ UNCHANGED <<run, lease, fleet, booting>>
    BY <1>1, <1>2 DEF StartGenerating
  <2> HIDE DEF new
  <2>3. worker[w].pc = "released"
    BY <1>2 DEF StartGenerating
  <2> QED BY <2>1, <2>2, <2>3, LocalInv DEF Polling
<1>3. CASE WorkerDrains(w)
  <2> DEFINE new == Drained(w)
  <2>1. /\ new \in WorkerRow /\ new.slot = worker[w].slot /\ new.token = worker[w].token
        /\ new.pc = "draining"
    BY <1>1 DEF WorkerRow, WorkerStates, Drained
  <2>2. worker' = [worker EXCEPT ![w] = new] /\ UNCHANGED <<run, lease, fleet, booting>>
        /\ worker[w].pc \notin {"boot", "gone"}
    BY <1>3 DEF WorkerDrains
  <2> HIDE DEF new
  <2> QED BY <2>1, <2>2, LocalInv DEF Polling
<1>4. CASE WorkerDies(w)
  <2>1. Gone \in WorkerRow /\ Gone.token = 0 /\ Gone.pc = "gone"
    BY DEF Gone, WorkerRow, WorkerStates, Slots
  <2> QED BY <1>4, <2>1, LocalInv DEF WorkerDies
<1>5. CASE WorkerRestarts(w)
  <2> DEFINE new == [worker[w] EXCEPT !.pc = "boot"]
  <2>1. /\ new \in WorkerRow /\ new.slot = worker[w].slot /\ new.token = worker[w].token
        /\ new.pc = "boot"
    BY <1>1 DEF WorkerRow, WorkerStates
  <2>2. worker' = [worker EXCEPT ![w] = new] /\ UNCHANGED <<run, lease, fleet, booting>>
    BY <1>1, <1>5 DEF WorkerRestarts
  <2> HIDE DEF new
  <2> QED BY <2>1, <2>2, LocalInv DEF Polling
<1> QED BY <1>2, <1>3, <1>4, <1>5

(* A request of one process, answered or not, that moves rows without a    *)
(* grant.                                                                  *)
LEMMA RequestInv ==
    ASSUME FullInv, NEW w \in Workers, NEW e, MoveOK(db, e), Commit(e),
           NEW new \in WorkerRow,
           worker' \in {worker, [worker EXCEPT ![w] = new]},
           UNCHANGED booting,
           \/ new.token = 0 /\ new.pc \in {"boot", "gone"}
           \/ /\ new.slot = worker[w].slot /\ new.token = worker[w].token
              /\ worker[w].pc \notin {"boot", "gone"}
              /\ new.pc \in Polling =>
                   worker[w].pc \in Polling \/ e.lease[worker[w].slot].state # "claimed"
    PROVE  FullInv' /\ Contract!Next
<1>1. worker \in [Workers -> WorkerRow]
  BY DEF FullInv, IInv, TypeOK
<1>2. CASE worker' = worker
  BY <1>2, MoveInv, IdleWorkers, BootingType
<1>3. CASE worker' = [worker EXCEPT ![w] = new]
  <2>1. \A v \in Workers : worker'[v] = IF v = w THEN new ELSE worker[v]
    BY <1>1, <1>3
  <2>2. e.lease = lease'
    BY DEF Commit
  <2>3. worker' \in [Workers -> WorkerRow] /\ \A v \in Workers : Keeps(v)
    BY <1>1, <1>3, <2>1, <2>2 DEF Keeps
  <2> QED BY <2>3, MoveInv, BootingType
<1> QED BY <1>2, <1>3

(* What is known of a process that has a lease and is its holder.          *)
LEMMA HolderFacts ==
    ASSUME FullInv, NEW w \in Workers, worker[w].pc \notin {"boot", "gone"},
           is_lease_holder(lease, w)
    PROVE  /\ worker[w].slot \in Slots
           /\ lease[worker[w].slot] \in LeaseRow
           /\ lease[worker[w].slot].state \notin {"absent", "free"}
           /\ lease[worker[w].slot].token > 0
           /\ worker[w].pc \in Polling => lease[worker[w].slot].state # "claimed"
<1>1. worker[w].slot \in Slots /\ worker[w].token \in Nat /\ lease \in [Slots -> LeaseRow]
  BY DEF FullInv, IInv, TypeOK, WorkerRow
<1> QED BY <1>1 DEF FullInv, Fenced, is_lease_holder, Polling

LEMMA FinalInv ==
    ASSUME FullInv, NEW w \in Workers, NEW delivered \in BOOLEAN, NEW got \in BOOLEAN,
           Final(w, delivered, got)
    PROVE  FullInv' /\ Contract!Next
<1> DEFINE s == worker[w].slot
           row == [lease[s] EXCEPT !.state = "done"]
           f == [db EXCEPT !.lease[s] = row]
           g == [db EXCEPT !.lease[s].state = "done", !.run.delivered = @ \/ delivered]
<1>1. /\ Commit(FinalRows(w, delivered)) /\ worker[w].pc = "draining" /\ UNCHANGED booting
      /\ worker' \in {worker, [worker EXCEPT ![w] = Gone]}
  BY DEF Final
<1>2. Gone \in WorkerRow /\ Gone.token = 0 /\ Gone.pc = "gone"
  BY DEF Gone, WorkerRow, WorkerStates, Slots
<1>3. MoveOK(db, FinalRows(w, delivered))
  <2>1. CASE ~is_lease_holder(lease, w)
    BY <2>1, DbInv DEF FinalRows
  <2>2. CASE is_lease_holder(lease, w)
    <3>1. /\ s \in Slots /\ lease[s] \in LeaseRow /\ lease[s].token > 0
          /\ lease[s].state \notin {"absent", "free"}
      BY <1>1, <2>2, HolderFacts
    <3>2. CASE lease[s].state = "done"
      <4>1. Stage(db, maybe_complete_run(db))
        BY DbInv, CompleteStage
      <4> QED BY <2>2, <3>2, <4>1, DbInv, StageMoves DEF FinalRows, record_final
    <3>3. CASE lease[s].state # "done"
      <4>1. /\ row \in LeaseRow /\ row.state = "done" /\ row.token = lease[s].token
            /\ row.holder = lease[s].holder /\ row.share = lease[s].share
        BY <3>1 DEF LeaseRow, LeaseStates
      <4>2. <<lease[s].state, "done">> \in Pairs
        <5>1. lease[s].state \in {"claimed", "ready", "running", "lost"}
          BY <3>1, <3>3 DEF LeaseRow, LeaseStates, Live
        <5> QED BY <5>1, PairCases
      <4>3. lease = db.lease
        BY DbInv
      <4> HIDE DEF row
      <4>4. MoveOK(db, f)
        BY <3>1, <4>1, <4>2, <4>3, DbInv, RowMoves DEF Live
      <4>5. /\ g.lease = f.lease /\ g \in Db /\ g.run.state = f.run.state
            /\ g.run.degraded = f.run.degraded /\ g.run.workers = f.run.workers
            /\ g.run.rate = f.run.rate
            /\ f.run.delivered => g.run.delivered
        <5>1. f \in Db /\ f.run = run /\ f.fleet = fleet /\ run \in RunRow /\ fleet \in FleetRow
          BY <4>4, DbInv DEF MoveOK, DbOK, db
        <5> DEFINE b == run.delivered \/ delivered
                   r == [run EXCEPT !.delivered = b]
        <5>2. b \in BOOLEAN
          OBVIOUS
        <5>3. g = [f EXCEPT !.run = r]
          BY <3>1, DbInv DEF db, row, LTable
        <5>4. run.delivered => b
          OBVIOUS
        <5> HIDE DEF b
        <5>5. r \in RunRow /\ r.state = run.state /\ r.degraded = run.degraded
              /\ r.workers = run.workers /\ r.rate = run.rate /\ r.delivered = b
          BY <5>1, <5>2 DEF RunRow
        <5> HIDE DEF r, g, f
        <5> QED BY <5>1, <5>3, <5>4, <5>5 DEF Db
      <4> HIDE DEF f, g
      <4>6. MoveOK(db, g)
        BY <4>4, <4>5 DEF MoveOK, DbOK, Uniform, Quiet
      <4>7. FinalRows(w, delivered) = maybe_complete_run(g)
        BY <2>2, <3>3, DbInv DEF FinalRows, record_final, g
      <4> QED BY <4>6, <4>7, CompleteStage, MoveThenStage DEF MoveOK
    <3> QED BY <3>2, <3>3
  <2> QED BY <2>1, <2>2
<1> QED BY <1>1, <1>2, <1>3, RequestInv

LEMMA ReadyInv ==
    ASSUME FullInv, NEW w \in Workers, NEW got \in BOOLEAN, Ready(w, got)
    PROVE  FullInv' /\ Contract!Next
<1> DEFINE s == worker[w].slot
           L == Renewed(lease, s)
           M == IF L[s].state \in {"claimed", "ready"} THEN [L EXCEPT ![s].state = "ready"] ELSE L
           row == [lease[s] EXCEPT !.age = "fresh",
                     !.state = IF @ \in {"claimed", "ready"} THEN "ready" ELSE @]
           f == [db EXCEPT !.lease[s] = row]
           e == evaluate_release(f, FALSE)
           new == IF worker[w].pc = "warming"
                    THEN [worker[w] EXCEPT !.pc = "awaiting"]
                    ELSE [worker[w] EXCEPT !.pc = "generating", !.sent = TRUE]
<1>1. /\ worker[w].pc \in {"warming", "rejoining"} /\ is_lease_holder(lease, w)
      /\ Commit(mark_ready(db, s)) /\ UNCHANGED booting
  BY DEF Ready
<1>2. /\ s \in Slots /\ lease[s] \in LeaseRow /\ lease[s].token > 0
      /\ lease[s].state \notin {"absent", "free"}
  BY <1>1, HolderFacts
<1>3. /\ row \in LeaseRow /\ row.token = lease[s].token /\ row.holder = lease[s].holder
      /\ row.share = lease[s].share /\ row.state # "claimed"
      /\ \/ row.state = lease[s].state
         \/ lease[s].state = "claimed" /\ row.state = "ready"
  BY <1>2 DEF LeaseRow, LeaseStates, Live
<1>4. mark_ready(db, s) = e
  <2>1. db.lease = lease /\ lease \in LTable
    BY DbInv
  <2>2. L = [lease EXCEPT ![s] = [lease[s] EXCEPT !.age = "fresh"]]
    BY <1>2, <2>1 DEF Renewed
  <2>3. L[s].state = lease[s].state
    BY <1>2, <2>1, <2>2 DEF LTable, LeaseRow
  <2>4. M = [lease EXCEPT ![s] = row]
    <3>1. CASE lease[s].state \in {"claimed", "ready"}
      <4>1. M = [L EXCEPT ![s] = [L[s] EXCEPT !.state = "ready"]]
        BY <2>3, <3>1
      <4>2. row = [[lease[s] EXCEPT !.age = "fresh"] EXCEPT !.state = "ready"]
        BY <1>2, <3>1 DEF LeaseRow
      <4> HIDE DEF row, L
      <4> QED BY <1>2, <2>1, <2>2, <4>1, <4>2 DEF LTable
    <3>2. CASE lease[s].state \notin {"claimed", "ready"}
      <4>1. M = L
        BY <2>3, <3>2
      <4>2. row = [lease[s] EXCEPT !.age = "fresh"]
        BY <1>2, <3>2 DEF LeaseRow
      <4> QED BY <2>2, <4>1, <4>2
    <3> QED BY <3>1, <3>2
  <2>5. [db EXCEPT !.lease = M] = f
    BY <2>1, <2>4 DEF db
  <2>6. mark_ready(db, s) = evaluate_release([db EXCEPT !.lease = M], FALSE)
    BY <2>1 DEF mark_ready
  <2> QED BY <2>5, <2>6
<1>5. MoveOK(db, f)
  <2>1. db.lease = lease
    BY DbInv
  <2>2. row.state = lease[s].state \/ <<lease[s].state, row.state>> \in Pairs
    BY <1>3, PairCases
  <2>3. row.state \in Live => lease[s].state \in Live
    BY <1>3 DEF Live
  <2> HIDE DEF row
  <2> QED BY <1>2, <1>3, <2>1, <2>2, <2>3, DbInv, RowMoves
<1>6. f.lease[s] = row
  BY <1>2, DbInv DEF db, LTable
<1> HIDE DEF row, f, M, L
<1>7. Stage(f, e)
  BY <1>5, ReleaseStage DEF MoveOK
<1>8. MoveOK(db, e)
  BY <1>5, <1>7, MoveThenStage
<1>9. e.lease[s].state # "claimed"
  BY <1>2, <1>3, <1>6, <1>7 DEF Stage, LostOnly
<1> HIDE DEF e
<1>10. /\ new \in WorkerRow /\ new.slot = worker[w].slot /\ new.token = worker[w].token
       /\ worker' \in {worker, [worker EXCEPT ![w] = new]}
  <2>1. worker[w] \in WorkerRow /\ worker \in [Workers -> WorkerRow]
    BY DEF FullInv, IInv, TypeOK
  <2> QED BY <2>1 DEF WorkerRow, WorkerStates, Ready
<1> HIDE DEF new
<1> QED BY <1>1, <1>4, <1>8, <1>9, <1>10, RequestInv

(* The rows a holder's heartbeat leaves.                                   *)
LEMMA HeartbeatRows ==
    ASSUME FullInv, NEW w \in Workers, worker[w].pc \in {"awaiting", "generating"},
           is_lease_holder(lease, w), NEW auth \in BOOLEAN
    PROVE  MoveOK(db, record_heartbeat(db, worker[w].slot, auth))
<1> DEFINE s == worker[w].slot
           cmd == heartbeat_command(db, s)
           b == lease[s].retarget /\ cmd # "retarget"
           st == IF cmd = "drain" THEN lease[s].state
                 ELSE IF Promoted(db, s) THEN "running" ELSE Restored(db, s)
           row == [lease[s] EXCEPT !.age = "fresh", !.state = st, !.retarget = b]
           au == IF auth THEN run.auth \cup {s} ELSE run.auth
           f == [db EXCEPT !.lease[s] = row]
           g == [db EXCEPT !.lease[s] = row, !.run.auth = au]
<1>1. /\ s \in Slots /\ lease[s] \in LeaseRow /\ lease[s].token > 0
      /\ lease[s].state \in {"ready", "running", "lost", "done"}
  BY HolderFacts DEF Polling, LeaseRow, LeaseStates, Live
<1>2. b \in BOOLEAN
  BY <1>1 DEF LeaseRow
<1>3. db.lease = lease /\ db.run = run /\ run \in RunRow /\ lease \in LTable /\ fleet \in FleetRow
  BY DbInv
<1>4. /\ st = lease[s].state \/ <<lease[s].state, st>> \in Pairs
      /\ st \in LeaseStates
      /\ run.state \in {"completed", "stopped"} => st = lease[s].state
  <2>1. Restored(db, s) = IF lease[s].state # "lost" THEN lease[s].state
                          ELSE IF run.t0 = "unset" THEN "ready" ELSE "running"
    BY <1>3 DEF Restored
  <2>2. cmd = "release" => Restored(db, s) \in {"claimed", "ready"} /\ run.t0 # "unset"
    BY <1>3 DEF heartbeat_command
  <2>3. run.state \in {"completed", "stopped"} => cmd = "drain"
    BY <1>3 DEF heartbeat_command, Terminal
  <2>4. Promoted(db, s) => lease[s].state = "ready"
    BY <1>1, <2>1, <2>2 DEF Promoted
  <2> HIDE DEF cmd
  <2>5. st = lease[s].state \/ (lease[s].state = "ready" /\ st = "running")
        \/ (lease[s].state = "lost" /\ st \in {"ready", "running"})
    BY <1>1, <2>1, <2>4
  <2> HIDE DEF st
  <2>6. st = lease[s].state \/ <<lease[s].state, st>> \in Pairs
    BY <2>5, PairCases
  <2>7. st \in LeaseStates
    BY <1>1, <2>5 DEF LeaseStates, Live
  <2> QED BY <2>3, <2>6, <2>7 DEF st
<1>5. record_heartbeat(db, s, auth) \in {g, transition_run(g, "running", "none")}
      /\ (record_heartbeat(db, s, auth) # g => run.state = "releasing")
  <2>1. row = HeartbeatRow(db, s)
    BY <1>3 DEF HeartbeatRow
  <2>2. g = [db EXCEPT !.lease[s] = HeartbeatRow(db, s),
                       !.run.auth = IF auth THEN db.run.auth \cup {s} ELSE db.run.auth]
    BY <1>3, <2>1
  <2> HIDE DEF g
  <2> QED BY <1>3, <2>2 DEF record_heartbeat
<1> HIDE DEF b, st, cmd
<1>6. /\ row \in LeaseRow /\ row.token = lease[s].token /\ row.holder = lease[s].holder
      /\ row.share = lease[s].share /\ row.state = st
  BY <1>1, <1>2, <1>4 DEF LeaseRow
<1> HIDE DEF row
<1>7. MoveOK(db, f)
  BY <1>1, <1>3, <1>4, <1>6, DbInv, RowMoves
<1>8. f \in Db /\ f.run = run /\ f.lease = [lease EXCEPT ![s] = row]
  BY <1>3, <1>7 DEF MoveOK, DbOK, db
<1>9. au \in SUBSET Slots
  BY <1>1, <1>3 DEF RunRow
<1> HIDE DEF au
<1>10. /\ g \in Db /\ g.lease = f.lease /\ g.run.state = f.run.state
       /\ g.run.degraded = f.run.degraded /\ g.run.workers = f.run.workers
       /\ g.run.rate = f.run.rate /\ g.run.delivered = f.run.delivered
  <2>1. g = [f EXCEPT !.run.auth = au]
    BY DEF db
  <2> HIDE DEF f, g
  <2> QED BY <1>8, <1>9, <2>1 DEF Db, RunRow
<1> HIDE DEF f
<1>11. Stage(f, g) /\ DbOK(g)
  BY <1>7, <1>10, RunRowStage DEF MoveOK, Stage
<1> HIDE DEF g
<1>12. Stage(g, transition_run(g, "running", "none"))
  <2>1. "running" \in RunStates \ {"completed", "stopped"} /\ "none" \in Reasons
    BY DEF RunStates, Terminal, Reasons
  <2> QED BY <1>11, <2>1, TransitionStage
<1> QED BY <1>5, <1>7, <1>11, <1>12, MoveThenStage

LEMMA HeartbeatInv ==
    ASSUME FullInv, NEW w \in Workers, NEW auth \in BOOLEAN, NEW got \in BOOLEAN,
           Heartbeat(w, auth, got)
    PROVE  FullInv' /\ Contract!Next
<1> DEFINE s == worker[w].slot
           own == is_lease_holder(lease, w)
           cmd == IF own THEN heartbeat_command(db, s) ELSE "superseded"
           e == IF own THEN record_heartbeat(db, s, auth) ELSE db
           new == Obeyed(w, cmd, lease[s].share)
<1>1. /\ worker[w].pc \in {"awaiting", "generating"} /\ Commit(e) /\ UNCHANGED booting
      /\ worker' \in {worker, [worker EXCEPT ![w] = new]}
  BY DEF Heartbeat
<1>2. MoveOK(db, e)
  BY <1>1, DbInv, HeartbeatRows
<1> HIDE DEF e, cmd
<1>3. new \in WorkerRow /\ new.slot = worker[w].slot /\ new.token = worker[w].token
  <2>1. worker[w] \in WorkerRow /\ lease[s].share \in Nat
    BY DEF FullInv, IInv, TypeOK, LeaseRow, WorkerRow
  <2>2. CASE cmd \in {"drain", "superseded"}
    <3>1. new = Drained(w)
      BY <2>2 DEF Obeyed
    <3> HIDE DEF new
    <3> QED BY <2>1, <3>1 DEF Drained, WorkerRow, WorkerStates
  <2>3. CASE cmd \notin {"drain", "superseded"} /\ worker[w].pc = "awaiting"
    <3>1. new = [worker[w] EXCEPT !.pc = IF cmd = "release" THEN "released" ELSE @]
      BY <2>3 DEF Obeyed
    <3> QED BY <2>1, <3>1 DEF WorkerRow, WorkerStates
  <2>4. CASE cmd \notin {"drain", "superseded"} /\ worker[w].pc # "awaiting"
    <3> DEFINE h == cmd = "pause"
    <3>1. new = [worker[w] EXCEPT !.held = h,
                             !.share = IF cmd = "retarget" THEN lease[s].share ELSE @]
      BY <2>4 DEF Obeyed
    <3>2. h \in BOOLEAN
      OBVIOUS
    <3> HIDE DEF h, new
    <3> QED BY <2>1, <3>1, <3>2 DEF WorkerRow
  <2> QED BY <2>2, <2>3, <2>4
<1> HIDE DEF new
<1> QED BY <1>1, <1>2, <1>3, RequestInv DEF Polling

(* A claim, replayed or granted, that leaves every other slot alone.       *)
LEMMA ClaimFenced ==
    ASSUME TypeOK, TypeOK', Fenced, NEW w \in Workers, NEW s \in Slots, NEW new \in WorkerRow,
           worker[w].pc = "boot",
           worker' \in {worker, [worker EXCEPT ![w] = new]},
           new.slot = s, new.token = lease'[s].token, new.pc \in {"warming", "rejoining"},
           \A u \in Slots : u # s => /\ lease'[u].token = lease[u].token
                                     /\ lease'[u].holder = lease[u].holder
                                     /\ lease'[u].state = lease[u].state,
           lease'[s].holder = w, lease'[s].state \in Live, lease'[s].token > 0,
           \/ lease'[s].token = lease[s].token + 1
           \/ /\ lease'[s].token = lease[s].token /\ lease[s].holder = w
              /\ lease'[s].state = lease[s].state
    PROVE  Fenced'
<1>1. ASSUME NEW v \in Workers
      PROVE  /\ worker[v].slot \in Slots /\ worker'[v].slot \in Slots
             /\ worker[v].token \in Nat /\ worker'[v].token \in Nat
             /\ v # w => worker'[v] = worker[v]
             /\ worker'[v] = worker[v] \/ (v = w /\ worker'[v] = new)
  <2>1. worker \in [Workers -> WorkerRow] /\ worker' \in [Workers -> WorkerRow]
    BY DEF TypeOK
  <2> QED BY <2>1 DEF WorkerRow
<1>2. \A u \in Slots : lease[u].token \in Nat /\ lease'[u].token \in Nat
  BY DEF TypeOK, LeaseRow
<1>3. \A v \in Workers : v # w /\ worker[v].slot = s => worker[v].token # lease'[s].token
  <2> SUFFICES ASSUME NEW v \in Workers, v # w, worker[v].slot = s,
                      worker[v].token = lease'[s].token
               PROVE  FALSE
    OBVIOUS
  <2>1. worker[v].token <= lease[s].token
    BY DEF Fenced
  <2>2. lease'[s].token = lease[s].token /\ lease[s].holder = w /\ lease[s].state \in Live
    BY <1>1, <1>2, <2>1
  <2>3. is_lease_holder(lease, v)
    BY <2>2 DEF is_lease_holder, Live
  <2>4. lease[s].holder = v
    BY <2>3 DEF Fenced
  <2> QED BY <2>2, <2>4
<1>4. ASSUME NEW v \in Workers
      PROVE  /\ worker'[v].pc \notin {"boot", "gone"} => worker'[v].token > 0
             /\ worker'[v].token <= lease'[worker'[v].slot].token
             /\ worker'[v].token > 0 /\ is_lease_holder(lease, v)' =>
                  /\ lease'[worker'[v].slot].holder = v
                  /\ lease'[worker'[v].slot].state # "free"
                  /\ worker'[v].pc \in Polling => lease'[worker'[v].slot].state # "claimed"
  <2>1. CASE worker'[v] = worker[v] /\ worker[v].slot # s
    BY <1>1, <1>2, <2>1 DEF Fenced, is_lease_holder, Polling
  <2>2. CASE worker'[v] = worker[v] /\ worker[v].slot = s /\ v # w
    <3>1. ~is_lease_holder(lease, v)'
      BY <1>3, <2>2 DEF is_lease_holder
    <3> QED BY <1>1, <1>2, <2>2, <3>1 DEF Fenced, Polling
  <2>3. CASE worker'[v] = worker[v] /\ worker[v].slot = s /\ v = w
    BY <1>1, <1>2, <2>3 DEF Fenced, Polling, Live
  <2>4. CASE v = w /\ worker'[v] = new
    BY <1>1, <1>2, <2>4 DEF Polling, Live
  <2> QED BY <1>1, <2>1, <2>2, <2>3, <2>4
<1>5. ASSUME NEW v \in Workers, NEW x \in Workers, v # x,
             worker'[v].slot = worker'[x].slot, worker'[x].token > 0
      PROVE  worker'[v].token # worker'[x].token
  <2>1. CASE worker'[v] = worker[v] /\ worker'[x] = worker[x]
    BY <1>5, <2>1 DEF Fenced
  <2>2. CASE x = w /\ worker'[x] = new
    BY <1>1, <1>3, <1>5, <2>2
  <2>3. CASE v = w /\ worker'[v] = new
    BY <1>1, <1>3, <1>5, <2>3
  <2> QED BY <1>1, <2>1, <2>2, <2>3
<1>6. \A u \in Slots : lease'[u].state \in Live \cup {"done"} => lease'[u].token > 0
  BY DEF Fenced
<1> QED BY <1>4, <1>5, <1>6 DEF Fenced, Polling

(* The rows a fresh claim leaves.                                          *)
LEMMA IssueRows ==
    ASSUME FullInv, NEW w \in Workers, NEW s \in Slots, lease[s].state \in {"free", "lost"},
           run.state \notin Terminal
    PROVE  LET d == IssueLease(db, w, s)
           IN /\ DbOK(d) /\ Uniform(d) /\ Quiet(d)
              /\ d.lease[s].token = lease[s].token + 1
              /\ d.lease[s].holder = w /\ d.lease[s].state = "claimed"
              /\ \A u \in Slots : u # s => /\ d.lease[u].token = lease[u].token
                                           /\ d.lease[u].holder = lease[u].holder
                                           /\ d.lease[u].state = lease[u].state
<1> DEFINE row == [lease[s] EXCEPT !.token = lease[s].token + 1, !.holder = w,
                                   !.state = "claimed", !.age = "fresh"]
           taken == [db EXCEPT !.lease[s] = row]
           M == [lease EXCEPT ![s] = row]
           d == IssueLease(db, w, s)
<1>1. /\ run \in RunRow /\ lease \in LTable /\ fleet \in FleetRow /\ lease[s] \in LeaseRow
      /\ db.lease = lease /\ db.run = run /\ db.fleet = fleet
  BY DbInv DEF LTable
<1>2. /\ row \in LeaseRow /\ row.state = "claimed" /\ row.token = lease[s].token + 1
      /\ row.holder = w /\ row.share = lease[s].share
  <2> DEFINE k == lease[s].token + 1
  <2>1. k \in Nat /\ w \in Workers \cup {None} /\ "claimed" \in LeaseStates
    BY <1>1 DEF LeaseRow, LeaseStates, Live
  <2> HIDE DEF k
  <2>2. row = [lease[s] EXCEPT !.token = k, !.holder = w, !.state = "claimed", !.age = "fresh"]
    BY DEF k
  <2> HIDE DEF row
  <2>3. /\ row \in LeaseRow /\ row.state = "claimed" /\ row.token = k
        /\ row.holder = w /\ row.share = lease[s].share
    BY <1>1, <2>1, <2>2 DEF LeaseRow
  <2> QED BY <2>3 DEF k
<1>3. taken = [run |-> run, lease |-> M, fleet |-> fleet]
  BY <1>1 DEF db
<1>4. d \in {taken, reapportion_on_takeover(taken, s)}
  <2>1. taken = [db EXCEPT !.lease[s] = [@ EXCEPT !.token = new_lease_id(db.lease[s]),
                                                  !.holder = w, !.state = "claimed",
                                                  !.age = "fresh"]]
    BY <1>1 DEF new_lease_id, db
  <2> HIDE DEF taken
  <2> QED BY <2>1 DEF IssueLease
<1> HIDE DEF row, taken
<1>5. /\ M \in LTable
      /\ \A u \in Slots : M[u] = IF u = s THEN row ELSE lease[u]
  BY <1>1, <1>2 DEF LTable
<1> HIDE DEF M
<1>6. Rows(M) = Rows(lease)
  BY <1>2, <1>5 DEF Rows
<1>7. taken.run = run /\ taken.lease = M /\ DbOK(taken)
  BY <1>1, <1>3, <1>5, <1>6, DbInv DEF DbOK, Db, LTable
<1>8. Uniform(taken)
  <2>1. Uniform(db)
    BY DEF FullInv
  <2> QED BY <1>1, <1>2, <1>5, <1>6, <1>7, <2>1 DEF Uniform, Rows
<1>9. CASE d = taken
  BY <1>2, <1>5, <1>7, <1>8, <1>9 DEF Quiet, Terminal
<1>10. CASE d = reapportion_on_takeover(taken, s) /\ Reapportions(taken)
  <2> DEFINE live == In(M, Live)
             share == build_share_list(run.rate, Cardinality(live))
             N == [u \in Slots |->
                     IF u \in live /\ M[u].share # share
                       THEN [M[u] EXCEPT !.share = share, !.retarget = @ \/ u # s]
                       ELSE M[u]]
  <2>1. d = [taken EXCEPT !.lease = N]
    BY <1>7, <1>10 DEF reapportion_on_takeover
  <2>2. share \in Nat
    <3>1. s \in live /\ live \subseteq Slots
      BY <1>2, <1>5 DEF In, Live
    <3>2. Cardinality(live) \in Nat \ {0}
      BY <3>1, CountNat
    <3> QED BY <1>1, <3>2, ShareNat DEF RunRow
  <2> HIDE DEF share, live
  <2>3. ASSUME NEW u \in Slots
        PROVE  /\ N[u] \in LeaseRow /\ N[u].state = M[u].state /\ N[u].token = M[u].token
               /\ N[u].holder = M[u].holder
    <3>1. M[u] \in LeaseRow
      BY <1>5 DEF LTable
    <3> DEFINE b == M[u].retarget \/ u # s
               r == [M[u] EXCEPT !.share = share, !.retarget = b]
    <3>2. b \in BOOLEAN
      OBVIOUS
    <3>3. N[u] = M[u] \/ N[u] = r
      BY <3>1 DEF LeaseRow
    <3> HIDE DEF b, N
    <3>4. r \in LeaseRow /\ r.state = M[u].state /\ r.token = M[u].token /\ r.holder = M[u].holder
      BY <2>2, <3>1, <3>2 DEF LeaseRow
    <3> HIDE DEF r
    <3> QED BY <3>1, <3>3, <3>4
  <2>4. N \in LTable
    BY <2>3 DEF LTable
  <2> HIDE DEF N
  <2>5. Rows(N) = Rows(M)
    BY <2>3 DEF Rows
  <2>6. d.run = run /\ d.lease = N /\ DbOK(d)
    BY <1>1, <1>6, <1>7, <2>1, <2>4, <2>5 DEF DbOK, Db, LTable
  <2>7. run.degraded
    BY <1>7, <1>10 DEF Reapportions
  <2> HIDE DEF d
  <2>8. /\ DbOK(d) /\ Uniform(d) /\ Quiet(d)
        /\ d.lease[s].token = lease[s].token + 1
        /\ d.lease[s].holder = w /\ d.lease[s].state = "claimed"
        /\ \A u \in Slots : u # s => /\ d.lease[u].token = lease[u].token
                                     /\ d.lease[u].holder = lease[u].holder
                                     /\ d.lease[u].state = lease[u].state
    BY <1>2, <1>5, <2>3, <2>6, <2>7 DEF Uniform, Quiet, Terminal
  <2> QED BY <2>8 DEF d
<1>11. reapportion_on_takeover(taken, s) = taken \/ Reapportions(taken)
  BY DEF reapportion_on_takeover
<1> QED BY <1>4, <1>9, <1>10, <1>11

LEMMA SliceRow ==
    ASSUME NEW d, DbOK(d), NEW s \in Slots
    PROVE  /\ Slice(d, s) \in WorkerRow
           /\ Slice(d, s).slot = s /\ Slice(d, s).token = d.lease[s].token
           /\ Slice(d, s).pc \in {"warming", "rejoining"}
BY DEF DbOK, Db, LeaseRow, Slice, WorkerRow, WorkerStates

LEMMA ClaimInv ==
    ASSUME FullInv, NEW w \in Workers, NEW hint \in Slots \cup {None}, NEW got \in BOOLEAN,
           Claim(w, hint, got)
    PROVE  FullInv' /\ Contract!Next
<1> DEFINE mine == {s \in In(lease, Live) : lease[s].holder = w}
<1>1. worker[w].pc = "boot" /\ run.state \notin Terminal /\ UNCHANGED booting
  BY DEF Claim
<1>2. PICK s \in IF mine # {} THEN Lowest(mine) ELSE next_claimable(lease, hint) :
        \E d \in {IF mine # {} THEN [db EXCEPT !.lease = Renewed(lease, s)]
                             ELSE IssueLease(db, w, s)} :
            /\ Commit(d)
            /\ worker' = IF got THEN [worker EXCEPT ![w] = Slice(d, s)] ELSE worker
  BY DEF Claim
<1>3. PICK d : /\ d = IF mine # {} THEN [db EXCEPT !.lease = Renewed(lease, s)]
                                   ELSE IssueLease(db, w, s)
               /\ Commit(d)
               /\ worker' = IF got THEN [worker EXCEPT ![w] = Slice(d, s)] ELSE worker
  BY <1>2
<1> DEFINE new == Slice(d, s)
<1>4. worker' \in {worker, [worker EXCEPT ![w] = new]}
  BY <1>3
<1>5. d.run = run' /\ d.lease = lease' /\ d.fleet = fleet'
  BY <1>3 DEF Commit
<1>6. TypeOK /\ Fenced /\ worker \in [Workers -> WorkerRow] /\ lease \in LTable /\ db.lease = lease
  BY DbInv DEF FullInv, IInv, TypeOK
<1>7. CASE mine # {}
  <2>1. s \in Slots /\ lease[s].state \in Live /\ lease[s].holder = w
    BY <1>2, <1>7 DEF Lowest, In
  <2> DEFINE row == [lease[s] EXCEPT !.age = "fresh"]
  <2>2. /\ row \in LeaseRow /\ row.state = lease[s].state /\ row.token = lease[s].token
        /\ row.holder = lease[s].holder /\ row.share = lease[s].share
    BY <1>6, <2>1 DEF LTable, LeaseRow
  <2>3. d = [db EXCEPT !.lease[s] = row] /\ d.lease = [lease EXCEPT ![s] = row]
    BY <1>3, <1>6, <1>7 DEF Renewed, db
  <2> HIDE DEF row
  <2>4. MoveOK(db, d)
    BY <1>6, <2>1, <2>2, <2>3, DbInv, RowMoves DEF Live, Minted
  <2>5. DbOK(d)
    BY <2>4 DEF MoveOK
  <2>6. /\ new \in WorkerRow /\ new.slot = s /\ new.token = lease'[s].token
        /\ new.pc \in {"warming", "rejoining"}
    BY <1>5, <2>1, <2>5, SliceRow
  <2> HIDE DEF new
  <2>7. TypeOK' /\ IInv'
    BY <1>1, <1>4, <1>5, <1>6, <2>5, <2>6 DEF DbOK, Db, TypeOK, IInv, Rows
  <2>8. /\ \A u \in Slots : u # s => lease'[u] = lease[u]
        /\ lease'[s].holder = w /\ lease'[s].state = lease[s].state
        /\ lease'[s].token = lease[s].token
    BY <1>5, <1>6, <2>1, <2>2, <2>3 DEF LTable
  <2>9. lease[s].token > 0
    BY <1>6, <2>1 DEF Fenced
  <2>10. Fenced'
    BY <1>1, <1>4, <1>6, <2>1, <2>6, <2>7, <2>8, <2>9, ClaimFenced
  <2>11. Uniform(d) /\ Quiet(d)
    BY <2>4 DEF FullInv, MoveOK
  <2>12. Uniform(db)' /\ Quiet(db)'
    BY <1>5, <2>11 DEF Uniform, Quiet, db, Rows, In
  <2>13. Contract!Next
    BY <1>5, <1>6, <2>4, <2>7, MovedContract DEF MoveOK
  <2> QED BY <2>7, <2>10, <2>12, <2>13 DEF FullInv
<1>8. CASE mine = {}
  <2>1. s \in Slots /\ lease[s].state \in {"free", "lost"}
    BY <1>2, <1>8 DEF next_claimable, Lowest, In
  <2>2. d = IssueLease(db, w, s)
    BY <1>3, <1>8
  <2>3. /\ DbOK(d) /\ Uniform(d) /\ Quiet(d)
        /\ d.lease[s].token = lease[s].token + 1
        /\ d.lease[s].holder = w /\ d.lease[s].state = "claimed"
        /\ \A u \in Slots : u # s => /\ d.lease[u].token = lease[u].token
                                     /\ d.lease[u].holder = lease[u].holder
                                     /\ d.lease[u].state = lease[u].state
    BY <1>1, <2>1, <2>2, IssueRows
  <2>6. /\ new \in WorkerRow /\ new.slot = s /\ new.token = lease'[s].token
        /\ new.pc \in {"warming", "rejoining"}
    BY <1>5, <2>1, <2>3, SliceRow
  <2> HIDE DEF new
  <2>7. TypeOK' /\ IInv'
    BY <1>1, <1>4, <1>5, <1>6, <2>3, <2>6 DEF DbOK, Db, TypeOK, IInv, Rows
  <2>8. lease[s].token \in Nat
    BY <1>6, <2>1 DEF LTable, LeaseRow
  <2>9. lease'[s].token > 0 /\ lease'[s].state \in Live
    BY <1>5, <2>3, <2>8 DEF Live
  <2>10. Fenced'
    BY <1>1, <1>4, <1>5, <1>6, <2>1, <2>3, <2>6, <2>7, <2>9, ClaimFenced
  <2>11. Uniform(db)' /\ Quiet(db)'
    BY <1>5, <2>3 DEF Uniform, Quiet, db, Rows, In
  <2>12. Contract!Next
    <3>1. Contract!Granted(s)
      BY <1>5, <2>1, <2>3 DEF Contract!Granted
    <3>2. ASSUME NEW u \in Slots, u # s
          PROVE  Contract!SlotStep(u) /\ ~Contract!Granted(u)
      <4>1. lease'[u].token = lease[u].token /\ lease'[u].state = lease[u].state
            /\ lease[u].token \in Nat
        BY <1>5, <1>6, <2>3, <3>2 DEF LTable, LeaseRow
      <4> QED BY <4>1 DEF Contract!SlotStep, Contract!Granted
    <3> QED BY <3>1, <3>2 DEF Contract!Next, Contract!SlotStep
  <2> QED BY <2>7, <2>10, <2>11, <2>12 DEF FullInv
<1> QED BY <1>7, <1>8

LEMMA ScaleInv ==
    ASSUME FullInv, NEW n \in 1 .. MaxSlots, ScaleRun(n)
    PROVE  FullInv' /\ Contract!Next
<1> DEFINE share == build_share_list(run.rate, n)
           kept == Reshare(lease, share)
           d == ScaleRows(db, n)
           e == [d EXCEPT !.fleet.load = "up"]
<1>1. Commit(e) /\ UNCHANGED <<worker, booting>> /\ run.state \notin Terminal
  BY DEF ScaleRun
<1>2. DbOK(d)
  BY DbInv, ScaleOK
<1>3. /\ run \in RunRow /\ lease \in LTable /\ db.lease = lease /\ db.run = run
  BY DbInv
<1>4. /\ d.run = [run EXCEPT !.workers = n]
      /\ d.lease = [s \in Slots |->
                    IF s >= n THEN NoLease(lease[s].token)
                    ELSE IF lease[s].state = "absent"
                      THEN NewLease(lease[s].token + 1, share)
                    ELSE kept[s]]
  BY <1>3 DEF ScaleRows, db
<1> HIDE DEF d
<1>5. DbOK(e) /\ e.run = d.run /\ e.lease = d.lease
  BY <1>2 DEF DbOK, Db, FleetRow
<1> HIDE DEF e
<1>6. /\ run' = [run EXCEPT !.workers = n] /\ lease' = d.lease /\ IInv'
  BY <1>1, <1>4, <1>5 DEF Commit, FullInv, IInv, TypeOK, DbOK, Db, Rows
<1>7. ASSUME NEW s \in Slots
      PROVE  /\ lease[s].token \in Nat
             /\ \/ s >= n /\ lease'[s].state = "absent" /\ lease'[s].token = lease[s].token
                \/ /\ s < n /\ lease[s].state = "absent" /\ lease'[s].state = "free"
                   /\ lease'[s].token = lease[s].token + 1 /\ lease'[s].share = share
                \/ /\ s < n /\ lease[s].state # "absent" /\ lease'[s].state = lease[s].state
                   /\ lease'[s].token = lease[s].token /\ lease'[s].holder = lease[s].holder
                   /\ lease'[s].share = share
  <2>1. lease[s] \in LeaseRow /\ lease[s].token \in Nat
    BY <1>3 DEF LTable, LeaseRow
  <2>2. CASE s >= n
    BY <1>4, <1>6, <2>1, <2>2 DEF NoLease, NewLease
  <2>3. CASE ~(s >= n) /\ lease[s].state = "absent"
    <3>1. s < n
      BY <2>3 DEF Slots
    <3>2. lease'[s] = NewLease(lease[s].token + 1, share)
      BY <1>4, <1>6, <2>3
    <3> HIDE DEF share
    <3> QED BY <2>1, <2>3, <3>1, <3>2 DEF NewLease
  <2>4. CASE ~(s >= n) /\ lease[s].state # "absent"
    <3>1. s < n
      BY <2>4 DEF Slots
    <3> DEFINE b == lease[s].state \in Live
    <3>2. lease'[s] = [lease[s] EXCEPT !.share = share, !.retarget = b]
      BY <1>4, <1>6, <2>4 DEF Reshare
    <3> HIDE DEF b, share
    <3> QED BY <2>1, <2>4, <3>1, <3>2 DEF LeaseRow
  <2> QED BY <2>2, <2>3, <2>4
<1> HIDE DEF share
<1>8. Rows(lease') = 0 .. n - 1
  BY <1>7 DEF Rows, Slots
<1>9. Uniform(db)'
  <2>1. run'.workers = n /\ run'.rate = run.rate
    BY <1>3, <1>6 DEF RunRow
  <2> QED BY <1>7, <1>8, <2>1 DEF Uniform, db, Rows, share
<1>10. Quiet(db)'
  <2>1. run'.state = run.state
    BY <1>3, <1>6 DEF RunRow
  <2> QED BY <1>1, <2>1 DEF Quiet, db, Terminal
<1>11. Fenced'
  <2>1. Fenced /\ worker' = worker
    BY <1>1 DEF FullInv
  <2>2. \A w \in Workers : worker[w].slot \in Slots /\ worker[w].token \in Nat
    BY DEF FullInv, IInv, TypeOK, WorkerRow
  <2>3. ASSUME NEW w \in Workers
        PROVE  /\ worker[w].token <= lease'[worker[w].slot].token
               /\ is_lease_holder(lease, w)' =>
                    /\ is_lease_holder(lease, w)
                    /\ lease'[worker[w].slot].holder = lease[worker[w].slot].holder
                    /\ lease'[worker[w].slot].state = lease[worker[w].slot].state
    <3>1. worker[w].token <= lease[worker[w].slot].token
      BY <2>1 DEF Fenced
    <3> QED BY <1>7, <2>1, <2>2, <3>1 DEF is_lease_holder
  <2>4. \A s \in Slots : lease'[s].state \in Live \cup {"done"} => lease'[s].token > 0
    BY <1>7, <2>1 DEF Fenced, Live
  <2> QED BY <2>1, <2>3, <2>4 DEF Fenced
<1>12. Contract!Next
  <2>1. ASSUME NEW s \in Slots
        PROVE  Contract!SlotStep(s) /\ ~Contract!Granted(s)
    BY <1>7 DEF Contract!SlotStep, Contract!Granted, Contract!Removed, Contract!Seeded
  <2> QED BY <2>1 DEF Contract!Next
<1> QED BY <1>6, <1>9, <1>10, <1>11, <1>12 DEF FullInv

-----------------------------------------------------------------------------
(* The step: every action keeps the invariant and the lease contract.      *)
LEMMA StepInv ==
    ASSUME FullInv, [Next]_vars
    PROVE  FullInv' /\ (Contract!Next \/ UNCHANGED lease)
<1>1. CASE UNCHANGED vars
  <2>1. UNCHANGED <<run, lease, fleet, worker, booting>>
    BY <1>1 DEF vars
  <2>2. IInv'
    BY <2>1 DEF FullInv, IInv, TypeOK, Rows
  <2>3. Uniform(db)' /\ Quiet(db)'
    BY <2>1 DEF FullInv, Uniform, Quiet, db, Rows, In
  <2>4. Fenced'
    BY <2>1 DEF FullInv, Fenced, is_lease_holder
  <2> QED BY <2>1, <2>2, <2>3, <2>4 DEF FullInv
<1>2. ASSUME NEW w \in Workers, WorkerStep(w)
      PROVE  FullInv' /\ Contract!Next
  BY <1>2, ClaimInv, ReadyInv, HeartbeatInv, LocalSteps, FinalInv DEF WorkerStep
<1>3. CASE Supervisor
  BY <1>3, TickInv, ReapInv DEF Supervisor
<1>4. CASE Operator
  BY <1>4, StopInv, PauseInv, ScaleInv, RescaleInv, RestartInv DEF Operator
<1>5. CASE TimePasses
  BY <1>5, TimeInv
<1> QED BY <1>1, <1>2, <1>3, <1>4, <1>5 DEF Next

(* The invariant holds in every reachable state, whatever the number of    *)
(* workers, slots, rates and fencing tokens.                               *)
THEOREM Invariance == Spec => []FullInv
BY InitInv, StepInv, PTL DEF Spec

(* The rows and the worker processes keep their types (TypeOK): no handler *)
(* writes a state, share or reason outside the enumerations of models.py.  *)
THEOREM TypeCorrect == Spec => []TypeOK
<1>1. FullInv => TypeOK
  BY DEF FullInv, IInv
<1> QED BY <1>1, Invariance, PTL

(* Fencing (FencedHolder): claim_lease mints a new lease_id for every      *)
(* grant, so that two processes never both pass is_lease_holder on a slot. *)
THEOREM Fencing == Spec => []FencedHolder
<1>1. FullInv => FencedHolder
  <2> SUFFICES ASSUME FullInv, NEW s \in Slots, NEW v \in Workers, NEW w \in Workers,
                      Holds(v, s), Holds(w, s)
               PROVE  v = w
    BY DEF FencedHolder
  <2> QED BY DEF FullInv, Fenced, Holds
<1> QED BY <1>1, Invariance, PTL

(* maybe_complete_run (CompletionQuiescent): a completed or stopped run    *)
(* has no live lease, now or later, and a completed one has delivered.     *)
THEOREM Quiescence == Spec => []CompletionQuiescent
<1>1. FullInv => CompletionQuiescent
  BY DEF FullInv, Quiet, CompletionQuiescent, db
<1> QED BY <1>1, Invariance, PTL

(* build_share_list, scale_run, rescale_run (UniformShares): while the run *)
(* is not degraded the slots are 0 .. workers - 1 and share its rate.      *)
THEOREM EqualShares == Spec => []UniformShares
<1>1. FullInv => UniformShares
  BY DEF FullInv, Uniform, UniformShares, db
<1> QED BY <1>1, Invariance, PTL

(* The run lifecycle implements LeaseContract (LeaseProtocol): under every *)
(* mixture of requests, ticks, operator calls and restarts a slot follows  *)
(* the life of its grant.                                                  *)
THEOREM ImplementsContract == Spec => LeaseProtocol
<1>1. Init => Contract!Init
  <2> SUFFICES ASSUME Init, NEW s \in Slots
               PROVE  lease[s].state \in {"free", "absent"} /\ lease[s].token = 0
    BY DEF Contract!Init
  <2> QED BY DEF Init, NewLease, NoLease
<1>2. FullInv /\ [Next]_vars => [Contract!Next]_([s \in Slots |->
         [state |-> lease[s].state, token |-> lease[s].token]])
  BY StepInv
<1> QED BY <1>1, <1>2, Invariance, PTL DEF Spec, LeaseProtocol, Contract!Spec

(* An ended run is never reopened or relabelled (TerminalAbsorbing), by a  *)
(* late ready, heartbeat or final, a tick, an operator call or a restart.  *)
THEOREM EndIsFinal == Spec => TerminalAbsorbing
<1> DEFINE Kept == run'.state = run.state /\ run'.reason = run.reason
<1>1. ASSUME FullInv, Next, run.state \in Terminal
      PROVE  Kept
  <2>1. /\ run \in RunRow /\ db.run = run /\ db.lease = lease
        /\ run.state \notin {"provisioning", "releasing", "running", "paused", "draining"}
    BY <1>1, DbInv DEF RunRow, Terminal
  <2>2. ASSUME NEW w \in Workers, WorkerStep(w)
        PROVE  Kept
    <3>1. ASSUME NEW got \in BOOLEAN, Ready(w, got)
          PROVE  Kept
      <4> DEFINE f == [db EXCEPT !.lease =
                 IF Renewed(lease, worker[w].slot)[worker[w].slot].state \in {"claimed", "ready"}
                   THEN [Renewed(lease, worker[w].slot) EXCEPT ![worker[w].slot].state = "ready"]
                   ELSE Renewed(lease, worker[w].slot)]
      <4>1. mark_ready(db, worker[w].slot) = evaluate_release(f, FALSE)
        BY <2>1 DEF mark_ready
      <4>2. f.run = run
        BY <2>1 DEF db
      <4> HIDE DEF f
      <4>3. evaluate_release(f, FALSE) = f
        BY <2>1, <4>2 DEF evaluate_release, MayRelease
      <4> QED BY <3>1, <4>1, <4>2, <4>3 DEF Ready, Commit
    <3>2. ASSUME NEW auth \in BOOLEAN, NEW got \in BOOLEAN, Heartbeat(w, auth, got)
          PROVE  Kept
      <4> DEFINE e == record_heartbeat(db, worker[w].slot, auth)
      <4>1. Commit(IF is_lease_holder(lease, w) THEN e ELSE db)
        BY <3>2 DEF Heartbeat
      <4>2. e.run.state = run.state /\ e.run.reason = run.reason
        BY <2>1 DEF record_heartbeat, db, RunRow
      <4> HIDE DEF e
      <4> QED BY <2>1, <4>1, <4>2 DEF Commit
    <3>3. ASSUME NEW delivered \in BOOLEAN, NEW got \in BOOLEAN, Final(w, delivered, got)
          PROVE  Kept
      <4> DEFINE g == [db EXCEPT !.lease[worker[w].slot].state = "done",
                                 !.run.delivered = @ \/ delivered]
      <4>1. FinalRows(w, delivered) \in {db, maybe_complete_run(db), maybe_complete_run(g)}
        BY DEF FinalRows, record_final
      <4>2. g.run.state = run.state /\ g.run.reason = run.reason
        BY <2>1 DEF db, RunRow
      <4> HIDE DEF g
      <4>3. maybe_complete_run(db) = db /\ maybe_complete_run(g) = g
        BY <2>1, <4>2 DEF maybe_complete_run, Completes
      <4> QED BY <2>1, <3>3, <4>1, <4>2, <4>3 DEF Final, Commit
    <3>4. CASE StartGenerating(w) \/ WorkerDrains(w) \/ WorkerDies(w) \/ WorkerRestarts(w)
      BY <3>4 DEF StartGenerating, WorkerDrains, WorkerDies, WorkerRestarts
    <3> QED BY <1>1, <2>2, <3>1, <3>2, <3>3, <3>4 DEF WorkerStep, Claim
  <2>3. CASE Supervisor
    <3>1. PICK ok \in BOOLEAN : ReapTerminalFleet(ok)
      BY <1>1, <2>3 DEF Supervisor, SupervisorTick
    <3>2. destroy_fleet(db, ok).run = run
      BY <2>1 DEF destroy_fleet, db
    <3> QED BY <3>1, <3>2 DEF ReapTerminalFleet, Commit
  <2>4. CASE Operator
    <3>1. PICK ok \in BOOLEAN : RestartControlPlane(ok)
      BY <1>1, <2>1, <2>4 DEF Operator, StopRun, PauseRun, ResumeRun, ScaleRun, RescaleRun
    <3>2. Commit(db) \/ Commit([db EXCEPT !.fleet.load = "down"])
      BY <1>1, <3>1 DEF RestartControlPlane, Orphaned
    <3> QED BY <2>1, <3>2 DEF Commit, db
  <2>5. CASE TimePasses
    BY <2>1, <2>5 DEF TimePasses, WorkloadEnds, HeartbeatAges, T0Arrives, ProvisionTimeout,
                      DurationEnds, StopGraceEnds, BootGraceEnds, RunRow
  <2> QED BY <1>1, <2>2, <2>3, <2>4, <2>5 DEF Next
<1>2. FullInv /\ [Next]_vars => [run.state \in Terminal => /\ run'.state = run.state
                                                         /\ run'.reason = run.reason]_vars
  BY <1>1
<1> QED BY <1>2, Invariance, PTL DEF Spec, TerminalAbsorbing

-----------------------------------------------------------------------------
(***************************************************************************)
(* The release and the end of a run, for every value of the constants:     *)
(* T0 gates everything that depends on it and is set in order, a strict    *)
(* run is released whole or not at all, an operator's stop ends stopped,   *)
(* and a superseded worker changes nothing.                                *)
(*                                                                         *)
(* The handlers are compositions of operators from rows to rows.  InOrder  *)
(* is a predicate on rows; one lemma for each operator shows that it is    *)
(* kept and what happens to T0, and the actions put them together.         *)
(***************************************************************************)

(* What the statements need of the rows besides FullInv.  A strict run     *)
(* that may still be released has no slot that was given up unclaimed.     *)
InOrder(d) ==
    /\ d.run.reason = "operator-stop" => d.run.state \in {"draining", "stopped"}
    /\ d.run.state \in {"running", "paused"} => d.run.t0 = "passed"
    /\ d.run.state = "provisioning" => d.run.t0 = "unset"
    /\ d.run.t0 = "unset" => \A s \in Slots : d.lease[s].state # "running"
    /\ StrictRelease /\ d.run.t0 # "unset" =>
         \A s \in Slots : d.lease[s].state # "absent" => d.lease[s].token > 0
    /\ StrictRelease /\ d.run.state \in {"provisioning", "releasing"} =>
         \A s \in Slots : d.lease[s].state = "lost" => d.lease[s].token > 0

(* The same run and the same places in the life of every grant.            *)
SameCourse(d, e) ==
    /\ e.run.state = d.run.state /\ e.run.reason = d.run.reason /\ e.run.t0 = d.run.t0
    /\ \A s \in Slots : e.lease[s].state = d.lease[s].state /\ e.lease[s].token = d.lease[s].token

LEMMA SameOrder ==
    ASSUME NEW d, NEW e, SameCourse(d, e), InOrder(d)
    PROVE  InOrder(e)
BY DEF SameCourse, InOrder

(* The fields of a row after a transition.                                 *)
LEMMA TransitionFields ==
    ASSUME NEW d, DbOK(d), NEW st \in RunStates, NEW re \in Reasons
    PROVE  LET e == transition_run(d, st, re)
           IN /\ e.lease = d.lease /\ e.run.state = st
              /\ e.run.reason = (IF re = "none" THEN d.run.reason ELSE re)
              /\ e.run.t0 = d.run.t0 /\ e.run.degraded = d.run.degraded
              /\ st = "draining" /\ d.run.state # st => ~e.run.grace
BY DEF transition_run, DbOK, Db, RunRow

(* After the release: T0 and the states of the leases stay, a flagged run  *)
(* stays flagged, and no drain is past its grace.                          *)
Calm(d) == d.run.state = "draining" => ~d.run.grace

After(d, e) ==
    /\ e.run.t0 = d.run.t0
    /\ d.run.degraded => e.run.degraded
    /\ \A s \in Slots : e.lease[s].state = d.lease[s].state
    /\ Calm(d) => Calm(e)

(* Ending or draining a run for a reason other than the operator's.        *)
LEMMA LeaveOrder ==
    ASSUME NEW d, DbOK(d), InOrder(d), NEW st \in {"failed", "draining"},
           NEW re \in Reasons \ {"none", "operator-stop"},
           st = "draining" => d.run.state # "draining"
    PROVE  InOrder(transition_run(d, st, re)) /\ After(d, transition_run(d, st, re))
<1> DEFINE e == transition_run(d, st, re)
<1>1. st \in RunStates /\ re \in Reasons
  BY DEF RunStates, Terminal
<1>2. /\ e.lease = d.lease /\ e.run.state = st /\ e.run.reason = re
      /\ e.run.t0 = d.run.t0 /\ e.run.degraded = d.run.degraded
      /\ st = "draining" => ~e.run.grace
  BY <1>1, TransitionFields
<1> HIDE DEF e
<1>3. InOrder(e)
  BY <1>2 DEF InOrder
<1>4. After(d, e)
  BY <1>2 DEF After, Calm
<1> QED BY <1>3, <1>4 DEF e

LEMMA DestroyOrder ==
    ASSUME NEW d, DbOK(d), InOrder(d), NEW ok \in BOOLEAN
    PROVE  InOrder(destroy_fleet(d, ok)) /\ After(d, destroy_fleet(d, ok))
<1> DEFINE e == destroy_fleet(d, ok)
<1>1. e.lease = d.lease /\ e.run = d.run
  BY DEF destroy_fleet, DbOK, Db
<1> HIDE DEF e
<1>2. InOrder(e) /\ After(d, e)
  BY <1>1 DEF InOrder, After, Calm
<1> QED BY <1>2 DEF e

LEMMA AfterTransitive ==
    ASSUME NEW d, NEW e, NEW f, After(d, e), After(e, f)
    PROVE  After(d, f)
BY DEF After

LEMMA AfterReflexive == \A d : After(d, d)
BY DEF After

(* A completion keeps the operator's stop: terminal_state_for.             *)
LEMMA CompleteOrder ==
    ASSUME NEW d, DbOK(d), InOrder(d)
    PROVE  InOrder(maybe_complete_run(d)) /\ After(d, maybe_complete_run(d))
<1> DEFINE e == maybe_complete_run(d)
           st == terminal_state_for(d)
           re == IF d.run.reason = "none" THEN default_end_reason(d, st) ELSE d.run.reason
<1>1. CASE ~Completes(d)
  BY <1>1, AfterReflexive DEF maybe_complete_run
<1>2. CASE Completes(d)
  <2>1. st \in Terminal /\ st \in RunStates
    BY DEF terminal_state_for, Terminal, RunStates
  <2>2. re \in Reasons \ {"none"}
    BY DEF default_end_reason, Reasons, FailedReasons, DbOK, Db, RunRow
  <2>3. re = "operator-stop" => st = "stopped"
    BY DEF default_end_reason, terminal_state_for, FailedReasons
  <2>4. e = transition_run(d, st, re)
    BY <1>2 DEF maybe_complete_run
  <2> HIDE DEF st, re, e
  <2>5. /\ e.lease = d.lease /\ e.run.state = st /\ e.run.reason = re
        /\ e.run.t0 = d.run.t0 /\ e.run.degraded = d.run.degraded
    BY <2>1, <2>2, <2>4, TransitionFields
  <2>6. InOrder(e)
    BY <2>1, <2>3, <2>5 DEF InOrder, Terminal
  <2>7. After(d, e)
    BY <2>1, <2>5 DEF After, Calm, Terminal
  <2> QED BY <2>6, <2>7 DEF e
<1> QED BY <1>1, <1>2

(* Leases are given up: live ones, or any when the run is past a release.  *)
LEMMA LoseOrder ==
    ASSUME NEW d, DbOK(d), Minted(d.lease), InOrder(d), NEW M, LoseSome(d.lease, M),
           \/ \A s \in Slots : d.lease[s].state = "free" => M[s] = d.lease[s]
           \/ d.run.state \notin {"provisioning", "releasing"}
    PROVE  InOrder([d EXCEPT !.lease = M])
<1> DEFINE e == [d EXCEPT !.lease = M]
<1>1. e.run = d.run /\ e.lease = M
  BY DEF DbOK, Db
<1> HIDE DEF e
<1>2. ASSUME NEW s \in Slots
      PROVE  /\ M[s].token = d.lease[s].token
             /\ M[s].state = d.lease[s].state \/
                  (d.lease[s].state \in Live \cup {"free"} /\ M[s].state = "lost"
                   /\ M[s] # d.lease[s])
  <2>1. d.lease[s] \in LeaseRow
    BY DEF DbOK, Db
  <2>2. CASE M[s] = d.lease[s]
    BY <2>2
  <2>3. CASE d.lease[s].state \in Live \cup {"free"} /\ M[s] = [d.lease[s] EXCEPT !.state = "lost"]
    <3>1. M[s].state = "lost" /\ M[s].token = d.lease[s].token
      BY <2>1, <2>3 DEF LeaseRow
    <3> QED BY <2>3, <3>1 DEF Live
  <2> QED BY <2>2, <2>3 DEF LoseSome
<1>3. InOrder(e)
  BY <1>1, <1>2 DEF InOrder, Minted, Live
<1> QED BY <1>3 DEF e

(* The release: a released run has someone to release, nobody pending, and *)
(* a flag when it left somebody behind.                                    *)
Released(d, e) ==
    /\ d.run.t0 = "unset" /\ e.run.t0 # "unset"
    /\ In(e.lease, {"ready"}) # {} /\ In(e.lease, {"free", "claimed"}) = {}
    /\ In(d.lease, {"free"}) # {} => e.run.degraded
    /\ Calm(e)

LEMMA ReleaseOrder ==
    ASSUME NEW d, DbOK(d), Minted(d.lease), InOrder(d), NEW force \in BOOLEAN
    PROVE  /\ InOrder(evaluate_release(d, force))
           /\ \/ evaluate_release(d, force).run.t0 = d.run.t0
              \/ Released(d, evaluate_release(d, force))
<1> DEFINE e == evaluate_release(d, force)
           lost == LosePending(d.lease)
           f == [d EXCEPT !.lease = lost]
<1>1. d.lease \in LTable /\ d.run \in RunRow
  BY DEF DbOK, Db, LTable
<1>2. /\ "releasing" \in RunStates /\ "none" \in Reasons
      /\ "failed" \in RunStates /\ "strict-release-timeout" \in Reasons
  BY DEF RunStates, Terminal, Reasons, FailedReasons
<1>3. CASE ~MayRelease(d, force)
  BY <1>3 DEF evaluate_release
<1>4. CASE MayRelease(d, force) /\ PartialFails(d)
  <2>1. DbOK(f) /\ f.lease = lost /\ f.run = d.run
    BY <1>1, LeaseFunctions DEF DbOK, Db, LTable
  <2>2. e = transition_run(f, "failed", "strict-release-timeout")
    BY <1>4 DEF evaluate_release
  <2>3. \A s \in Slots : lost[s].state # "running" \/ d.lease[s].state = "running"
    BY <1>1 DEF LosePending, LTable, LeaseRow
  <2> HIDE DEF f, e, lost
  <2>4. /\ e.lease = lost /\ e.run.state = "failed" /\ e.run.t0 = d.run.t0
        /\ e.run.reason = "strict-release-timeout"
    BY <1>2, <2>1, <2>2, TransitionFields
  <2>5. d.run.t0 = "unset"
    BY <1>4 DEF MayRelease
  <2>6. InOrder(e)
    BY <2>3, <2>4, <2>5 DEF InOrder
  <2> QED BY <2>4, <2>6 DEF e
<1>5. CASE MayRelease(d, force) /\ ~PartialFails(d) /\ Pending(d.lease) # {}
  <2> DEFINE ready == reapportion_ready(d)
             M == LosePending(ready)
             g == [d EXCEPT !.lease = M, !.run.t0 = "ahead", !.run.degraded = TRUE]
  <2>1. ~StrictRelease
    BY <1>5 DEF PartialFails
  <2>2. In(d.lease, {"ready"}) # {} /\ d.run.t0 = "unset"
        /\ d.run.state \in {"provisioning", "releasing"}
    BY <1>5 DEF MayRelease
  <2>3. ready \in LTable /\ Rows(ready) = Rows(d.lease)
    BY <2>2, ReadyShares
  <2>4. \A s \in Slots : ready[s].state = d.lease[s].state
    BY <1>1 DEF reapportion_ready, LTable, LeaseRow
  <2>5. M \in LTable /\ Rows(M) = Rows(ready)
    BY <2>3, LeaseFunctions
  <2> HIDE DEF ready
  <2>6. \A s \in Slots : M[s].state = IF d.lease[s].state \in {"free", "claimed"}
                                       THEN "lost" ELSE d.lease[s].state
    BY <2>3, <2>4 DEF LosePending, Pending, In, LTable, LeaseRow
  <2>7. e = transition_run(g, "releasing", "none")
    BY <1>5 DEF evaluate_release, ready
  <2> HIDE DEF M
  <2>8. DbOK(g) /\ g.lease = M /\ g.run.t0 = "ahead" /\ g.run.degraded
        /\ g.run.reason = d.run.reason
    BY <2>3, <2>5, <1>1 DEF DbOK, Db, RunRow, LTable
  <2> HIDE DEF g, e
  <2>9. /\ e.lease = M /\ e.run.state = "releasing" /\ e.run.reason = d.run.reason
        /\ e.run.t0 = "ahead" /\ e.run.degraded
    BY <1>2, <2>7, <2>8, TransitionFields
  <2>10. InOrder(e)
    BY <2>1, <2>2, <2>9 DEF InOrder
  <2>11. Released(d, e)
    BY <2>2, <2>6, <2>9 DEF Released, In, Calm
  <2> QED BY <2>10, <2>11 DEF e
<1>6. CASE MayRelease(d, force) /\ Pending(d.lease) = {}
  <2> DEFINE g == [d EXCEPT !.run.t0 = "ahead"]
  <2>1. In(d.lease, {"ready"}) # {} /\ d.run.t0 = "unset"
        /\ d.run.state \in {"provisioning", "releasing"}
    BY <1>6 DEF MayRelease
  <2>2. e = transition_run(g, "releasing", "none")
    BY <1>6 DEF evaluate_release, PartialFails
  <2>3. DbOK(g) /\ g.lease = d.lease /\ g.run.t0 = "ahead" /\ g.run.reason = d.run.reason
    BY <1>1 DEF DbOK, Db, RunRow
  <2> HIDE DEF g, e
  <2>4. /\ e.lease = d.lease /\ e.run.state = "releasing" /\ e.run.reason = d.run.reason
        /\ e.run.t0 = "ahead"
    BY <1>2, <2>2, <2>3, TransitionFields
  <2>5. \A s \in Slots : d.lease[s].state \notin {"free", "claimed"}
    BY <1>6 DEF Pending, In
  <2>6. InOrder(e)
    <3>1. ASSUME StrictRelease, NEW s \in Slots, d.lease[s].state # "absent"
          PROVE  d.lease[s].token > 0
      BY <1>1, <2>1, <2>5, <3>1 DEF InOrder, Minted, LTable, LeaseRow, LeaseStates, Live
    <3> QED BY <2>1, <2>4, <3>1 DEF InOrder
  <2>7. Released(d, e)
    BY <2>1, <2>4, <2>5 DEF Released, In, Calm
  <2> QED BY <2>6, <2>7 DEF e
<1> QED BY <1>3, <1>4, <1>5, <1>6

-----------------------------------------------------------------------------
(* The stages of a supervisor pass.                                        *)

LEMMA LapseOrder ==
    ASSUME NEW d, DbOK(d), Minted(d.lease), InOrder(d)
    PROVE  /\ InOrder(lapse_stale_leases(d))
           /\ lapse_stale_leases(d).run = d.run
           /\ In(lapse_stale_leases(d).lease, {"free"}) = In(d.lease, {"free"})
<1> DEFINE M == [s \in Slots |->
        IF ~booting /\ d.lease[s].state \in Live /\ d.lease[s].age \in {"stale", "dead"}
          THEN [d.lease[s] EXCEPT !.state = "lost"] ELSE d.lease[s]]
<1>1. LoseSome(d.lease, M)
  BY DEF LoseSome, DbOK, Db, LTable, LeaseRow, LeaseStates
<1>2. \A s \in Slots : d.lease[s].state = "free" => M[s] = d.lease[s]
  BY DEF Live
<1>3. \A s \in Slots : M[s].state = "free" => d.lease[s].state = "free"
  BY DEF DbOK, Db, LeaseRow
<1>4. lapse_stale_leases(d) = [d EXCEPT !.lease = M]
  BY DEF lapse_stale_leases
<1> HIDE DEF M
<1>5. [d EXCEPT !.lease = M].run = d.run /\ [d EXCEPT !.lease = M].lease = M
  BY DEF DbOK, Db
<1>6. In(M, {"free"}) = In(d.lease, {"free"})
  BY <1>2, <1>3 DEF In
<1> QED BY <1>1, <1>2, <1>4, <1>5, <1>6, LoseOrder

LEMMA ProvisionOrder ==
    ASSUME NEW d, DbOK(d), Minted(d.lease), InOrder(d), NEW ok \in BOOLEAN
    PROVE  /\ InOrder(check_provision_timeout(d, ok))
           /\ \/ check_provision_timeout(d, ok).run.t0 = d.run.t0
              \/ Released(d, check_provision_timeout(d, ok))
<1> DEFINE f == transition_run(d, "failed", "provision-timeout")
<1>1. "failed" \in RunStates /\ "provision-timeout" \in Reasons \ {"none", "operator-stop"}
  BY DEF RunStates, Terminal, Reasons
<1>2. DbOK(f) /\ InOrder(f) /\ After(d, f)
  BY <1>1, TransitionOK, LeaveOrder
<1> HIDE DEF f
<1>3. InOrder(destroy_fleet(f, ok)) /\ destroy_fleet(f, ok).run.t0 = d.run.t0
  BY <1>2, DestroyOrder DEF After
<1>4. check_provision_timeout(d, ok) \in {d, evaluate_release(d, TRUE), destroy_fleet(f, ok)}
  BY DEF check_provision_timeout, f
<1> QED BY <1>3, <1>4, ReleaseOrder

LEMMA DurationOrder ==
    ASSUME NEW d, DbOK(d), InOrder(d)
    PROVE  InOrder(check_duration(d)) /\ After(d, check_duration(d))
<1>1. "duration-complete" \in Reasons \ {"none", "operator-stop"}
  BY DEF Reasons
<1> QED BY <1>1, LeaveOrder, AfterReflexive DEF check_duration

LEMMA AbortOrder ==
    ASSUME NEW d, DbOK(d), InOrder(d), NEW ok \in BOOLEAN
    PROVE  InOrder(check_auto_abort(d, ok)) /\ After(d, check_auto_abort(d, ok))
<1>1. ASSUME NEW re \in {"auto-abort-lost", "auto-abort-auth"}
      PROVE  LET e == destroy_fleet(transition_run(d, "failed", re), ok)
             IN InOrder(e) /\ After(d, e)
  <2> DEFINE f == transition_run(d, "failed", re)
  <2>1. "failed" \in RunStates /\ re \in Reasons \ {"none", "operator-stop"}
    BY DEF RunStates, Terminal, Reasons, FailedReasons
  <2>2. DbOK(f) /\ InOrder(f) /\ After(d, f)
    BY <2>1, TransitionOK, LeaveOrder
  <2> HIDE DEF f
  <2>3. InOrder(destroy_fleet(f, ok)) /\ After(d, destroy_fleet(f, ok))
    BY <2>2, DestroyOrder, AfterTransitive
  <2> QED BY <2>3 DEF f
<1>2. check_auto_abort(d, ok) \in
        {d, destroy_fleet(transition_run(d, "failed", "auto-abort-lost"), ok),
            destroy_fleet(transition_run(d, "failed", "auto-abort-auth"), ok)}
  BY DEF check_auto_abort
<1> QED BY <1>1, <1>2, AfterReflexive

(* A new rate changes no place in the life of a grant.                     *)
LEMMA RescaleOrder ==
    ASSUME NEW d, DbOK(d), InOrder(d), NEW rate \in Nat
    PROVE  LET e == RescaleRows(d, rate)
           IN /\ SameCourse(d, e) /\ InOrder(e)
              /\ e.run.degraded = d.run.degraded /\ e.run.grace = d.run.grace
<1> DEFINE e == RescaleRows(d, rate)
           share == build_share_list(rate, Cardinality(Rows(d.lease)))
           M == Reshare(d.lease, share)
<1>1. e.lease = M /\ e.run = [d.run EXCEPT !.rate = rate]
  BY DEF RescaleRows, DbOK, Db
<1>2. \A s \in Slots : M[s].state = d.lease[s].state /\ M[s].token = d.lease[s].token
  <2> TAKE s \in Slots
  <2> DEFINE b == d.lease[s].state \in Live
  <2>1. M[s] = IF d.lease[s].state = "absent" THEN d.lease[s]
               ELSE [d.lease[s] EXCEPT !.share = share, !.retarget = b]
    BY DEF Reshare
  <2>2. d.lease[s] \in LeaseRow
    BY DEF DbOK, Db
  <2> HIDE DEF b, M, share
  <2> QED BY <2>1, <2>2 DEF LeaseRow
<1>3. d.run \in RunRow
  BY DEF DbOK, Db
<1> HIDE DEF e, M
<1>4. SameCourse(d, e) /\ e.run.degraded = d.run.degraded /\ e.run.grace = d.run.grace
  BY <1>1, <1>2, <1>3 DEF SameCourse, RunRow
<1>5. InOrder(e)
  BY <1>4, SameOrder
<1> QED BY <1>4, <1>5 DEF e

LEMMA PressureOrder ==
    ASSUME NEW d, DbOK(d), InOrder(d), NEW failing \in BOOLEAN
    PROVE  InOrder(check_backpressure(d, failing)) /\ After(d, check_backpressure(d, failing))
<1> DEFINE half == d.run.rate \div 2
           f == RescaleRows(d, half)
           e == [f EXCEPT !.run.degraded = TRUE]
<1>1. "backpressure-drain" \in Reasons \ {"none", "operator-stop"}
  BY DEF Reasons
<1>2. half \in Nat
  BY DEF DbOK, Db, RunRow
<1> HIDE DEF half
<1>3. DbOK(f) /\ SameCourse(d, f) /\ f.run.grace = d.run.grace
  BY <1>2, RescaleOK, RescaleOrder
<1> HIDE DEF f
<1>4. /\ e.lease = f.lease /\ e.run.degraded /\ e.run.state = f.run.state
      /\ e.run.reason = f.run.reason /\ e.run.t0 = f.run.t0 /\ e.run.grace = f.run.grace
  BY <1>3 DEF DbOK, Db, RunRow
<1> HIDE DEF e
<1>5. InOrder(e) /\ After(d, e)
  BY <1>3, <1>4, SameOrder DEF SameCourse, After, Calm
<1>6. \/ check_backpressure(d, failing) = d
      \/ /\ d.run.state \in {"running", "releasing"}
         /\ check_backpressure(d, failing) \in {e, transition_run(d, "draining", "backpressure-drain")}
  BY DEF check_backpressure, e, f, half
<1> QED BY <1>1, <1>5, <1>6, LeaveOrder, AfterReflexive

LEMMA ReapOrder ==
    ASSUME NEW d, DbOK(d), Minted(d.lease), InOrder(d), NEW ok \in BOOLEAN
    PROVE  /\ InOrder(reap_draining(d, ok))
           /\ reap_draining(d, ok).run = d.run
           /\ Calm(d) => reap_draining(d, ok) = d
<1> DEFINE f == destroy_fleet(d, ok)
<1>1. DbOK(f) /\ InOrder(f) /\ f.lease = d.lease /\ f.run = d.run
  <2>1. f.lease = d.lease /\ f.run = d.run
    BY DEF destroy_fleet, DbOK, Db
  <2> QED BY <2>1, DestroyOK, DestroyOrder
<1> HIDE DEF f
<1>2. LoseSome(f.lease, LoseUnfinished(d.lease))
  BY <1>1, LoseSomeTables DEF DbOK, Db, LTable
<1>3. d.run.state = "draining" => InOrder([f EXCEPT !.lease = LoseUnfinished(d.lease)])
  BY <1>1, <1>2, LoseOrder
<1>4. [f EXCEPT !.lease = LoseUnfinished(d.lease)].run = d.run
  BY <1>1 DEF DbOK, Db
<1> QED BY <1>3, <1>4 DEF reap_draining, f, Calm

-----------------------------------------------------------------------------
(* The actions.  Each keeps the order of the rows, and sets T0 only by a   *)
(* release.                                                                *)

Turn(d, e) == InOrder(e) /\ (e.run.t0 = d.run.t0 \/ Released(d, e))

(* A step that leaves the run where it is: a slot becomes lost under a     *)
(* claimed token only, and running after T0 only.                          *)
LEMMA MoveOrder ==
    ASSUME NEW d, NEW e, InOrder(d),
           e.run.state = d.run.state, e.run.reason = d.run.reason, e.run.t0 = d.run.t0,
           \A s \in Slots :
              /\ d.lease[s].token \in Nat /\ e.lease[s].token \in Nat
              /\ e.lease[s].token >= d.lease[s].token
              /\ d.lease[s].state = "absent" /\ e.lease[s].state # "absent" => e.lease[s].token > 0
              /\ e.lease[s].state = "lost" => d.lease[s].state = "lost"
              /\ e.lease[s].state = "running" => d.lease[s].state = "running" \/ d.run.t0 # "unset"
    PROVE  Turn(d, e)
BY DEF InOrder, Turn

LEMMA SuperviseOrder ==
    ASSUME NEW ok \in BOOLEAN, NEW failing \in BOOLEAN, DbOK(db), Minted(db.lease),
           InOrder(db), supervise_run(ok, failing)
    PROVE  \E e : Commit(e) /\ Turn(db, e)
<1> DEFINE l == lapse_stale_leases(db)
           t == check_provision_timeout(l, ok)
           b == check_duration(t)
           a == check_auto_abort(b, ok)
           p == check_backpressure(a, failing)
           r == reap_draining(p, ok)
           c == maybe_complete_run(r)
<1>0. Commit(c)
  BY DEF supervise_run
<1>1. Stage(db, l) /\ DbOK(l) /\ InOrder(l) /\ l.run = db.run
      /\ In(l.lease, {"free"}) = In(db.lease, {"free"})
  BY LapseStage, LapseOrder DEF Stage
<1> HIDE DEF l
<1>2. Minted(l.lease)
  BY <1>1, StageMoves DEF MoveOK, MovedTable, Minted
<1>3. Stage(l, t) /\ DbOK(t) /\ InOrder(t) /\ (t.run.t0 = l.run.t0 \/ Released(l, t))
  BY <1>1, <1>2, ProvisionStage, ProvisionOrder DEF Stage
<1> HIDE DEF t
<1>4. Stage(t, b) /\ DbOK(b) /\ InOrder(b) /\ After(t, b)
  BY <1>3, DurationStage, DurationOrder DEF Stage
<1> HIDE DEF b
<1>5. Stage(b, a) /\ DbOK(a) /\ InOrder(a) /\ After(b, a)
  BY <1>4, AbortStage, AbortOrder DEF Stage
<1> HIDE DEF a
<1>6. Stage(a, p) /\ DbOK(p) /\ InOrder(p) /\ After(a, p)
  BY <1>5, PressureStage, PressureOrder DEF Stage
<1> HIDE DEF p
<1>7. Minted(p.lease)
  <2>1. Stage(l, p)
    BY <1>3, <1>4, <1>5, <1>6, StageTransitive
  <2> QED BY <1>2, <2>1, StageMoves DEF MoveOK, MovedTable, Minted
<1>8. DbOK(r) /\ InOrder(r) /\ r.run = p.run /\ (Calm(p) => r = p)
  BY <1>6, <1>7, ReapStage, ReapOrder DEF Stage
<1> HIDE DEF r
<1>9. InOrder(c) /\ After(r, c)
  BY <1>8, CompleteOrder
<1> HIDE DEF c
<1>10. After(t, p)
  BY <1>4, <1>5, <1>6, AfterTransitive
<1>11. c.run.t0 = t.run.t0
  BY <1>8, <1>9, <1>10 DEF After
<1>12. CASE t.run.t0 = l.run.t0
  BY <1>0, <1>1, <1>9, <1>11, <1>12 DEF Turn
<1>13. CASE Released(l, t)
  <2>1. After(t, c)
    BY <1>8, <1>9, <1>10, <1>13, AfterTransitive DEF Released, After
  <2>2. Released(db, c)
    <3>1. In(c.lease, {"ready"}) = In(t.lease, {"ready"})
          /\ In(c.lease, {"free", "claimed"}) = In(t.lease, {"free", "claimed"})
      BY <2>1 DEF After, In
    <3> QED BY <1>1, <1>13, <2>1, <3>1 DEF Released, After
  <2> QED BY <1>0, <1>9, <2>2 DEF Turn
<1> QED BY <1>3, <1>12, <1>13

LEMMA ReadyTurn ==
    ASSUME FullInv, InOrder(db), NEW w \in Workers, NEW got \in BOOLEAN, Ready(w, got)
    PROVE  \E e : Commit(e) /\ Turn(db, e)
<1> DEFINE s == worker[w].slot
           L == Renewed(lease, s)
           M == IF L[s].state \in {"claimed", "ready"} THEN [L EXCEPT ![s].state = "ready"] ELSE L
           f == [db EXCEPT !.lease = M]
<1>1. /\ worker[w].pc \in {"warming", "rejoining"} /\ is_lease_holder(lease, w)
      /\ Commit(mark_ready(db, s))
  BY DEF Ready
<1>2. /\ s \in Slots /\ lease[s] \in LeaseRow /\ lease[s].token > 0
      /\ lease[s].state \notin {"absent", "free"}
  BY <1>1, HolderFacts
<1>3. /\ DbOK(db) /\ Minted(lease) /\ db.lease = lease /\ db.run = run /\ lease \in LTable
  BY DbInv
<1>4. L = [lease EXCEPT ![s] = [lease[s] EXCEPT !.age = "fresh"]]
  BY <1>2, <1>3 DEF Renewed
<1>5. L \in LTable /\ \A u \in Slots : L[u].state = lease[u].state /\ L[u].token = lease[u].token
  BY <1>2, <1>3, <1>4 DEF LTable, LeaseRow
<1> HIDE DEF L
<1>6. /\ M \in LTable
      /\ \A u \in Slots : /\ M[u].token = lease[u].token
                           /\ \/ M[u].state = lease[u].state
                              \/ lease[u].state = "claimed" /\ M[u].state = "ready"
  BY <1>2, <1>5 DEF LTable, LeaseRow, LeaseStates, Live
<1> HIDE DEF M
<1>7. Rows(M) = Rows(lease)
  BY <1>6 DEF Rows
<1>8. f.lease = M /\ f.run = run /\ DbOK(f)
  BY <1>3, <1>6, <1>7 DEF DbOK, Db, LTable
<1>9. mark_ready(db, s) = evaluate_release(f, FALSE)
  BY <1>3 DEF mark_ready, L, M
<1> HIDE DEF f
<1>10. Minted(f.lease)
  BY <1>3, <1>6, <1>8 DEF Minted, Live
<1>11. InOrder(f)
  <2>1. Turn(db, f)
    <3>1. \A u \in Slots : lease[u].token \in Nat
      BY <1>3 DEF LTable, LeaseRow
    <3> QED BY <1>3, <1>6, <1>8, <3>1, MoveOrder
  <2> QED BY <2>1 DEF Turn
<1> DEFINE e == evaluate_release(f, FALSE)
<1>12. InOrder(e) /\ (e.run.t0 = f.run.t0 \/ Released(f, e))
  BY <1>8, <1>10, <1>11, ReleaseOrder
<1> HIDE DEF e
<1>13. In(f.lease, {"free"}) = In(db.lease, {"free"})
  BY <1>3, <1>6, <1>8 DEF In
<1>14. Turn(db, e)
  BY <1>3, <1>8, <1>12, <1>13 DEF Turn, Released
<1> QED BY <1>1, <1>9, <1>14 DEF e

LEMMA HeartbeatTurn ==
    ASSUME FullInv, InOrder(db), NEW w \in Workers, NEW auth \in BOOLEAN, NEW got \in BOOLEAN,
           Heartbeat(w, auth, got)
    PROVE  \E e : Commit(e) /\ Turn(db, e)
<1> DEFINE s == worker[w].slot
           e == record_heartbeat(db, s, auth)
           row == HeartbeatRow(db, s)
           au == IF auth THEN run.auth \cup {s} ELSE run.auth
           g == [db EXCEPT !.lease[s] = row, !.run.auth = au]
<1>1. /\ worker[w].pc \in {"awaiting", "generating"}
      /\ Commit(IF is_lease_holder(lease, w) THEN e ELSE db)
  BY DEF Heartbeat
<1>2. Turn(db, db)
  BY DEF Turn
<1>3. CASE ~is_lease_holder(lease, w)
  BY <1>1, <1>2, <1>3
<1>4. CASE is_lease_holder(lease, w)
  <2>1. /\ s \in Slots /\ lease[s] \in LeaseRow /\ lease[s].token > 0
        /\ lease[s].state \in {"ready", "running", "lost", "done"}
    BY <1>1, <1>4, HolderFacts DEF Polling, LeaseRow, LeaseStates, Live
  <2>2. /\ db.lease = lease /\ db.run = run /\ run \in RunRow /\ lease \in LTable
        /\ DbOK(db)
    BY DbInv
  <2>3. /\ row.token = lease[s].token
        /\ row.state = IF heartbeat_command(db, s) = "drain" THEN lease[s].state
                       ELSE IF Promoted(db, s) THEN "running" ELSE Restored(db, s)
    BY <2>1, <2>2 DEF HeartbeatRow, LeaseRow
  <2>4. /\ row.state = "lost" => lease[s].state = "lost"
        /\ row.state = "running" => lease[s].state = "running" \/ run.t0 # "unset"
    BY <2>1, <2>2, <2>3 DEF Promoted, Restored
  <2>5. g = [run |-> [run EXCEPT !.auth = au], lease |-> [lease EXCEPT ![s] = row],
             fleet |-> fleet]
    <3> HIDE DEF row, au
    <3>1. [db EXCEPT !.lease[s] = row] =
            [run |-> run, lease |-> [lease EXCEPT ![s] = row], fleet |-> fleet]
      BY DEF db
    <3>2. g = [[db EXCEPT !.lease[s] = row] EXCEPT !.run.auth = au]
      BY DEF db
    <3> HIDE DEF g
    <3> QED BY <3>1, <3>2
  <2>6. e \in {g, transition_run(g, "running", "none")}
        /\ (e # g => run.state = "releasing" /\ run.t0 = "passed")
    BY <2>2 DEF record_heartbeat, Promoted
  <2> HIDE DEF row, au, g, e
  <2>7. /\ g.run.state = run.state /\ g.run.reason = run.reason /\ g.run.t0 = run.t0
        /\ \A u \in Slots : g.lease[u] = IF u = s THEN row ELSE lease[u]
    BY <2>1, <2>2, <2>5 DEF RunRow, LTable
  <2>8. Turn(db, g)
    <3>1. \A u \in Slots : lease[u].token \in Nat
      BY <2>2 DEF LTable, LeaseRow
    <3> QED BY <2>1, <2>2, <2>3, <2>4, <2>7, <3>1, MoveOrder
  <2>9. CASE e = g
    BY <1>1, <1>4, <2>8, <2>9
  <2>10. CASE e # g
    <3>1. e = transition_run(g, "running", "none") /\ run.t0 = "passed" /\ run.state = "releasing"
      BY <2>6, <2>10
    <3>2. /\ e.lease = g.lease /\ e.run.state = "running" /\ e.run.reason = g.run.reason
          /\ e.run.t0 = g.run.t0
      BY <2>5, <2>2, <3>1 DEF transition_run, RunRow
    <3>3. InOrder(e)
      BY <2>7, <2>8, <3>1, <3>2 DEF InOrder, Turn
    <3> QED BY <1>1, <1>4, <2>2, <2>7, <3>2, <3>3 DEF Turn
  <2> QED BY <2>9, <2>10
<1> QED BY <1>3, <1>4

LEMMA FinalTurn ==
    ASSUME FullInv, InOrder(db), NEW w \in Workers, NEW delivered \in BOOLEAN,
           NEW got \in BOOLEAN, Final(w, delivered, got)
    PROVE  \E e : Commit(e) /\ Turn(db, e)
<1> DEFINE s == worker[w].slot
           b == run.delivered \/ delivered
           g == [db EXCEPT !.lease[s].state = "done", !.run.delivered = b]
<1>1. worker[w].pc = "draining" /\ Commit(FinalRows(w, delivered))
  BY DEF Final
<1>2. /\ db.lease = lease /\ db.run = run /\ run \in RunRow /\ lease \in LTable /\ DbOK(db)
      /\ fleet \in FleetRow
  BY DbInv
<1>3. CASE ~is_lease_holder(lease, w)
  BY <1>1, <1>3 DEF FinalRows, Turn
<1>4. CASE is_lease_holder(lease, w) /\ lease[s].state = "done"
  <2>1. FinalRows(w, delivered) = maybe_complete_run(db)
    BY <1>2, <1>4 DEF FinalRows, record_final
  <2> QED BY <1>1, <1>2, <2>1, CompleteOrder DEF Turn, After
<1>5. CASE is_lease_holder(lease, w) /\ lease[s].state # "done"
  <2>1. s \in Slots /\ lease[s] \in LeaseRow /\ lease[s].state # "absent"
    BY <1>1, <1>5, HolderFacts
  <2>2. FinalRows(w, delivered) = maybe_complete_run(g)
    BY <1>2, <1>5 DEF FinalRows, record_final
  <2>3. b \in BOOLEAN
    OBVIOUS
  <2> HIDE DEF b
  <2> DEFINE row == [lease[s] EXCEPT !.state = "done"]
             M == [lease EXCEPT ![s] = row]
  <2>4. row \in LeaseRow /\ row.state = "done" /\ row.token = lease[s].token
    BY <2>1 DEF LeaseRow, LeaseStates
  <2>5. /\ g.run = [run EXCEPT !.delivered = b] /\ g.lease = M
        /\ g = [run |-> g.run, lease |-> g.lease, fleet |-> fleet]
    <3>1. g = [[db EXCEPT !.lease[s] = row] EXCEPT !.run = [run EXCEPT !.delivered = b]]
      BY <1>2, <2>1 DEF db, row, LTable
    <3>2. [db EXCEPT !.lease[s] = row] = [run |-> run, lease |-> M, fleet |-> fleet]
      BY DEF db
    <3> HIDE DEF g, row, M
    <3> QED BY <3>1, <3>2
  <2> HIDE DEF row, g
  <2>6. M \in LTable /\ \A u \in Slots : M[u] = IF u = s THEN row ELSE lease[u]
    BY <1>2, <2>4 DEF LTable
  <2> HIDE DEF M
  <2>7. Rows(M) = Rows(lease)
    BY <2>1, <2>4, <2>6 DEF Rows
  <2>8. /\ g.lease = M /\ g.run.state = run.state /\ g.run.reason = run.reason
        /\ g.run.t0 = run.t0 /\ g \in Db
    BY <1>2, <2>3, <2>5, <2>6 DEF RunRow, Db, LTable
  <2>9. DbOK(g)
    BY <1>2, <2>7, <2>8 DEF DbOK
  <2>10. Turn(db, g)
    <3>1. \A u \in Slots : lease[u].token \in Nat
      BY <1>2 DEF LTable, LeaseRow
    <3> QED BY <1>2, <2>4, <2>6, <2>8, <2>1, <3>1, MoveOrder
  <2>11. InOrder(maybe_complete_run(g)) /\ maybe_complete_run(g).run.t0 = run.t0
    BY <2>8, <2>9, <2>10, CompleteOrder DEF Turn, After
  <2> QED BY <1>1, <1>2, <2>2, <2>11 DEF Turn
<1> QED BY <1>3, <1>4, <1>5
LEMMA ClaimTurn ==
    ASSUME FullInv, InOrder(db), NEW w \in Workers, NEW hint \in Slots \cup {None},
           NEW got \in BOOLEAN, Claim(w, hint, got)
    PROVE  \E e, s : /\ Commit(e) /\ Turn(db, e) /\ e.run = run
                     /\ worker' \in {worker, [worker EXCEPT ![w] = Slice(e, s)]}
<1> DEFINE mine == {s \in In(lease, Live) : lease[s].holder = w}
<1>1. run.state \notin Terminal
  BY DEF Claim
<1>2. PICK s \in IF mine # {} THEN Lowest(mine) ELSE next_claimable(lease, hint) :
        \E d \in {IF mine # {} THEN [db EXCEPT !.lease = Renewed(lease, s)]
                             ELSE IssueLease(db, w, s)} :
            /\ Commit(d)
            /\ worker' = IF got THEN [worker EXCEPT ![w] = Slice(d, s)] ELSE worker
  BY DEF Claim
<1>3. PICK d : /\ d = IF mine # {} THEN [db EXCEPT !.lease = Renewed(lease, s)]
                                   ELSE IssueLease(db, w, s)
               /\ Commit(d)
               /\ worker' = IF got THEN [worker EXCEPT ![w] = Slice(d, s)] ELSE worker
  BY <1>2
<1>4. /\ lease \in LTable /\ db.lease = lease /\ db.run = run
      /\ \A u \in Slots : lease[u].token \in Nat
  BY DbInv DEF LTable, LeaseRow
<1>5. CASE mine # {}
  <2>1. d = [db EXCEPT !.lease = Renewed(lease, s)]
    BY <1>3, <1>5
  <2>2. d.run = run /\ d.lease = Renewed(lease, s)
    BY <2>1 DEF db
  <2>3. s \in Slots
    BY <1>2, <1>5 DEF Lowest, In
  <2>4. \A u \in Slots : d.lease[u].state = lease[u].state /\ d.lease[u].token = lease[u].token
    BY <1>4, <2>2, <2>3 DEF Renewed, LTable, LeaseRow
  <2>5. Turn(db, d)
    BY <1>4, <2>2, <2>4, MoveOrder
  <2> QED BY <1>3, <2>2, <2>5
<1>6. CASE mine = {}
  <2>1. s \in Slots /\ lease[s].state \in {"free", "lost"}
    BY <1>2, <1>6 DEF next_claimable, Lowest, In
  <2>2. d = IssueLease(db, w, s)
    BY <1>3, <1>6
  <2>3. /\ d.lease[s].token = lease[s].token + 1 /\ d.lease[s].state = "claimed"
        /\ \A u \in Slots : u # s => /\ d.lease[u].token = lease[u].token
                                     /\ d.lease[u].state = lease[u].state
    BY <1>1, <2>1, <2>2, IssueRows
  <2>4. d.run = run
    <3> DEFINE taken == [db EXCEPT !.lease[s] =
                 [@ EXCEPT !.token = new_lease_id(db.lease[s]), !.holder = w,
                           !.state = "claimed", !.age = "fresh"]]
    <3>1. taken.run = run
      BY DEF db
    <3>2. d = taken \/ d = reapportion_on_takeover(taken, s)
      BY <2>2 DEF IssueLease
    <3>3. taken = [run |-> taken.run, lease |-> taken.lease, fleet |-> taken.fleet]
      BY DEF db
    <3> HIDE DEF taken
    <3>4. reapportion_on_takeover(taken, s).run = taken.run
      BY <3>3 DEF reapportion_on_takeover
    <3> QED BY <3>1, <3>2, <3>4
  <2>5. Turn(db, d)
    BY <1>4, <2>1, <2>3, <2>4, MoveOrder
  <2> QED BY <1>3, <2>4, <2>5
<1> QED BY <1>5, <1>6

LEMMA ScaleTurn ==
    ASSUME FullInv, InOrder(db), NEW n \in 1 .. MaxSlots, ScaleRun(n)
    PROVE  \E e : Commit(e) /\ Turn(db, e)
<1> DEFINE share == build_share_list(run.rate, n)
           kept == Reshare(lease, share)
           d == ScaleRows(db, n)
           e == [d EXCEPT !.fleet.load = "up"]
<1>1. Commit(e)
  BY DEF ScaleRun
<1>2. DbOK(d)
  BY DbInv, ScaleOK
<1>3. run \in RunRow /\ lease \in LTable /\ db.lease = lease /\ db.run = run
  BY DbInv
<1>4. /\ d.run = [run EXCEPT !.workers = n]
      /\ d.lease = [s \in Slots |->
                    IF s >= n THEN NoLease(lease[s].token)
                    ELSE IF lease[s].state = "absent"
                      THEN NewLease(lease[s].token + 1, share)
                    ELSE kept[s]]
  BY <1>3 DEF ScaleRows, db
<1> HIDE DEF d
<1>5. e.run = d.run /\ e.lease = d.lease
  BY <1>2 DEF DbOK, Db, FleetRow
<1> HIDE DEF e
<1>6. ASSUME NEW s \in Slots
      PROVE  /\ lease[s].token \in Nat
             /\ \/ e.lease[s].state = "absent" /\ e.lease[s].token = lease[s].token
                \/ e.lease[s].state = "free" /\ e.lease[s].token = lease[s].token + 1
                \/ e.lease[s].state = lease[s].state /\ e.lease[s].token = lease[s].token
  <2>1. lease[s] \in LeaseRow /\ lease[s].token \in Nat
    BY <1>3 DEF LTable, LeaseRow
  <2>2. CASE s >= n
    BY <1>4, <1>5, <2>1, <2>2 DEF NoLease, NewLease
  <2>3. CASE ~(s >= n) /\ lease[s].state = "absent"
    <3>1. e.lease[s] = NewLease(lease[s].token + 1, share)
      BY <1>4, <1>5, <2>3
    <3> HIDE DEF share
    <3> QED BY <2>1, <3>1 DEF NewLease
  <2>4. CASE ~(s >= n) /\ lease[s].state # "absent"
    <3> DEFINE b == lease[s].state \in Live
    <3>1. e.lease[s] = [lease[s] EXCEPT !.share = share, !.retarget = b]
      BY <1>4, <1>5, <2>4 DEF Reshare
    <3> HIDE DEF b, share
    <3> QED BY <2>1, <2>4, <3>1 DEF LeaseRow
  <2> QED BY <2>2, <2>3, <2>4
<1>7. e.run.state = run.state /\ e.run.reason = run.reason /\ e.run.t0 = run.t0
  BY <1>3, <1>4, <1>5 DEF RunRow
<1>8. ASSUME NEW s \in Slots
      PROVE  /\ db.lease[s].token \in Nat /\ e.lease[s].token \in Nat
             /\ e.lease[s].token >= db.lease[s].token
             /\ db.lease[s].state = "absent" /\ e.lease[s].state # "absent" => e.lease[s].token > 0
             /\ e.lease[s].state = "lost" => db.lease[s].state = "lost"
             /\ e.lease[s].state = "running" => db.lease[s].state = "running"
  BY <1>3, <1>6
<1>9. Turn(db, e)
  BY <1>3, <1>7, <1>8, MoveOrder
<1> QED BY <1>1, <1>9

LEMMA RescaleTurn ==
    ASSUME FullInv, InOrder(db), NEW rate \in Rates, RescaleRun(rate)
    PROVE  \E e : Commit(e) /\ Turn(db, e)
<1>1. rate \in Nat
  OBVIOUS
<1>2. SameCourse(db, RescaleRows(db, rate)) /\ InOrder(RescaleRows(db, rate))
  BY <1>1, DbInv, RescaleOrder
<1> QED BY <1>2 DEF RescaleRun, Turn, SameCourse
(* An operator's stop drains whatever the run was doing; a forced one      *)
(* finalises the leases and completes.                                     *)
LEMMA StopTurn ==
    ASSUME FullInv, InOrder(db), NEW force \in BOOLEAN, NEW ok \in BOOLEAN,
           NEW delivered \in BOOLEAN, StopRun(force, ok, delivered)
    PROVE  \E e : Commit(e) /\ Turn(db, e)
<1> DEFINE drained  == transition_run(db, "draining", "operator-stop")
           draining == [drained EXCEPT !.fleet.load = IF ok /\ @ = "up" THEN "stopping" ELSE @]
           forced   == [draining EXCEPT !.fleet.load = IF ok THEN "down" ELSE @,
                                        !.lease = FinaliseAll(lease),
                                        !.run.delivered = @ \/ delivered]
<1>0. Commit(IF force THEN maybe_complete_run(forced) ELSE draining)
  BY DEF StopRun
<1>1. "draining" \in RunStates /\ "operator-stop" \in Reasons
  BY DEF RunStates, Reasons
<1>2. DbOK(drained)
  BY <1>1, DbInv, TransitionOK
<1>3. /\ db.lease = lease /\ db.run = run /\ lease \in LTable
  BY DbInv
<1>4. /\ drained.lease = lease /\ drained.run.state = "draining"
      /\ drained.run.reason = "operator-stop" /\ drained.run.t0 = run.t0
  BY <1>1, <1>3, DbInv, TransitionFields
<1> HIDE DEF drained
<1>5. draining \in Db /\ draining.lease = lease /\ draining.run = drained.run
  BY <1>2, <1>4 DEF DbOK, Db, FleetRow
<1> HIDE DEF draining
<1>6. Turn(db, draining)
  BY <1>3, <1>4, <1>5 DEF Turn, InOrder
<1>7. FinaliseAll(lease) \in LTable /\ Rows(FinaliseAll(lease)) = Rows(lease)
  BY <1>3, LeaseFunctions
<1>8. /\ forced \in Db /\ forced.lease = FinaliseAll(lease)
      /\ forced.run.state = "draining" /\ forced.run.reason = "operator-stop"
      /\ forced.run.t0 = run.t0
  <2>1. /\ draining.run \in RunRow /\ draining.fleet \in FleetRow
        /\ draining.run.delivered \in BOOLEAN
    BY <1>5 DEF Db, RunRow
  <2> DEFINE b == draining.run.delivered \/ delivered
             r == [draining.run EXCEPT !.delivered = b]
             f == [draining.fleet EXCEPT !.load = IF ok THEN "down" ELSE @]
  <2>2. b \in BOOLEAN
    OBVIOUS
  <2>3. forced = [draining EXCEPT !.fleet = f, !.lease = FinaliseAll(lease), !.run = r]
    BY <1>5 DEF Db
  <2> HIDE DEF b
  <2>4. /\ r \in RunRow /\ r.state = "draining" /\ r.reason = "operator-stop" /\ r.t0 = run.t0
    BY <1>4, <1>5, <2>1, <2>2 DEF RunRow
  <2>5. f \in FleetRow
    BY <2>1 DEF FleetRow
  <2> HIDE DEF r, f, forced
  <2> QED BY <1>5, <1>7, <2>3, <2>4, <2>5 DEF Db, LTable
<1> HIDE DEF forced
<1>9. DbOK(forced)
  BY <1>3, <1>7, <1>8, DbInv DEF DbOK
<1>10. ASSUME NEW s \in Slots
       PROVE  /\ forced.lease[s].token = lease[s].token
              /\ forced.lease[s].state # "running"
              /\ forced.lease[s].state # "absent" => lease[s].state # "absent"
  <2>1. lease[s] \in LeaseRow
    BY <1>3 DEF LTable
  <2>2. forced.lease[s] = CASE lease[s].state \in Live -> [lease[s] EXCEPT !.state = "done"]
                            [] lease[s].state = "free" -> [lease[s] EXCEPT !.state = "lost"]
                            [] OTHER                   -> lease[s]
    BY <1>8 DEF FinaliseAll
  <2> QED BY <2>1, <2>2 DEF LeaseRow, Live
<1>11. InOrder(forced)
  BY <1>3, <1>8, <1>10 DEF InOrder
<1>12. Turn(db, maybe_complete_run(forced))
  BY <1>3, <1>8, <1>9, <1>11, CompleteOrder DEF Turn, After
<1> QED BY <1>0, <1>6, <1>12

LEMMA PauseTurn ==
    ASSUME FullInv, InOrder(db), PauseRun \/ ResumeRun
    PROVE  \E e : Commit(e) /\ Turn(db, e)
<1>1. {"paused", "running"} \subseteq RunStates /\ "none" \in Reasons
  BY DEF RunStates, Reasons
<1>2. PICK st \in {"paused", "running"} : Commit(transition_run(db, st, "none"))
  BY DEF PauseRun, ResumeRun
<1>3. run.state \in {"running", "paused"} /\ db.run = run /\ db.lease = lease
  BY DbInv DEF PauseRun, ResumeRun
<1> DEFINE e == transition_run(db, st, "none")
<1>4. /\ e.lease = lease /\ e.run.state = st /\ e.run.reason = run.reason /\ e.run.t0 = run.t0
  BY <1>1, <1>3, DbInv, TransitionFields
<1> HIDE DEF e
<1>5. Turn(db, e)
  BY <1>3, <1>4 DEF Turn, InOrder
<1> QED BY <1>2, <1>5 DEF e

LEMMA RestartTurn ==
    ASSUME FullInv, InOrder(db), NEW ok \in BOOLEAN, RestartControlPlane(ok)
    PROVE  \E e : Commit(e) /\ Turn(db, e)
<1> DEFINE lost == [db EXCEPT !.lease = LoseUnfinished(lease)]
           orphan == transition_run(lost, "failed", "orphaned")
           swept == [db EXCEPT !.fleet.load = "down"]
<1>1. "failed" \in RunStates /\ "orphaned" \in Reasons
  BY DEF RunStates, Terminal, Reasons, FailedReasons
<1>2. \E e \in {orphan, swept, db} : Commit(e)
  BY DEF RestartControlPlane
<1>3. Turn(db, db)
  BY DEF Turn
<1>4. Turn(db, swept)
  <2>1. swept.run = db.run /\ swept.lease = db.lease
    BY DEF db
  <2> HIDE DEF swept
  <2> QED BY <2>1 DEF Turn, InOrder
<1>5. Turn(db, orphan)
  <2>1. DbOK(lost) /\ lost.run = run /\ lost.lease = LoseUnfinished(lease)
    BY DbInv, LoseStage, LoseSomeTables DEF Stage, db
  <2> HIDE DEF lost
  <2>2. /\ orphan.lease = LoseUnfinished(lease) /\ orphan.run.state = "failed"
        /\ orphan.run.reason = "orphaned" /\ orphan.run.t0 = run.t0
    BY <1>1, <2>1, TransitionFields
  <2> HIDE DEF orphan
  <2>3. ASSUME NEW s \in Slots
        PROVE  /\ orphan.lease[s].token = lease[s].token
               /\ orphan.lease[s].state # "running"
               /\ orphan.lease[s].state # "absent" => lease[s].state # "absent"
    <3>1. lease[s] \in LeaseRow
      BY DbInv DEF LTable
    <3>2. orphan.lease[s] = IF lease[s].state \in Live \cup {"free"}
                              THEN [lease[s] EXCEPT !.state = "lost"] ELSE lease[s]
      BY <2>2 DEF LoseUnfinished
    <3> QED BY <3>1, <3>2 DEF LeaseRow, Live
  <2> QED BY <2>2, <2>3, DbInv DEF Turn, InOrder
<1> HIDE DEF orphan, swept
<1> QED BY <1>2, <1>3, <1>4, <1>5

(* Deadlines pass.  T0 arrives only after it was set.                      *)
LEMMA TimeTurn ==
    ASSUME FullInv, InOrder(db), TimePasses
    PROVE  /\ InOrder(db)'
           /\ run'.t0 = "unset" <=> run.t0 = "unset"
           /\ UNCHANGED worker
<1>1. /\ run \in RunRow /\ lease \in LTable
  BY DbInv
<1>2. CASE WorkloadEnds \/ BootGraceEnds
  BY <1>2 DEF WorkloadEnds, BootGraceEnds, db, InOrder
<1>3. CASE ProvisionTimeout \/ DurationEnds \/ StopGraceEnds
  <2>1. /\ run'.state = run.state /\ run'.reason = run.reason /\ run'.t0 = run.t0
        /\ lease' = lease /\ UNCHANGED worker
    BY <1>1, <1>3 DEF ProvisionTimeout, DurationEnds, StopGraceEnds, RunRow
  <2> QED BY <2>1 DEF db, InOrder
<1>4. CASE T0Arrives
  <2>1. /\ run'.state = run.state /\ run'.reason = run.reason /\ run'.t0 = "passed"
        /\ run.t0 = "ahead" /\ lease' = lease /\ UNCHANGED worker
    BY <1>1, <1>4 DEF T0Arrives, RunRow
  <2> QED BY <2>1 DEF db, InOrder
<1>5. ASSUME NEW s \in Slots, HeartbeatAges(s)
      PROVE  /\ InOrder(db)' /\ run' = run /\ UNCHANGED worker
  <2>1. \A u \in Slots : lease'[u].state = lease[u].state /\ lease'[u].token = lease[u].token
    <3> DEFINE row == [lease[s] EXCEPT !.age = IF @ = "fresh" THEN "stale" ELSE "dead"]
    <3>1. row.state = lease[s].state /\ row.token = lease[s].token
      BY <1>1 DEF LTable, LeaseRow
    <3>2. lease' = [lease EXCEPT ![s] = row]
      BY <1>1, <1>5 DEF HeartbeatAges, LTable
    <3> HIDE DEF row
    <3> QED BY <1>1, <3>1, <3>2 DEF LTable
  <2>2. run' = run /\ UNCHANGED worker
    BY <1>5 DEF HeartbeatAges
  <2> QED BY <2>1, <2>2 DEF db, InOrder
<1> QED BY <1>2, <1>3, <1>4, <1>5 DEF TimePasses
-----------------------------------------------------------------------------
(* The worker processes.                                                   *)

Out == {"rejoining", "released", "generating"}

(* Nobody is past _await_release before T0, and a process without a grant  *)
(* has no token.                                                           *)
Waits == run.t0 = "unset" => \A w \in Workers : worker[w].pc \notin Out
Blank == \A w \in Workers : worker[w].pc \in {"boot", "gone"} => worker[w].token = 0

CourseInv == InOrder(db) /\ Waits /\ Blank

(* The bodies of ReleaseGate and of SupersededIsInert.                     *)
Gate ==
    run.t0 = "unset" /\ run'.t0 # "unset" =>
        /\ In(lease', {"ready"}) # {}
        /\ In(lease', {"free", "claimed"}) = {}
        /\ In(lease, {"free"}) # {} => run'.degraded

Inert ==
    \A w \in Workers :
        /\ worker[w].token > 0 /\ ~is_lease_holder(lease, w)
        /\ worker'[w] # worker[w]
        => UNCHANGED <<run, lease, fleet>>

LEMMA TurnStep ==
    ASSUME FullInv, NEW e, Commit(e), Turn(db, e)
    PROVE  /\ InOrder(db)' /\ Gate
           /\ run'.t0 = "unset" => run.t0 = "unset"
<1>1. e.run = run' /\ e.lease = lease'
  BY DEF Commit
<1>2. db.run = run /\ db.lease = lease
  BY DbInv
<1>3. InOrder(db)'
  BY <1>1 DEF Turn, InOrder, db
<1> QED BY <1>1, <1>2, <1>3 DEF Turn, Released, Gate

(* What a step of process w may do to the processes.                       *)
Behaves(w) ==
    /\ \A v \in Workers : v # w => worker'[v] = worker[v]
    /\ worker'[w].pc \in Out => worker[w].pc \in Out \/ run.t0 # "unset"
    /\ worker'[w].pc \in {"boot", "gone"} => worker'[w].token = 0
    /\ worker'[w] # worker[w] /\ worker[w].token > 0 /\ ~is_lease_holder(lease, w)
         => UNCHANGED <<run, lease, fleet>>

LEMMA BehavesCourse ==
    ASSUME CourseInv, NEW w \in Workers, Behaves(w), InOrder(db)',
           run'.t0 = "unset" => run.t0 = "unset"
    PROVE  CourseInv' /\ Inert
<1>1. Waits'
  BY DEF CourseInv, Waits, Behaves
<1>2. Blank'
  BY DEF CourseInv, Blank, Behaves
<1>3. Inert
  BY DEF Inert, Behaves
<1> QED BY <1>1, <1>2, <1>3 DEF CourseInv

LEMMA IdleCourse ==
    ASSUME CourseInv, UNCHANGED worker, InOrder(db)', run'.t0 = "unset" => run.t0 = "unset"
    PROVE  CourseInv' /\ Inert
BY DEF CourseInv, Waits, Blank, Inert

(* A reply that is lost leaves the process as it was.                      *)
LEMMA LostReply ==
    ASSUME CourseInv, NEW w \in Workers, worker' = worker
    PROVE  Behaves(w)
BY DEF CourseInv, Blank, Behaves

LEMMA ClaimCourse ==
    ASSUME FullInv, CourseInv, NEW w \in Workers, NEW hint \in Slots \cup {None},
           NEW got \in BOOLEAN, Claim(w, hint, got)
    PROVE  CourseInv' /\ Gate /\ Inert
<1>1. PICK e, s : /\ Commit(e) /\ Turn(db, e) /\ e.run = run
                  /\ worker' \in {worker, [worker EXCEPT ![w] = Slice(e, s)]}
  BY ClaimTurn DEF CourseInv
<1>2. worker[w].pc = "boot" /\ worker[w].token = 0
  BY DEF Claim, CourseInv, Blank
<1>3. worker \in [Workers -> WorkerRow]
  BY DEF FullInv, IInv, TypeOK
<1>4. ASSUME worker' = [worker EXCEPT ![w] = Slice(e, s)]
      PROVE  Behaves(w)
  <2> DEFINE new == Slice(e, s)
  <2>1. new.pc = IF run.t0 = "unset" THEN "warming" ELSE "rejoining"
    BY <1>1 DEF Slice
  <2> HIDE DEF new
  <2>2. \A v \in Workers : worker'[v] = IF v = w THEN new ELSE worker[v]
    BY <1>3, <1>4 DEF new
  <2> QED BY <1>2, <2>1, <2>2 DEF Behaves, Out
<1>5. Behaves(w)
  <2>1. CASE worker' = worker
    BY <2>1, LostReply
  <2> QED BY <1>1, <1>4, <2>1
<1> QED BY <1>1, <1>5, TurnStep, BehavesCourse

LEMMA ReadyCourse ==
    ASSUME FullInv, CourseInv, NEW w \in Workers, NEW got \in BOOLEAN, Ready(w, got)
    PROVE  CourseInv' /\ Gate /\ Inert
<1>1. PICK e : Commit(e) /\ Turn(db, e)
  BY ReadyTurn DEF CourseInv
<1>2. /\ worker[w].pc \in {"warming", "rejoining"} /\ is_lease_holder(lease, w)
      /\ worker' = IF ~got THEN worker
                   ELSE IF worker[w].pc = "warming"
                     THEN [worker EXCEPT ![w].pc = "awaiting"]
                     ELSE [worker EXCEPT ![w].pc = "generating", ![w].sent = TRUE]
  BY DEF Ready
<1>3. worker \in [Workers -> WorkerRow]
  BY DEF FullInv, IInv, TypeOK
<1>4. Behaves(w)
  <2>1. CASE ~got
    BY <1>2, <2>1, LostReply
  <2>2. CASE got /\ worker[w].pc = "warming"
    BY <1>2, <1>3, <2>2 DEF Behaves, Out, WorkerRow
  <2>3. CASE got /\ worker[w].pc = "rejoining"
    BY <1>2, <1>3, <2>3 DEF Behaves, Out, WorkerRow
  <2> QED BY <1>2, <2>1, <2>2, <2>3
<1> QED BY <1>1, <1>4, TurnStep, BehavesCourse

LEMMA HeartbeatCourse ==
    ASSUME FullInv, CourseInv, NEW w \in Workers, NEW auth \in BOOLEAN, NEW got \in BOOLEAN,
           Heartbeat(w, auth, got)
    PROVE  CourseInv' /\ Gate /\ Inert
<1> DEFINE s == worker[w].slot
           cmd == IF is_lease_holder(lease, w) THEN heartbeat_command(db, s) ELSE "superseded"
           new == Obeyed(w, cmd, lease[s].share)
<1>1. PICK e : Commit(e) /\ Turn(db, e)
  BY HeartbeatTurn DEF CourseInv
<1>2. /\ worker[w].pc \in {"awaiting", "generating"}
      /\ worker' = IF got THEN [worker EXCEPT ![w] = new] ELSE worker
      /\ ~is_lease_holder(lease, w) => Commit(db)
  BY DEF Heartbeat
<1>3. worker \in [Workers -> WorkerRow] /\ db.run = run
  BY DbInv DEF FullInv, IInv, TypeOK
<1>4. cmd = "release" => run.t0 # "unset"
  BY <1>3 DEF heartbeat_command
<1>5. new.pc \in {"draining", worker[w].pc} \/ (new.pc = "released" /\ cmd = "release")
  <2> HIDE DEF cmd
  <2>1. worker[w] \in WorkerRow
    BY <1>3
  <2> DEFINE b == cmd = "pause"
  <2>2. new = IF cmd \in {"drain", "superseded"} THEN Drained(w)
              ELSE IF worker[w].pc = "awaiting"
                THEN [worker[w] EXCEPT !.pc = IF cmd = "release" THEN "released" ELSE @]
              ELSE [worker[w] EXCEPT !.held = b,
                                     !.share = IF cmd = "retarget" THEN lease[s].share ELSE @]
    BY DEF Obeyed
  <2> HIDE DEF b, new
  <2> QED BY <2>1, <2>2 DEF Drained, WorkerRow
<1>6. CASE got
  <2>1. \A v \in Workers : worker'[v] = IF v = w THEN new ELSE worker[v]
    BY <1>2, <1>3, <1>6
  <2> HIDE DEF new, cmd
  <2>2. ~is_lease_holder(lease, w) => UNCHANGED <<run, lease, fleet>>
    BY <1>2 DEF Commit, db
  <2>3. Behaves(w)
    BY <1>2, <1>4, <1>5, <2>1, <2>2 DEF Behaves, Out
  <2> QED BY <1>1, <2>3, TurnStep, BehavesCourse
<1>7. CASE ~got
  BY <1>1, <1>2, <1>7, LostReply, TurnStep, BehavesCourse
<1> QED BY <1>6, <1>7

LEMMA FinalCourse ==
    ASSUME FullInv, CourseInv, NEW w \in Workers, NEW delivered \in BOOLEAN,
           NEW got \in BOOLEAN, Final(w, delivered, got)
    PROVE  CourseInv' /\ Gate /\ Inert
<1>1. PICK e : Commit(e) /\ Turn(db, e)
  BY FinalTurn DEF CourseInv
<1>2. /\ worker' = IF got THEN [worker EXCEPT ![w] = Gone] ELSE worker
      /\ Commit(FinalRows(w, delivered))
  BY DEF Final
<1>3. worker \in [Workers -> WorkerRow]
  BY DEF FullInv, IInv, TypeOK
<1>4. ~is_lease_holder(lease, w) => UNCHANGED <<run, lease, fleet>>
  BY <1>2 DEF FinalRows, Commit, db
<1>5. CASE got
  <2>1. \A v \in Workers : worker'[v] = IF v = w THEN Gone ELSE worker[v]
    BY <1>2, <1>3, <1>5
  <2>2. Behaves(w)
    BY <1>4, <2>1 DEF Behaves, Out, Gone
  <2> QED BY <1>1, <2>2, TurnStep, BehavesCourse
<1>6. CASE ~got
  BY <1>1, <1>2, <1>6, LostReply, TurnStep, BehavesCourse
<1> QED BY <1>5, <1>6

LEMMA LocalCourse ==
    ASSUME FullInv, CourseInv, NEW w \in Workers,
           StartGenerating(w) \/ WorkerDrains(w) \/ WorkerDies(w) \/ WorkerRestarts(w)
    PROVE  CourseInv' /\ Gate /\ Inert
<1>1. worker \in [Workers -> WorkerRow] /\ worker[w] \in WorkerRow
  BY DEF FullInv, IInv, TypeOK
<1>2. UNCHANGED <<run, lease, fleet>>
  BY DEF StartGenerating, WorkerDrains, WorkerDies, WorkerRestarts
<1>3. InOrder(db)' /\ Gate
  BY <1>2 DEF CourseInv, InOrder, db, Gate
<1>4. Behaves(w)
  <2>1. CASE StartGenerating(w)
    BY <1>1, <1>2, <2>1 DEF StartGenerating, Behaves, WorkerRow
  <2>2. CASE WorkerDrains(w)
    BY <1>1, <1>2, <2>2 DEF WorkerDrains, Drained, Behaves, Out, WorkerRow
  <2>3. CASE WorkerDies(w)
    BY <1>1, <1>2, <2>3 DEF WorkerDies, Behaves, Out, Gone
  <2>4. CASE WorkerRestarts(w)
    <3>1. worker[w].token = 0
      BY <2>4 DEF WorkerRestarts, CourseInv, Blank
    <3> QED BY <1>1, <1>2, <2>4, <3>1 DEF WorkerRestarts, Behaves, Out, WorkerRow
  <2> QED BY <2>1, <2>2, <2>3, <2>4
<1> QED BY <1>2, <1>3, <1>4, BehavesCourse

-----------------------------------------------------------------------------
(* The step: every action keeps the course, sets T0 only through the gate, *)
(* and lets a superseded process change nothing.                           *)
LEMMA StepCourse ==
    ASSUME FullInv, CourseInv, [Next]_vars
    PROVE  CourseInv' /\ Gate /\ Inert
<1>1. CASE UNCHANGED vars
  BY <1>1 DEF vars, CourseInv, InOrder, db, Waits, Blank, Gate, Inert
<1>2. ASSUME NEW w \in Workers, WorkerStep(w)
      PROVE  CourseInv' /\ Gate /\ Inert
  BY <1>2, ClaimCourse, ReadyCourse, HeartbeatCourse, FinalCourse, LocalCourse DEF WorkerStep
<1>3. ASSUME NEW e, Commit(e), Turn(db, e), UNCHANGED worker
      PROVE  CourseInv' /\ Gate /\ Inert
  BY <1>3, TurnStep, IdleCourse
<1>4. CASE Supervisor
  <2>1. ASSUME NEW ok \in BOOLEAN, NEW failing \in BOOLEAN, SupervisorTick(ok, failing)
        PROVE  \E e : Commit(e) /\ Turn(db, e) /\ UNCHANGED worker
    BY <2>1, DbInv, SuperviseOrder DEF SupervisorTick, CourseInv
  <2>2. ASSUME NEW ok \in BOOLEAN, ReapTerminalFleet(ok)
        PROVE  \E e : Commit(e) /\ Turn(db, e) /\ UNCHANGED worker
    BY <2>2, DbInv, DestroyOrder DEF ReapTerminalFleet, CourseInv, Turn, After
  <2> QED BY <1>3, <1>4, <2>1, <2>2 DEF Supervisor
<1>5. CASE Operator
  <2>1. UNCHANGED worker
    BY <1>5 DEF Operator, StopRun, PauseRun, ResumeRun, ScaleRun, RescaleRun, RestartControlPlane
  <2>2. \E e : Commit(e) /\ Turn(db, e)
    BY <1>5, StopTurn, PauseTurn, ScaleTurn, RescaleTurn, RestartTurn DEF Operator, CourseInv
  <2> QED BY <1>3, <2>1, <2>2
<1>6. CASE TimePasses
  <2>1. InOrder(db)' /\ (run'.t0 = "unset" <=> run.t0 = "unset") /\ UNCHANGED worker
    BY <1>6, TimeTurn DEF CourseInv
  <2> QED BY <2>1, IdleCourse DEF Gate
<1> QED BY <1>1, <1>2, <1>4, <1>5, <1>6 DEF Next

LEMMA InitCourse == Init => CourseInv
<1> SUFFICES ASSUME Init PROVE CourseInv
  OBVIOUS
<1>1. /\ run.state = "provisioning" /\ run.reason = "none" /\ run.t0 = "unset"
      /\ \A w \in Workers : worker[w].pc = "boot" /\ worker[w].token = 0
  BY DEF Init, Gone
<1>2. \A s \in Slots : lease[s].state \in {"free", "absent"}
  BY DEF Init, NewLease, NoLease
<1> QED BY <1>1, <1>2 DEF CourseInv, InOrder, db, Waits, Blank, Out

(* The course of the run holds in every reachable state.                   *)
LEMMA Course == Spec => [](FullInv /\ CourseInv)
<1>1. Init => FullInv /\ CourseInv
  BY InitInv, InitCourse
<1>2. FullInv /\ CourseInv /\ [Next]_vars => (FullInv /\ CourseInv)'
  BY StepInv, StepCourse
<1> QED BY <1>1, <1>2, PTL DEF Spec

(* A run whose recorded reason is the operator's stop is draining or ended *)
(* stopped, whatever finishes, fails or times out afterwards (stop_run,    *)
(* terminal_state_for).                                                    *)
THEOREM StopIsKept == Spec => []StopEndsStopped
<1>1. CourseInv => StopEndsStopped
  BY DEF CourseInv, InOrder, db, StopEndsStopped
<1> QED BY <1>1, Course, PTL

(* A strict run is released only once every slot has been claimed          *)
(* (evaluate_release with strict_release).                                 *)
THEOREM StrictIsWhole == Spec => []StrictReleaseComplete
<1>1. CourseInv => StrictReleaseComplete
  BY DEF CourseInv, InOrder, db, StrictReleaseComplete, Rows
<1> QED BY <1>1, Course, PTL

(* T0 is set once and through the release gate, and until then no worker   *)
(* generates, no lease runs and the run does not count as running          *)
(* (evaluate_release, _heartbeat_command).                                 *)
THEOREM ReleaseInOrder == Spec => ReleaseDiscipline
<1>1. CourseInv => GatedByT0
  BY DEF CourseInv, InOrder, db, Waits, Out, GatedByT0
<1>2. FullInv /\ CourseInv /\ [Next]_vars => [Gate]_vars
  BY StepCourse
<1>3. Spec => [][Gate]_vars
  BY <1>2, Course, PTL DEF Spec
<1> QED BY <1>1, <1>3, Course, PTL DEF ReleaseDiscipline, ReleaseGate, Gate

(* A worker whose lease was taken over or removed changes no row by any    *)
(* request it still sends (is_lease_holder in the agent endpoints).        *)
THEOREM SupersededChangesNothing == Spec => SupersededIsInert
<1>1. FullInv /\ CourseInv /\ [Next]_vars => [Inert]_vars
  BY StepCourse
<1>2. Spec => [][Inert]_vars
  BY <1>1, Course, PTL DEF Spec
<1> QED BY <1>2 DEF SupersededIsInert, Inert
=============================================================================
