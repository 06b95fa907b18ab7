---------------------------- MODULE ContentProofs ----------------------------
(***************************************************************************)
(* Pinned packs for any number of overlapping syncs, builds and commits: a *)
(* row indexed by a sync that nobody disturbed carries the verdict of the  *)
(* commit it is pinned to, and a build bundles that commit.                *)
(*                                                                         *)
(* GitInv is the inductive invariant.  A row is sound (RowOK) wherever it  *)
(* is: in the table, in a sync about to commit it, in a build that read    *)
(* it.  Commits are only appended, so a sound row stays sound.             *)
(*                                                                         *)
(* Then the bundle built of a pack's directory (module Bundles), for any   *)
(* packs, contents, launches and edits of the directories: BundleInv says  *)
(* what a launch has in hand at each of its steps, from the checks of the  *)
(* parse to the bundle of what was parsed and read.  A merge is sound as   *)
(* the namespaces differ, so no stanza meets another's name, and no two    *)
(* samples have a flat name in common, so a lookup finds one file.         *)
(***************************************************************************)
EXTENDS GitSync, Bundles, FiniteSetTheorems, TLAPS

RowSet == [dir : Roots, sha : Nat, lint : BOOLEAN, verified : BOOLEAN, serial : BOOLEAN]
Clone == [present : BOOLEAN, head : Nat, fetched : Nat, written : SUBSET Roots]
Repo == [live : BOOLEAN, trusted : BOOLEAN, head : Nat, error : BOOLEAN]
Snapshot == [state : {"absent", "whole", "removing"}, roots : SUBSET Roots, of : Nat]
Reading == [pc : {"extract", "read", "fallback"}, row : RowSet]

(* A row pinned to a commit of cs, under the trust tr of its repo.         *)
RowOK(r, cs, tr) ==
    /\ r \in RowSet /\ r.sha \in 1 .. Len(cs)
    /\ r.serial => /\ r.dir \in DOMAIN cs[r.sha]
                   /\ r.lint = (cs[r.sha][r.dir].lint /\ (cs[r.sha][r.dir].code => tr))

CloneOK ==
    /\ clone \in Clone /\ clone.head <= Len(commits) /\ clone.fetched <= Len(commits)
    /\ clone.present => clone.head > 0

(* A sync past its fetch has a clone; the SHA it resolved is of the tree   *)
(* that was checked out then.                                              *)
SyncOK(x, cs, tr, cl) ==
    /\ x.pc \in {"idle", "fetch", "checkout", "rev_parse", "index", "commit"}
    /\ x.pc \notin {"idle", "fetch"} => cl.present
    /\ x.pc = "checkout" => cl.fetched > 0
    /\ x.pc = "index" => x.sha = x.tree /\ x.sha \in 1 .. Len(cs)
    /\ x.pc = "commit" => x.sha \in Nat /\ \A n \in DOMAIN x.new : RowOK(x.new[n], cs, tr)

ContentOf(cs, c, d) == IF c > 0 /\ d \in DOMAIN cs[c] THEN cs[c][d] ELSE Gone

(* A snapshot that is there is of its own commit and stays there.          *)
BuildOK(x, cs, tr, sn) ==
    /\ x.pc \in {"idle", "extract", "read", "fallback", "built"}
    /\ x.pc \in {"extract", "read", "fallback"} => x \in Reading
    /\ x.pc # "idle" => RowOK(x.row, cs, tr)
    /\ x.pc = "read" => sn[x.row.sha].state # "absent"
    /\ x.pc = "built" /\ x.pinned => x.got = ContentOf(cs, x.row.sha, x.row.dir)

GitInv ==
    /\ commits \in Seq(Trees) /\ Len(commits) > 0 /\ Len(commits) <= MaxCommits
    /\ repo \in Repo
    /\ CloneOK
    /\ \A n \in Names : packRows[n] = Gone \/ RowOK(packRows[n], commits, repo.trusted)
    /\ specs \subseteq Names
    /\ \A n \in specs : RowOK(packRows[n], commits, repo.trusted)
    /\ DOMAIN sync = Syncs
    /\ \A s \in Syncs : SyncOK(sync[s], commits, repo.trusted, clone)
    /\ snap \in [1 .. MaxCommits -> Snapshot]
    /\ \A c \in 1 .. MaxCommits : snap[c].state # "absent" => snap[c].of = c
    /\ DOMAIN build = Builds
    /\ \A b \in Builds : BuildOK(build[b], commits, repo.trusted, snap)

LEMMA InitGit == GitInit => GitInv
<1> SUFFICES ASSUME GitInit PROVE GitInv
  OBVIOUS
<1> USE GitAssumption DEF GitInit
<1>1. commits \in Seq(Trees) /\ Len(commits) = 1
  <2>1. PICK t \in Trees : commits = <<t>>
    OBVIOUS
  <2>2. <<t>> \in Seq(Trees) /\ Len(<<t>>) = 1
    OBVIOUS
  <2> QED BY <2>1, <2>2
<1>2. repo \in Repo
  <2>1. [live : {TRUE}, trusted : BOOLEAN, head : {0}, error : {FALSE}] \subseteq Repo
    BY Zenon, 0 \in Nat DEF Repo
  <2> QED BY <2>1
<1>3. CloneOK
  BY <1>1 DEF CloneOK, Clone
<1>4. \A s \in Syncs : SyncOK(sync[s], commits, repo.trusted, clone)
  BY DEF SyncOK
<1>5. snap \in [1 .. MaxCommits -> Snapshot]
  BY DEF NoSnap, Snapshot
<1>6. \A c \in 1 .. MaxCommits : snap[c].state # "absent" => snap[c].of = c
  BY DEF NoSnap
<1>7. \A b \in Builds : BuildOK(build[b], commits, repo.trusted, snap)
  BY DEF BuildOK
<1>8. Len(commits) <= MaxCommits
  BY <1>1
<1> QED BY <1>1, <1>2, <1>3, <1>4, <1>5, <1>6, <1>7, <1>8 DEF GitInv

-----------------------------------------------------------------------------
(* What keeps a row, a sync and a build sound.                             *)

LEMMA RowKept ==
    ASSUME NEW cs \in Seq(Trees), NEW t \in Trees, NEW tr, NEW r, RowOK(r, cs, tr)
    PROVE  RowOK(r, Append(cs, t), tr)
<1>1. /\ Len(Append(cs, t)) = Len(cs) + 1 /\ Len(cs) \in Nat
      /\ \A i \in 1 .. Len(cs) : Append(cs, t)[i] = cs[i]
  OBVIOUS
<1> HIDE DEF RowSet
<1> QED BY <1>1 DEF RowOK

LEMMA ContentKept ==
    ASSUME NEW cs \in Seq(Trees), NEW t \in Trees, NEW c \in 1 .. Len(cs), NEW d
    PROVE  ContentOf(Append(cs, t), c, d) = ContentOf(cs, c, d)
<1>1. \A i \in 1 .. Len(cs) : Append(cs, t)[i] = cs[i]
  OBVIOUS
<1> QED BY <1>1 DEF ContentOf

LEMMA SyncKept ==
    ASSUME NEW cs \in Seq(Trees), NEW tr, NEW cl, NEW x, SyncOK(x, cs, tr, cl)
    PROVE  /\ \A t \in Trees : SyncOK(x, Append(cs, t), tr, cl)
           /\ \A new : (cl.present => new.present /\ (cl.fetched > 0 => new.fetched > 0))
                          => SyncOK(x, cs, tr, new)
<1>1. ASSUME NEW t \in Trees PROVE SyncOK(x, Append(cs, t), tr, cl)
  <2>1. Len(Append(cs, t)) = Len(cs) + 1 /\ Len(cs) \in Nat
    OBVIOUS
  <2>2. ASSUME x.pc = "commit", NEW n \in DOMAIN x.new PROVE RowOK(x.new[n], Append(cs, t), tr)
    BY <2>2, RowKept DEF SyncOK
  <2> QED BY <2>1, <2>2 DEF SyncOK
<1>2. ASSUME NEW new, cl.present => new.present /\ (cl.fetched > 0 => new.fetched > 0)
      PROVE  SyncOK(x, cs, tr, new)
  BY <1>2 DEF SyncOK
<1> QED BY <1>1, <1>2

LEMMA BuildKept ==
    ASSUME NEW cs \in Seq(Trees), NEW tr, NEW sn, NEW x, BuildOK(x, cs, tr, sn)
    PROVE  /\ \A t \in Trees : BuildOK(x, Append(cs, t), tr, sn)
           /\ \A new : (\A c \in 1 .. Len(cs) : sn[c].state # "absent" => new[c].state # "absent")
                          => BuildOK(x, cs, tr, new)
<1>1. ASSUME NEW t \in Trees PROVE BuildOK(x, Append(cs, t), tr, sn)
  <2>1. x.pc # "idle" => RowOK(x.row, Append(cs, t), tr) /\ x.row.sha \in 1 .. Len(cs)
    BY RowKept DEF BuildOK, RowOK
  <2>2. x.pc # "idle" =>
           ContentOf(Append(cs, t), x.row.sha, x.row.dir) = ContentOf(cs, x.row.sha, x.row.dir)
    BY <2>1, ContentKept
  <2>3. /\ x.pc \in {"idle", "extract", "read", "fallback", "built"}
        /\ x.pc \in {"extract", "read", "fallback"} => x \in Reading
        /\ x.pc = "read" => sn[x.row.sha].state # "absent"
        /\ x.pc = "built" /\ x.pinned => x.got = ContentOf(cs, x.row.sha, x.row.dir)
    BY DEF BuildOK
  <2>4. x.pc = "built" /\ x.pinned => x.got = ContentOf(Append(cs, t), x.row.sha, x.row.dir)
    BY <2>2, <2>3
  <2> QED BY <2>1, <2>3, <2>4 DEF BuildOK
<1>2. ASSUME NEW new, \A c \in 1 .. Len(cs) : sn[c].state # "absent" => new[c].state # "absent"
      PROVE  BuildOK(x, cs, tr, new)
  <2>1. x.pc # "idle" => x.row.sha \in 1 .. Len(cs)
    BY DEF BuildOK, RowOK
  <2> QED BY <1>2, <2>1 DEF BuildOK
<1> QED BY <1>1, <1>2

LEMMA Facts ==
    ASSUME GitInv
    PROVE  /\ Len(commits) \in Nat /\ MaxCommits \in Nat /\ Len(commits) <= MaxCommits
           /\ clone \in Clone /\ repo \in Repo /\ commits \in Seq(Trees)
           /\ \A c \in 1 .. Len(commits) : commits[c] \in Trees
BY GitAssumption DEF GitInv, CloneOK

-----------------------------------------------------------------------------
(* Upstream and the repo endpoints.                                        *)

LEMMA PushInv ==
    ASSUME GitInv, NEW t \in Trees, push(t)
    PROVE  GitInv'
<1> DEFINE cs == Append(commits, t)
<1>1. commits' = cs /\ UNCHANGED <<repo, clone, packRows, specs, sync, snap, build>>
  BY DEF push
<1>2. cs \in Seq(Trees) /\ Len(cs) = Len(commits) + 1 /\ Len(cs) <= MaxCommits
  BY Facts DEF push
<1>3. /\ \A n \in Names : packRows[n] = Gone \/ RowOK(packRows[n], cs, repo.trusted)
      /\ \A n \in specs : RowOK(packRows[n], cs, repo.trusted)
  BY Facts, RowKept DEF GitInv
<1>4. \A s \in Syncs : SyncOK(sync[s], cs, repo.trusted, clone)
  BY Facts, SyncKept DEF GitInv
<1>5. \A b \in Builds : BuildOK(build[b], cs, repo.trusted, snap)
  BY Facts, BuildKept DEF GitInv
<1>6. CloneOK'
  <2>1. clone.head <= Len(cs) /\ clone.fetched <= Len(cs)
    BY <1>2, Facts DEF GitInv, CloneOK, Clone
  <2> QED BY <1>1, <2>1 DEF GitInv, CloneOK
<1> HIDE DEF cs
<1> QED BY <1>1, <1>2, <1>3, <1>4, <1>5, <1>6 DEF GitInv

LEMMA EndpointsInv ==
    ASSUME GitInv, \/ \E n \in Names : create_spec(n) \/ delete_spec(n)
                   \/ delete_repo
    PROVE  GitInv'
<1>1. ASSUME NEW n \in Names, create_spec(n) \/ delete_spec(n)
      PROVE  GitInv'
  <2>1. /\ specs' \subseteq specs \cup {n} /\ (n \in specs' => n \in specs \/ packRows[n] # Gone)
        /\ UNCHANGED <<commits, repo, clone, packRows, sync, snap, build>>
    BY <1>1 DEF create_spec, delete_spec, Present
  <2>2. specs' \subseteq Names /\ \A m \in specs' : RowOK(packRows[m], commits, repo.trusted)
    BY <2>1 DEF GitInv
  <2> QED BY <2>1, <2>2 DEF GitInv, CloneOK
<1>2. CASE delete_repo
  <2>1. /\ repo' = [repo EXCEPT !.live = FALSE] /\ packRows' = [n \in Names |-> Gone] /\ specs = {}
        /\ UNCHANGED <<commits, clone, specs, sync, snap, build>>
    BY <1>2 DEF delete_repo
  <2> DEFINE f == FALSE
  <2>2. f \in BOOLEAN /\ repo' = [repo EXCEPT !.live = f]
    BY <2>1
  <2> HIDE DEF f
  <2>3. repo' \in Repo /\ repo'.trusted = repo.trusted
    BY <2>2, Facts DEF Repo
  <2> QED BY <2>1, <2>3 DEF GitInv, CloneOK
<1> QED BY <1>1, <1>2

-----------------------------------------------------------------------------
(* The syncs.  One thread moves to x; the others find a clone that has     *)
(* moved, but is still there.                                              *)

LEMMA SyncMoves ==
    ASSUME GitInv, NEW s \in Syncs, NEW x, sync' = [sync EXCEPT ![s] = x],
           UNCHANGED <<commits, specs, snap, build>>,
           repo' \in Repo, repo'.trusted = repo.trusted,
           CloneOK', clone.present => clone'.present /\ (clone.fetched > 0 => clone'.fetched > 0),
           \A n \in Names : packRows'[n] = packRows[n] \/ RowOK(packRows'[n], commits, repo.trusted),
           SyncOK(x, commits, repo.trusted, clone')
    PROVE  GitInv'
<1>1. DOMAIN sync' = Syncs /\ sync'[s] = x /\ \A q \in Syncs : q # s => sync'[q] = sync[q]
  BY DEF GitInv
<1>2. \A q \in Syncs : SyncOK(sync[q], commits, repo.trusted, clone')
  BY SyncKept DEF GitInv
<1>3. \A q \in Syncs : SyncOK(sync'[q], commits, repo.trusted, clone')
  BY <1>1, <1>2
<1>4. /\ \A n \in Names : packRows'[n] = Gone \/ RowOK(packRows'[n], commits, repo.trusted)
      /\ \A n \in specs : RowOK(packRows'[n], commits, repo.trusted)
  BY DEF GitInv
<1> QED BY <1>1, <1>3, <1>4 DEF GitInv

LEMMA RepoRows ==
    ASSUME repo \in Repo, NEW f \in BOOLEAN, NEW h \in Nat
    PROVE  /\ repo.live \in BOOLEAN
           /\ [repo EXCEPT !.error = f] \in Repo
           /\ [repo EXCEPT !.error = f].trusted = repo.trusted
           /\ [repo EXCEPT !.head = h, !.error = f] \in Repo
           /\ [repo EXCEPT !.head = h, !.error = f].trusted = repo.trusted
BY DEF Repo

LEMMA FailedInv ==
    ASSUME GitInv, NEW s \in Syncs, Failed(s),
           UNCHANGED <<commits, clone, packRows, specs, snap, build>>
    PROVE  GitInv'
<1>1. repo' = [repo EXCEPT !.error = repo.live] /\ sync' = [sync EXCEPT ![s] = [pc |-> "idle"]]
  BY DEF Failed
<1>2. repo' \in Repo /\ repo'.trusted = repo.trusted
  BY <1>1, Facts, RepoRows
<1>3. SyncOK([pc |-> "idle"], commits, repo.trusted, clone)
  BY DEF SyncOK
<1>4. CloneOK'
  BY DEF GitInv, CloneOK
<1> QED BY <1>1, <1>2, <1>3, <1>4, SyncMoves

LEMMA FetchInv ==
    ASSUME GitInv, NEW s \in Syncs,
           sync_repo(s) \/ git_fails(s) \/ clone_or_fetch(s) \/ _fetch(s) \/ rev_parse(s)
    PROVE  GitInv'
<1> USE Facts
<1>a. CloneOK /\ SyncOK(sync[s], commits, repo.trusted, clone)
  BY DEF GitInv
<1>1. CASE sync_repo(s)
  <2>1. /\ sync' = [sync EXCEPT ![s] = [pc |-> "fetch"]]
        /\ UNCHANGED <<commits, repo, clone, packRows, specs, snap, build>>
    BY <1>1 DEF sync_repo
  <2>2. SyncOK([pc |-> "fetch"], commits, repo.trusted, clone)
    BY DEF SyncOK
  <2>3. CloneOK'
    BY <1>a, <2>1 DEF CloneOK
  <2> QED BY <2>1, <2>2, <2>3, SyncMoves
<1>2. CASE git_fails(s)
  BY <1>2, FailedInv DEF git_fails
<1>3. CASE clone_or_fetch(s) /\ clone.present
  <2>1. /\ clone' = [clone EXCEPT !.fetched = Len(commits)]
        /\ sync' = [sync EXCEPT ![s] = [pc |-> "checkout"]]
        /\ UNCHANGED <<commits, repo, packRows, specs, snap, build>>
    BY <1>3 DEF clone_or_fetch
  <2>2. Len(commits) > 0
    BY <1>a, <1>3 DEF CloneOK, Clone
  <2>3. /\ clone' \in Clone /\ clone'.present = clone.present /\ clone'.head = clone.head
        /\ clone'.fetched = Len(commits)
    BY <2>1 DEF Clone
  <2>4. CloneOK'
    BY <1>a, <2>1, <2>3 DEF CloneOK
  <2>5. SyncOK([pc |-> "checkout"], commits, repo.trusted, clone')
    BY <1>3, <2>2, <2>3 DEF SyncOK
  <2> QED BY <2>1, <2>2, <2>3, <2>4, <2>5, SyncMoves
<1>4. CASE clone_or_fetch(s) /\ ~clone.present
  <2>1. /\ clone' = [present |-> TRUE, head |-> Len(commits), fetched |-> 0, written |-> {}]
        /\ sync' = [sync EXCEPT ![s] = [pc |-> "rev_parse"]]
        /\ UNCHANGED <<commits, repo, packRows, specs, snap, build>>
    BY <1>4 DEF clone_or_fetch
  <2>2. Len(commits) > 0
    BY DEF GitInv
  <2>3. clone' \in Clone /\ clone'.present /\ clone'.head = Len(commits) /\ clone'.fetched = 0
    BY <2>1 DEF Clone
  <2>4. CloneOK'
    BY <2>1, <2>2, <2>3 DEF CloneOK
  <2>5. SyncOK([pc |-> "rev_parse"], commits, repo.trusted, clone')
    BY <2>3 DEF SyncOK
  <2> QED BY <1>4, <2>1, <2>4, <2>5, SyncMoves
<1>5. CASE _fetch(s) /\ Blocked(clone.fetched)
  BY <1>5, FailedInv DEF _fetch
<1>6. CASE _fetch(s) /\ ~Blocked(clone.fetched)
  <2>1. /\ clone' = [clone EXCEPT !.head = clone.fetched]
        /\ sync' = [sync EXCEPT ![s] = [pc |-> "rev_parse"]]
        /\ UNCHANGED <<commits, repo, packRows, specs, snap, build>>
    BY <1>6 DEF _fetch
  <2>2. clone.present /\ clone.fetched > 0
    BY <1>a, <1>6 DEF _fetch, SyncOK
  <2>3. /\ clone' \in Clone /\ clone'.present = clone.present
        /\ clone'.head = clone.fetched /\ clone'.fetched = clone.fetched
    BY <2>1 DEF Clone
  <2>4. CloneOK'
    BY <1>a, <2>1, <2>2, <2>3 DEF CloneOK
  <2>5. SyncOK([pc |-> "rev_parse"], commits, repo.trusted, clone')
    BY <2>2, <2>3 DEF SyncOK
  <2> QED BY <2>1, <2>3, <2>4, <2>5, SyncMoves
<1>7. CASE rev_parse(s)
  <2> DEFINE x == [pc |-> "index", sha |-> clone.head, tree |-> clone.head]
  <2>1. sync' = [sync EXCEPT ![s] = x] /\ UNCHANGED <<commits, repo, clone, packRows, specs, snap, build>>
    BY <1>7 DEF rev_parse, _resolve_ref_sha
  <2>2. clone.present
    BY <1>a, <1>7 DEF rev_parse, SyncOK
  <2>3. SyncOK(x, commits, repo.trusted, clone)
    BY <1>a, <2>2 DEF SyncOK, CloneOK, Clone
  <2>4. CloneOK'
    BY <1>a, <2>1 DEF CloneOK
  <2> HIDE DEF x
  <2> QED BY <2>1, <2>3, <2>4, SyncMoves
<1> QED BY <1>1, <1>2, <1>3, <1>4, <1>5, <1>6, <1>7

(* The verdict of the working tree is the verdict of the SHA when the tree *)
(* has not moved since it was resolved.                                    *)
LEMMA UpsertOK ==
    ASSUME GitInv, NEW s \in Syncs, sync[s].pc = "index",
           NEW d \in DOMAIN commits[clone.head]
    PROVE  RowOK(_upsert_pack(s, commits[clone.head], d), commits, repo.trusted)
<1> USE Facts
<1> DEFINE t == commits[clone.head]
           l == CleanPack(t, d)
           v == CleanPack(t, d) /\ HasYaml(t, d)
           e == clone.head = sync[s].tree
           r == [dir |-> d, sha |-> sync[s].sha, lint |-> l, verified |-> v, serial |-> e]
<1>1. /\ clone.present /\ sync[s].sha = sync[s].tree /\ sync[s].sha \in 1 .. Len(commits)
      /\ clone.head \in 1 .. Len(commits)
  BY DEF GitInv, SyncOK, CloneOK, Clone
<1>2. t \in Trees
  BY <1>1
<1>3. d \in Roots
  BY <1>2, GitAssumption
<1>4. l = (t[d].lint /\ (t[d].code => repo.trusted)) /\ l \in BOOLEAN /\ v \in BOOLEAN /\ e \in BOOLEAN
  <2>1. t[d].lint \in BOOLEAN
    BY <1>2, GitAssumption DEF TreePack
  <2> QED BY <2>1, Zenon DEF CleanPack
<1>5. e => t = commits[sync[s].sha]
  BY <1>1
<1>6. _upsert_pack(s, t, d) = r
  BY DEF _upsert_pack
<1> HIDE DEF t, l, v, e
<1>7. /\ r \in RowSet /\ r.sha = sync[s].sha /\ r.dir = d /\ r.lint = l /\ r.serial = e
  BY <1>1, <1>3, <1>4 DEF RowSet
<1>8. d \in DOMAIN t
  BY DEF t
<1> HIDE DEF r
<1>9. RowOK(r, commits, repo.trusted)
  BY <1>1, <1>4, <1>5, <1>7, <1>8 DEF RowOK
<1> QED BY <1>6, <1>9 DEF t

LEMMA IndexInv ==
    ASSUME GitInv, NEW s \in Syncs, index_packs(s)
    PROVE  GitInv'
<1> USE Facts
<1> DEFINE t == commits[clone.head]
           roots == _find_pack_roots(t)
           New(n) == {d \in roots : _pack_name(t, d) = n}
           Pick(n) == IF New(n) = {"root"} THEN "root" ELSE CHOOSE d \in New(n) : d # "root"
           rows == [n \in {m \in Names : New(m) # {}} |-> _upsert_pack(s, t, Pick(n))]
           x == [pc |-> "commit", sha |-> sync[s].sha, new |-> rows]
           w == clone.written \cup {d \in roots : ~t[d].yaml}
<1>1. /\ sync[s].pc = "index"
      /\ sync' = [sync EXCEPT ![s] = x] /\ clone' = [clone EXCEPT !.written = w]
      /\ UNCHANGED <<commits, repo, packRows, specs, snap, build>>
  BY DEF index_packs
<1>2. CloneOK /\ clone.present /\ sync[s].sha \in Nat /\ clone.head \in 1 .. Len(commits)
  BY <1>1 DEF GitInv, SyncOK, CloneOK, Clone
<1>3. roots \subseteq DOMAIN t /\ DOMAIN t \subseteq Roots
  BY <1>2, GitAssumption DEF _find_pack_roots
<1>4. ASSUME NEW n, New(n) # {} PROVE Pick(n) \in DOMAIN t
  <2>1. CASE New(n) = {"root"}
    BY <1>3, <2>1
  <2>2. CASE New(n) # {"root"}
    <3>1. \E d \in New(n) : d # "root"
      BY <1>4, <2>2
    <3> QED BY <1>3, <2>2, <3>1
  <2> QED BY <2>1, <2>2
<1>5. ASSUME NEW n \in DOMAIN rows PROVE RowOK(rows[n], commits, repo.trusted)
  <2>1. Pick(n) \in DOMAIN t /\ rows[n] = _upsert_pack(s, t, Pick(n))
    BY <1>4
  <2> QED BY <1>1, <2>1, UpsertOK
<1>6. w \subseteq Roots
  BY <1>3 DEF Clone
<1> HIDE DEF rows, w
<1>7. /\ clone' \in Clone /\ clone'.present = clone.present /\ clone'.head = clone.head
      /\ clone'.fetched = clone.fetched
  BY <1>1, <1>6 DEF Clone
<1>8. CloneOK'
  BY <1>1, <1>2, <1>7 DEF CloneOK
<1>9. SyncOK(x, commits, repo.trusted, clone')
  BY <1>2, <1>5, <1>7 DEF SyncOK
<1> HIDE DEF x
<1> QED BY <1>1, <1>7, <1>8, <1>9, SyncMoves

LEMMA CommitInv ==
    ASSUME GitInv, NEW s \in Syncs, commit_sync(s)
    PROVE  GitInv'
<1> USE Facts
<1>1. /\ sync[s].pc = "commit" /\ sync' = [sync EXCEPT ![s] = [pc |-> "idle"]]
      /\ UNCHANGED <<commits, clone, specs, snap, build>>
  BY DEF commit_sync
<1>2. sync[s].sha \in Nat /\ \A n \in DOMAIN sync[s].new : RowOK(sync[s].new[n], commits, repo.trusted)
  BY <1>1 DEF GitInv, SyncOK
<1>3. \A n \in Names : packRows'[n] = packRows[n] \/ RowOK(packRows'[n], commits, repo.trusted)
  BY <1>2 DEF commit_sync
<1>4. repo' \in Repo /\ repo'.trusted = repo.trusted
  <2> DEFINE f == FALSE
             h == sync[s].sha
  <2>1. f \in BOOLEAN /\ h \in Nat /\ repo' \in {repo, [repo EXCEPT !.head = h, !.error = f]}
    BY <1>2 DEF commit_sync
  <2> HIDE DEF f, h
  <2> QED BY <2>1, RepoRows
<1>5. SyncOK([pc |-> "idle"], commits, repo.trusted, clone)
  BY DEF SyncOK
<1>6. CloneOK'
  BY <1>1 DEF GitInv, CloneOK
<1> QED BY <1>1, <1>3, <1>4, <1>5, <1>6, SyncMoves

-----------------------------------------------------------------------------
(* The builds.  A snapshot may appear or be replaced under a build.        *)

LEMMA BuildMoves ==
    ASSUME GitInv, UNCHANGED <<commits, repo, clone, packRows, specs, sync>>,
           DOMAIN build' = Builds,
           \A q \in Builds : build'[q] = build[q] \/ BuildOK(build'[q], commits, repo.trusted, snap'),
           snap' \in [1 .. MaxCommits -> Snapshot],
           \A c \in 1 .. MaxCommits : snap[c].state # "absent" => snap'[c].state # "absent",
           \A c \in 1 .. MaxCommits : snap'[c].state # "absent" => snap'[c].of = c
    PROVE  GitInv'
<1> USE Facts
<1>1. \A c \in 1 .. Len(commits) : snap[c].state # "absent" => snap'[c].state # "absent"
  OBVIOUS
<1>2. \A q \in Builds : BuildOK(build[q], commits, repo.trusted, snap')
  BY <1>1, BuildKept DEF GitInv
<1>3. \A q \in Builds : BuildOK(build'[q], commits, repo.trusted, snap')
  BY <1>2
<1> QED BY <1>3 DEF GitInv, CloneOK

LEMMA BuildAlone ==
    ASSUME GitInv, NEW b \in Builds, NEW x, BuildOK(x, commits, repo.trusted, snap),
           build' = [build EXCEPT ![b] = x],
           UNCHANGED <<commits, repo, clone, packRows, specs, sync, snap>>
    PROVE  GitInv'
<1>1. DOMAIN build' = Builds /\ \A q \in Builds : build'[q] = build[q] \/ build'[q] = x
  BY DEF GitInv
<1>2. \A q \in Builds : build'[q] = build[q] \/ BuildOK(build'[q], commits, repo.trusted, snap')
  BY <1>1
<1>3. /\ snap' \in [1 .. MaxCommits -> Snapshot]
      /\ \A c \in 1 .. MaxCommits : snap'[c].state # "absent" => snap'[c].of = c
      /\ \A c \in 1 .. MaxCommits : snap[c].state # "absent" => snap'[c].state # "absent"
  BY DEF GitInv
<1> QED BY <1>1, <1>2, <1>3, BuildMoves

LEMMA SnapFacts ==
    ASSUME GitInv, NEW b \in Builds, build[b].pc \in {"extract", "read", "fallback"}
    PROVE  /\ build[b] \in Reading /\ build[b].row \in RowSet
           /\ RowOK(build[b].row, commits, repo.trusted)
           /\ build[b].row.sha \in 1 .. MaxCommits /\ build[b].row.sha \in 1 .. Len(commits)
           /\ build[b].pc = "read" => snap[build[b].row.sha].state # "absent"
BY Facts, SMTT(60) DEF GitInv, BuildOK, RowOK

LEMMA ResolveInv ==
    ASSUME GitInv, NEW b \in Builds, \/ \E n \in specs : resolve_pack_dir(b, n)
                                     \/ extract_fails(b) \/ launch_again(b)
    PROVE  GitInv'
<1> USE Facts
<1>1. ASSUME NEW n \in specs, resolve_pack_dir(b, n)
      PROVE  GitInv'
  <2> DEFINE r == packRows[n]
             p == IF _pack_present(r) THEN "read" ELSE "extract"
             x == [pc |-> p, row |-> r]
  <2>1. build' = [build EXCEPT ![b] = x] /\ UNCHANGED <<commits, repo, clone, packRows, specs, sync, snap>>
    BY <1>1 DEF resolve_pack_dir
  <2>2. RowOK(r, commits, repo.trusted)
    BY DEF GitInv
  <2>3. p \in {"read", "extract"} /\ (p = "read" => snap[r.sha].state # "absent")
    BY DEF _pack_present
  <2> HIDE DEF r, p
  <2>4. x \in Reading /\ x.pc = p /\ x.row = r
    BY <2>2, <2>3 DEF RowOK, Reading
  <2> HIDE DEF x
  <2>5. BuildOK(x, commits, repo.trusted, snap)
    BY <2>2, <2>3, <2>4 DEF BuildOK
  <2> QED BY <2>1, <2>5, BuildAlone
<1>2. CASE extract_fails(b)
  <2> DEFINE x == [build[b] EXCEPT !.pc = "fallback"]
  <2>1. /\ build[b].pc = "extract" /\ build' = [build EXCEPT ![b] = x]
        /\ UNCHANGED <<commits, repo, clone, packRows, specs, sync, snap>>
    BY <1>2 DEF extract_fails
  <2>2. build[b] \in Reading /\ RowOK(build[b].row, commits, repo.trusted)
    BY <2>1, SnapFacts
  <2>3. x \in Reading /\ x.pc = "fallback" /\ x.row = build[b].row
    BY <2>2 DEF Reading
  <2> HIDE DEF x
  <2>4. BuildOK(x, commits, repo.trusted, snap)
    BY <2>2, <2>3 DEF BuildOK
  <2> QED BY <2>1, <2>4, BuildAlone
<1>3. CASE launch_again(b)
  <2>1. /\ build' = [build EXCEPT ![b] = [pc |-> "idle"]]
        /\ UNCHANGED <<commits, repo, clone, packRows, specs, sync, snap>>
    BY <1>3 DEF launch_again
  <2>2. BuildOK([pc |-> "idle"], commits, repo.trusted, snap)
    BY DEF BuildOK
  <2> QED BY <2>1, <2>2, BuildAlone
<1> QED BY <1>1, <1>2, <1>3

LEMMA ExtractInv ==
    ASSUME GitInv, NEW b \in Builds, rmtree(b) \/ replace(b)
    PROVE  GitInv'
<1> USE Facts
<1> DEFINE r == build[b].row
<1>a. /\ snap \in [1 .. MaxCommits -> Snapshot]
      /\ \A c \in 1 .. MaxCommits : snap[c].state # "absent" => snap[c].of = c
  BY DEF GitInv
<1>b. /\ build[b].pc = "extract" /\ build[b] \in Reading /\ RowOK(r, commits, repo.trusted)
      /\ r.sha \in 1 .. MaxCommits /\ r.sha \in 1 .. Len(commits)
  BY SnapFacts DEF rmtree, replace
<1>1. CASE rmtree(b)
  <2>1. /\ snap[r.sha].state = "whole" /\ snap' = [snap EXCEPT ![r.sha].state = "removing"]
        /\ UNCHANGED <<commits, repo, clone, packRows, specs, sync, build>>
    BY <1>1 DEF rmtree
  <2>2. \A y \in Snapshot : /\ [y EXCEPT !.state = "removing"] \in Snapshot
                            /\ [y EXCEPT !.state = "removing"].of = y.of
                            /\ [y EXCEPT !.state = "removing"].state = "removing"
    BY DEF Snapshot
  <2>3. /\ snap' \in [1 .. MaxCommits -> Snapshot]
        /\ \A c \in 1 .. MaxCommits : /\ snap'[c].of = snap[c].of
                                      /\ snap'[c].state = snap[c].state \/ c = r.sha
        /\ snap'[r.sha].state = "removing"
    BY <1>a, <1>b, <2>1, <2>2
  <2>4. \A c \in 1 .. MaxCommits : /\ snap[c].state # "absent" => snap'[c].state # "absent"
                                   /\ snap'[c].state # "absent" => snap'[c].of = c
    BY <1>a, <1>b, <2>1, <2>3
  <2>5. DOMAIN build' = Builds
    BY <2>1 DEF GitInv
  <2> QED BY <2>1, <2>3, <2>4, <2>5, BuildMoves
<1>2. CASE replace(b)
  <2> DEFINE new == [state |-> "whole", roots |-> DOMAIN commits[r.sha], of |-> r.sha]
             p == IF r.dir \in new.roots THEN "read" ELSE "fallback"
             x == [build[b] EXCEPT !.pc = p]
  <2>1. /\ snap' = [snap EXCEPT ![r.sha] = new] /\ build' = [build EXCEPT ![b] = x]
        /\ UNCHANGED <<commits, repo, clone, packRows, specs, sync>>
    BY <1>2 DEF replace, _extract_tree
  <2>2. new \in Snapshot /\ new.of = r.sha /\ new.state = "whole"
    BY <1>b, GitAssumption DEF Snapshot
  <2>3. p \in {"read", "fallback"}
    OBVIOUS
  <2> HIDE DEF new, p
  <2>4. snap' \in [1 .. MaxCommits -> Snapshot] /\ snap'[r.sha] = new
    BY <1>a, <1>b, <2>1, <2>2
  <2>5. \A c \in 1 .. MaxCommits : /\ snap[c].state # "absent" => snap'[c].state # "absent"
                                   /\ snap'[c].state # "absent" => snap'[c].of = c
    BY <1>a, <1>b, <2>1, <2>2
  <2>6. x \in Reading /\ x.pc = p /\ x.row = r
    BY <1>b, <2>3 DEF Reading
  <2> HIDE DEF x, r
  <2>7. BuildOK(x, commits, repo.trusted, snap')
    BY <1>b, <2>2, <2>3, <2>4, <2>6 DEF BuildOK
  <2>8. DOMAIN build' = Builds /\ \A q \in Builds : build'[q] = build[q] \/ build'[q] = x
    BY <2>1 DEF GitInv
  <2>9. \A q \in Builds : build'[q] = build[q] \/ BuildOK(build'[q], commits, repo.trusted, snap')
    BY <2>7, <2>8
  <2> QED BY <2>1, <2>4, <2>5, <2>8, <2>9, BuildMoves
<1> QED BY <1>1, <1>2

LEMMA BuiltInv ==
    ASSUME GitInv, NEW b \in Builds, build_from_pack(b)
    PROVE  GitInv'
<1> USE Facts
<1> DEFINE r == build[b].row
           pinned == build[b].pc = "read"
           torn == pinned /\ snap[r.sha].state # "whole"
           got == Content(IF pinned THEN snap[r.sha].of ELSE clone.head, r.dir)
           x == [pc |-> "built", row |-> r, pinned |-> pinned, torn |-> torn, got |-> got]
<1>a. /\ snap \in [1 .. MaxCommits -> Snapshot]
      /\ \A c \in 1 .. MaxCommits : snap[c].state # "absent" => snap[c].of = c
  BY DEF GitInv
<1>1. /\ build[b].pc \in {"read", "fallback"} /\ build' = [build EXCEPT ![b] = x]
      /\ UNCHANGED <<commits, repo, clone, packRows, specs, sync, snap>>
  BY DEF build_from_pack
<1>2. /\ RowOK(r, commits, repo.trusted) /\ r.sha \in 1 .. MaxCommits
      /\ build[b].pc = "read" => snap[r.sha].state # "absent"
  BY <1>1, SnapFacts
<1>3. pinned => got = Content(r.sha, r.dir)
  BY <1>a, <1>2
<1>4. Content(r.sha, r.dir) = ContentOf(commits, r.sha, r.dir)
  BY DEF Content, ContentOf
<1>5. x.pc = "built" /\ x.row = r /\ x.got = got /\ x.pinned = pinned
  OBVIOUS
<1> HIDE DEF r, pinned, got, x
<1>6. BuildOK(x, commits, repo.trusted, snap)
  BY <1>2, <1>3, <1>4, <1>5 DEF BuildOK
<1> QED BY <1>1, <1>6, BuildAlone

LEMMA StepGit ==
    ASSUME GitInv, [GitNext]_GitVars
    PROVE  GitInv'
<1>1. CASE \E t \in Trees : push(t)
  BY <1>1, PushInv
<1>2. CASE \E s \in Syncs : sync_repo(s) \/ git_fails(s) \/ SyncStep(s)
  BY <1>2, FetchInv, IndexInv, CommitInv DEF SyncStep
<1>3. CASE (\E n \in Names : create_spec(n) \/ delete_spec(n)) \/ delete_repo
  BY <1>3, EndpointsInv
<1>4. CASE \E b \in Builds : \/ \E n \in specs : resolve_pack_dir(b, n)
                             \/ rmtree(b) \/ replace(b) \/ extract_fails(b)
                             \/ build_from_pack(b) \/ launch_again(b)
  BY <1>4, ResolveInv, ExtractInv, BuiltInv
<1>5. CASE UNCHANGED GitVars
  BY <1>5 DEF GitVars, GitInv, CloneOK
<1> QED BY <1>1, <1>2, <1>3, <1>4, <1>5 DEF GitNext

-----------------------------------------------------------------------------
(* GitInv is an invariant of the synced repository.                        *)
THEOREM GitInvariant == GitSpec => []GitInv
<1>1. GitInit => GitInv
  BY InitGit
<1>2. GitInv /\ [GitNext]_GitVars => GitInv'
  BY StepGit
<1> QED BY <1>1, <1>2, PTL DEF GitSpec

(* index_packs: a row whose sync saw no other sync move the clone carries  *)
(* the lint and custom-code verdict of its indexed_sha, however many syncs *)
(* of the repository overlap.                                              *)
THEOREM VerdictIsPinned == GitSpec => []PinnedVerdict
<1>1. ASSUME GitInv PROVE PinnedVerdict
  <2> SUFFICES ASSUME NEW n \in Names, packRows[n] # Gone, packRows[n].serial
               PROVE  /\ packRows[n].dir \in DOMAIN commits[packRows[n].sha]
                      /\ packRows[n].lint = CleanPack(commits[packRows[n].sha], packRows[n].dir)
    BY DEF PinnedVerdict, Present
  <2>1. RowOK(packRows[n], commits, repo.trusted)
    BY <1>1 DEF GitInv
  <2> QED BY <2>1 DEF RowOK, CleanPack
<1> QED BY <1>1, GitInvariant, PTL

(* resolve_pack_dir: a build that did not fall back to the live clone      *)
(* bundles the commit its row was pinned to, for any number of builds that *)
(* extract, replace and read the same snapshot.                            *)
THEOREM BuildsArePinned == GitSpec => []BuildsPinnedCommit
<1>1. ASSUME GitInv PROVE BuildsPinnedCommit
  BY <1>1 DEF GitInv, BuildOK, BuildsPinnedCommit, Content, ContentOf
<1> QED BY <1>1, GitInvariant, PTL

-----------------------------------------------------------------------------
(***************************************************************************)
(* Bundles.                                                                *)
(***************************************************************************)

Carrying == {"tarred", "writing", "written", "stored", "insert", "launched"}

(* The packs that lint and that a worker cannot load.                      *)
Unshipped(c) ==
    \/ c.engine = "rawreplay" /\ ~IsFile(c.files, Conf)
    \/ \E f \in c.files : f.link /\ f.path \in {Conf, c.replay.dataset}

(* What the checks of a merge have established of the contents parsed.     *)
Merges(ps, cs) ==
    /\ Distinct(Inputs(ps))
    /\ ~Collides(ordered(Inputs(ps)), cs)
    /\ \A i \in DOMAIN ps : Mergeable(cs[i]) /\ \E p \in Packs : cs[i] \in Contents[p]

ParsedOK(x) ==
    /\ x.packs \in Requests /\ x.order = Order(x.packs)
    /\ x.parsed = [i \in DOMAIN x.packs |-> x.parsed[i]]
    /\ Len(x.packs) = 1 => lint_pack(x.parsed[1])
    /\ Len(x.packs) > 1 => Merges(x.packs, x.parsed)

(* The bundle of the contents parsed and the contents then read.           *)
Bundled(ps, order, cs, read) ==
    LET ins == ordered(Inputs(ps))
    IN  IF Len(order) > 1
        THEN Bundle([i \in DOMAIN ins |-> ins[i].ns], "eventgen", MergedConf(ins, cs),
                    MergedFiles(ins, cs, read), NoReplay, NoMetrics)
        ELSE IF cs[1].engine = "metrics" THEN build_from_metrics_config(order[1], cs[1])
        ELSE SingleBundle(order[1], cs[1], read[1])

(* What a launch has in hand, from its gate on.                            *)
LaunchOK(x) ==
    /\ "pc" \in DOMAIN x
    /\ x.pc \in {"idle", "failed", "gated", "parsed"} \cup Carrying
    /\ x.pc = "gated" => DOMAIN x = {"pc", "packs", "est"} /\ x.packs \in Requests
    /\ x.pc = "parsed" => DOMAIN x = {"pc", "packs", "est", "order", "parsed"} /\ ParsedOK(x)
    /\ x.pc \in Carrying =>
         /\ {"packs", "order", "parsed", "digest", "read"} \subseteq DOMAIN x /\ ParsedOK(x)
         /\ x.digest = Bundled(x.packs, x.order, x.parsed, x.read)

(* What a worker was given is the bundle of its launch, which stays.       *)
WorkerOK(x, w) ==
    \/ w = Waiting
    \/ /\ x.pc = "launched"
       /\ w.state \in {"loaded", "unloadable"} => w.bundle = <<x.digest>>
       /\ w.state = "unloadable" => ~_load_pack(x.digest)

BundleInv ==
    /\ \A p \in Packs : dir[p] \in Contents[p]
    /\ DOMAIN dir = Packs /\ DOMAIN launch = Launches /\ DOMAIN worker = Launches
    /\ \A l \in Launches : LaunchOK(launch[l]) /\ WorkerOK(launch[l], worker[l])

-----------------------------------------------------------------------------
(* A pack's own bundle has what a worker looks for.                        *)
LEMMA SingleLoads ==
    ASSUME NEW p, NEW c, lint_pack(c), c.engine # "metrics", ~Unshipped(c)
    PROVE  _load_pack(SingleBundle(p, c, c))
<1> DEFINE raw == c.engine = "rawreplay"
           extra == IF raw THEN {DatasetPath(c)} ELSE {}
           fetched == IF raw /\ c.replay.dataset = None
                      THEN {[path |-> Fetched, data |-> "fetched"]} ELSE {}
           files == Members(_iter_pack_files(c, extra)) \cup fetched
           b == SingleBundle(p, c, c)
<1>1. /\ b.files = files /\ b.engine = c.engine
      /\ b.replay = IF raw THEN [dataset |-> DatasetPath(c), mode |-> c.replay.mode] ELSE NoReplay
  BY DEF SingleBundle, Bundle
<1>2. ASSUME NEW q, q = Conf \/ q \in extra, IsFile(c.files, q), q \in {Conf, c.replay.dataset}
      PROVE  IsFile(files, q)
  <2>1. PICK f \in c.files : f.path = q
    BY <1>2 DEF IsFile, At
  <2>2. ~f.link
    BY <1>2, <2>1 DEF Unshipped
  <2>3. f \in _iter_pack_files(c, extra)
    BY <1>2, <2>1, <2>2 DEF _iter_pack_files, OwnFiles
  <2> DEFINE m == [path |-> f.path, data |-> f.data]
  <2>4. m \in files /\ m.path = q
    BY <2>1, <2>3 DEF Members
  <2> HIDE DEF files, m
  <2> QED BY <2>4 DEF IsFile, At
<1>3. IsFile(c.files, Conf)
  <2>1. CASE c.engine = "rawreplay"
    BY <2>1 DEF Unshipped
  <2>2. CASE c.engine # "rawreplay"
    <3>1. lint_eventgen(c)
      BY <2>2 DEF lint_pack
    <3> QED BY <3>1 DEF lint_eventgen
  <2> QED BY <2>1, <2>2
<1>4. IsFile(files, Conf)
  BY <1>2, <1>3
<1>5. ASSUME raw PROVE b.replay.dataset = DatasetPath(c) /\ IsFile(files, DatasetPath(c))
  <2>1. b.replay.dataset = DatasetPath(c)
    BY <1>1, <1>5
  <2>2. parse_replay_config(c)
    BY <1>5 DEF lint_pack
  <2>3. CASE c.replay.dataset # None
    <3>1. DatasetPath(c) = c.replay.dataset /\ IsFile(c.files, c.replay.dataset)
      BY <2>2, <2>3 DEF parse_replay_config, DatasetPath
    <3>2. c.replay.dataset \in extra
      BY <1>5, <3>1
    <3> HIDE DEF files, extra
    <3> QED BY <1>2, <2>1, <3>1, <3>2
  <2>4. CASE c.replay.dataset = None
    <3> DEFINE m == [path |-> Fetched, data |-> "fetched"]
    <3>1. DatasetPath(c) = Fetched
      BY <2>4 DEF DatasetPath
    <3>2. m \in files /\ m.path = Fetched
      BY <1>5, <2>4
    <3> HIDE DEF files, m
    <3> QED BY <2>1, <3>1, <3>2 DEF IsFile, At
  <2> QED BY <2>3, <2>4
<1> HIDE DEF files, b
<1>6. b.replay # NoReplay => IsFile(b.files, b.replay.dataset)
  BY <1>1, <1>5
<1>7. _load_pack(b)
  BY <1>1, <1>4, <1>6 DEF _load_pack
<1> QED BY <1>7 DEF b

(* So has the bundle of a metrics pack.                                    *)
LEMMA MetricsLoads ==
    ASSUME NEW p, NEW c, lint_pack(c), c.engine = "metrics"
    PROVE  _load_pack(build_from_metrics_config(p, c))
<1> DEFINE b == build_from_metrics_config(p, c)
           m == [path |-> Conf, data |-> "stub"]
<1>1. b.files = {m} /\ b.engine = "metrics" /\ b.replay = NoReplay /\ b.metricgen = c.metricgen
  BY DEF build_from_metrics_config, Bundle
<1>2. c.metricgen.metrics # <<>>
  BY DEF lint_pack, lint_metrics_config
<1>3. m.path = Conf
  OBVIOUS
<1> HIDE DEF b, m
<1>4. IsFile(b.files, Conf)
  BY <1>1, <1>3 DEF IsFile, At
<1>5. _load_pack(b)
  BY <1>1, <1>2, <1>4 DEF _load_pack
<1> QED BY <1>5 DEF b

(* A merged bundle always has a conf.                                      *)
LEMMA MergedLoads ==
    ASSUME NEW name, NEW conf, NEW ins, NEW cs, NEW now
    PROVE  _load_pack(Bundle(name, "eventgen", conf, MergedFiles(ins, cs, now), NoReplay, NoMetrics))
<1> DEFINE files == MergedFiles(ins, cs, now)
           b == Bundle(name, "eventgen", conf, files, NoReplay, NoMetrics)
           m == [path |-> Conf, data |-> "merged"]
<1>1. m \in files /\ m.path = Conf
  BY DEF MergedFiles
<1> HIDE DEF files, m
<1>2. b.files = files /\ b.engine = "eventgen" /\ b.replay = NoReplay
  BY DEF Bundle
<1> HIDE DEF b
<1>3. IsFile(b.files, Conf)
  BY <1>1, <1>2 DEF IsFile, At
<1>4. _load_pack(b)
  BY <1>2, <1>3 DEF _load_pack
<1> QED BY <1>4 DEF b, files

-----------------------------------------------------------------------------
(* Operators of the merge.                                                 *)

(* A finite set listed: each member once.                                  *)
LEMMA Listed ==
    ASSUME NEW S, IsFiniteSet(S)
    PROVE  SetToSeq(S) \in [1 .. Cardinality(S) -> S] /\ IsInjective(SetToSeq(S))
<1>1. PICK f : f \in Bijection(1 .. Cardinality(S), S)
  BY FS_CardinalityType DEF ExistsBijection
<1>2. f \in [1 .. Cardinality(S) -> S] /\ IsInjective(f)
  BY <1>1, Zenon DEF Bijection, Injection
<1> QED BY <1>2, Zenon DEF SetToSeq

(* What the first n places of a list hold.                                 *)
FirstOf(f, n) == {f[i] : i \in 1 .. n}

(* The members of a list of n: n of them only if none is repeated.         *)
LEMMA Counted ==
    ASSUME NEW n \in Nat, NEW f
    PROVE  /\ IsFiniteSet(FirstOf(f, n))
           /\ Cardinality(FirstOf(f, n)) = n <=> \A i, j \in 1 .. n : f[i] = f[j] => i = j
<1> DEFINE T == FirstOf(f, n)
           g == [i \in 1 .. n |-> f[i]]
<1>1. IsFiniteSet(1 .. n) /\ Cardinality(1 .. n) = n
  BY FS_Interval
<1>2. g \in Surjection(1 .. n, T)
  BY DEF Surjection, FirstOf
<1>3. IsFiniteSet(T) /\ (Cardinality(T) = n <=> g \in Injection(1 .. n, T))
  <2> HIDE DEF T, g
  <2> QED BY <1>1, <1>2, FS_Surjection
<1>4. g \in Injection(1 .. n, T) <=> \A i, j \in 1 .. n : f[i] = f[j] => i = j
  BY DEF Injection, IsInjective, FirstOf
<1> QED BY <1>3, <1>4

(* A request whose namespaces differ names no pack twice, and its inputs   *)
(* are listed each once, whatever the order.                               *)
LEMMA DistinctInputs ==
    ASSUME NEW ps \in Seq(Packs), Distinct(Inputs(ps))
    PROVE  /\ \A i, j \in DOMAIN ps : ps[i] = ps[j] => i = j
           /\ ordered(Inputs(ps)) \in [DOMAIN ps -> ToSet(Inputs(ps))]
           /\ \A i, j \in DOMAIN ps :
                 ordered(Inputs(ps))[i].ns = ordered(Inputs(ps))[j].ns => i = j
<1> DEFINE n == Len(ps)
           ins == Inputs(ps)
           ns == [i \in 1 .. n |-> ins[i].ns]
           nss == merge_pack_namespaces(ps)
<1>1. n \in Nat /\ DOMAIN ps = 1 .. n
  OBVIOUS
<1>2. /\ ins = [i \in 1 .. n |-> [ns |-> nss[i], pack |-> ps[i]]]
      /\ DOMAIN ins = 1 .. n /\ Len(ins) = n
      /\ \A i \in 1 .. n : ins[i].ns = nss[i] /\ ins[i].pack = ps[i]
  <2> HIDE DEF nss
  <2> QED BY <1>1 DEF Inputs, nss
<1> HIDE DEF n, ins, nss
<1>3. FirstOf(ns, n) = {ins[i].ns : i \in DOMAIN ins}
  BY <1>2 DEF FirstOf
<1>4. Cardinality(FirstOf(ns, n)) = n
  BY <1>2, <1>3 DEF Distinct, ins
<1>5. \A i, j \in 1 .. n : ns[i] = ns[j] => i = j
  <2> HIDE DEF ns
  <2> QED BY <1>1, <1>4, Counted
<1>6. \A i, j \in 1 .. n : ins[i].ns = ins[j].ns => i = j
  BY <1>5
<1>7. ASSUME NEW i \in 1 .. n, NEW j \in 1 .. n, ps[i] = ps[j] PROVE i = j
  <2> DEFINE base == [k \in DOMAIN ps |-> merge_namespace(NameOf[ps[k]])]
  <2>1. nss = [k \in DOMAIN ps |->
                 IF \E m \in DOMAIN ps : m # k /\ base[m] = base[k]
                 THEN Append(base[k], IdOf[ps[k]]) ELSE base[k]]
    BY DEF nss, merge_pack_namespaces
  <2>2. base[i] = base[j]
    BY <1>1, <1>7
  <2> HIDE DEF base
  <2>3. i # j => nss[i] = nss[j]
    BY <1>1, <1>7, <2>1, <2>2
  <2> QED BY <1>2, <1>6, <2>3
<1>8. /\ ToSet(ins) = {ins[i] : i \in 1 .. n}
      /\ IsFiniteSet(ToSet(ins)) /\ Cardinality(ToSet(ins)) = n
  <2>1. ToSet(ins) = {ins[i] : i \in 1 .. n}
    BY <1>2 DEF ToSet
  <2>2. \A i, j \in 1 .. n : ins[i] = ins[j] => i = j
    BY <1>6
  <2> HIDE DEF ns
  <2>3. ToSet(ins) = FirstOf(ins, n)
    BY <2>1 DEF FirstOf
  <2> QED BY <1>1, <2>1, <2>2, <2>3, Counted
<1>9. ordered(ins) \in [1 .. n -> ToSet(ins)] /\ IsInjective(ordered(ins))
  BY <1>8, Listed DEF ordered
<1>10. ASSUME NEW i \in 1 .. n, NEW j \in 1 .. n, ordered(ins)[i].ns = ordered(ins)[j].ns PROVE i = j
  <2>1. PICK a \in 1 .. n : ordered(ins)[i] = ins[a]
    BY <1>8, <1>9
  <2>2. PICK b \in 1 .. n : ordered(ins)[j] = ins[b]
    BY <1>8, <1>9
  <2>3. a = b
    BY <1>6, <1>10, <2>1, <2>2
  <2>4. ordered(ins)[i] = ordered(ins)[j]
    BY <2>1, <2>2, <2>3
  <2> QED BY <1>9, <2>4 DEF IsInjective
<1> QED BY <1>1, <1>7, <1>9, <1>10 DEF ins, n

(* Two requests for the same packs have the same inputs.                   *)
LEMMA SameInputs ==
    ASSUME NEW ps \in Seq(Packs), NEW qs \in Seq(Packs), ToSet(ps) = ToSet(qs),
           \A i, j \in DOMAIN ps : ps[i] = ps[j] => i = j,
           \A i, j \in DOMAIN qs : qs[i] = qs[j] => i = j
    PROVE  Len(ps) = Len(qs) /\ ToSet(Inputs(ps)) \subseteq ToSet(Inputs(qs))
<1>1. /\ Len(ps) \in Nat /\ DOMAIN ps = 1 .. Len(ps) /\ ToSet(ps) = {ps[i] : i \in 1 .. Len(ps)}
      /\ Len(qs) \in Nat /\ DOMAIN qs = 1 .. Len(qs) /\ ToSet(qs) = {qs[i] : i \in 1 .. Len(qs)}
  BY DEF ToSet
<1>2. Cardinality(ToSet(ps)) = Len(ps) /\ Cardinality(ToSet(qs)) = Len(qs)
  <2>1. ToSet(ps) = FirstOf(ps, Len(ps)) /\ ToSet(qs) = FirstOf(qs, Len(qs))
    BY <1>1 DEF FirstOf
  <2> QED BY <1>1, <2>1, Counted
<1>3. ASSUME NEW i \in DOMAIN ps PROVE Inputs(ps)[i] \in ToSet(Inputs(qs))
  <2>1. PICK j \in DOMAIN qs : qs[j] = ps[i]
    BY <1>3 DEF ToSet
  <2> DEFINE B(rs) == [k \in DOMAIN rs |-> merge_namespace(NameOf[rs[k]])]
  <2>2. (\E a \in DOMAIN ps : a # i /\ B(ps)[a] = B(ps)[i]) <=> (\E a \in DOMAIN qs : a # j /\ B(qs)[a] = B(qs)[j])
    <3>1. ASSUME NEW a \in DOMAIN ps, a # i, B(ps)[a] = B(ps)[i]
          PROVE  \E b \in DOMAIN qs : b # j /\ B(qs)[b] = B(qs)[j]
      <4>1. PICK b \in DOMAIN qs : qs[b] = ps[a]
        BY <3>1 DEF ToSet
      <4>2. qs[b] # qs[j]
        BY <2>1, <3>1, <4>1
      <4>3. B(qs)[b] = B(qs)[j]
        BY <2>1, <3>1, <4>1
      <4> QED BY <4>2, <4>3
    <3>2. ASSUME NEW a \in DOMAIN qs, a # j, B(qs)[a] = B(qs)[j]
          PROVE  \E b \in DOMAIN ps : b # i /\ B(ps)[b] = B(ps)[i]
      <4>1. PICK b \in DOMAIN ps : ps[b] = qs[a]
        BY <3>2 DEF ToSet
      <4>2. ps[b] # ps[i]
        BY <2>1, <3>2, <4>1
      <4>3. B(ps)[b] = B(ps)[i]
        BY <2>1, <3>2, <4>1
      <4> QED BY <4>2, <4>3
    <3> QED BY <3>1, <3>2
  <2>3. B(ps)[i] = B(qs)[j]
    BY <2>1
  <2>4. /\ merge_pack_namespaces(ps)[i] = IF \E a \in DOMAIN ps : a # i /\ B(ps)[a] = B(ps)[i]
                                          THEN Append(B(ps)[i], IdOf[ps[i]]) ELSE B(ps)[i]
        /\ merge_pack_namespaces(qs)[j] = IF \E a \in DOMAIN qs : a # j /\ B(qs)[a] = B(qs)[j]
                                          THEN Append(B(qs)[j], IdOf[qs[j]]) ELSE B(qs)[j]
    BY DEF merge_pack_namespaces
  <2> HIDE DEF B
  <2>5. merge_pack_namespaces(ps)[i] = merge_pack_namespaces(qs)[j]
    BY <2>1, <2>2, <2>3, <2>4
  <2>6. Inputs(ps)[i] = Inputs(qs)[j] /\ j \in DOMAIN Inputs(qs)
    BY <2>1, <2>5 DEF Inputs
  <2> QED BY <2>6 DEF ToSet
<1>4. DOMAIN Inputs(ps) = DOMAIN ps
  BY DEF Inputs
<1>5. \A x \in ToSet(Inputs(ps)) : x \in ToSet(Inputs(qs))
  BY <1>3, <1>4 DEF ToSet
<1> QED BY <1>2, <1>5

(* A file right under samples/ is flattened to its name.                   *)
LEMMA FlattenOne ==
    ASSUME NEW s
    PROVE  FlattenSeq(<<s>>) = s
<1> DEFINE g == [i \in 1 .. 1 |-> s]
           R(f) == f = [i \in 1 .. 1 |-> IF i = 1 THEN <<s>>[i] ELSE f[i - 1] \o <<s>>[i]]
<1>1. Len(<<s>>) = 1
  OBVIOUS
<1>2. R(g)
  OBVIOUS
<1>3. R(CHOOSE f : R(f))
  <2> HIDE DEF R
  <2> QED BY <1>2, Zenon
<1>4. FlattenSeq(<<s>>) = (CHOOSE f : R(f))[1]
  BY <1>1 DEF FlattenSeq
<1>5. \A f : R(f) => f[1] = s
  OBVIOUS
<1> HIDE DEF R
<1> QED BY <1>3, <1>4, <1>5

(* One name put before another is read back.                               *)
LEMMA Prefixed ==
    ASSUME NEW a, NEW b, NEW S, NEW s \in Seq(S), NEW t \in Seq(S), <<a>> \o s = <<b>> \o t
    PROVE  a = b /\ s = t
<1> DEFINE x == <<a>> \o s
           y == <<b>> \o t
<1>1. x = y
  OBVIOUS
<1>2. x[1] = a /\ y[1] = b
  OBVIOUS
<1>3. Len(x) = Len(s) + 1 /\ Len(y) = Len(t) + 1 /\ Len(s) \in Nat /\ Len(t) \in Nat
  OBVIOUS
<1>4. \A i \in 1 .. Len(s) : x[i + 1] = s[i]
  OBVIOUS
<1>5. \A i \in 1 .. Len(t) : y[i + 1] = t[i]
  OBVIOUS
<1> HIDE DEF x, y
<1>6. Len(s) = Len(t)
  BY <1>1, <1>3
<1>7. \A i \in 1 .. Len(s) : s[i] = t[i]
  BY <1>1, <1>4, <1>5, <1>6
<1> QED BY <1>1, <1>2, <1>6, <1>7

(* The paths the pack's own files have are not of samples/.                *)
LEMMA OwnPaths ==
    /\ Conf[1] # Samples /\ Len(PackYaml) = 1
    /\ \A x : <<Samples, x>> # Conf /\ <<Samples, x>> \notin OwnFiles
    /\ \A p \in OwnFiles : ~UnderSamples(p)
<1>1. Conf[1] # Samples /\ Len(PackYaml) = 1
  <2>1. Conf[1][1][1] = "default" /\ Samples[1][1] = "samples"
    BY DEF Conf, Samples
  <2> QED BY <2>1 DEF PackYaml
<1>2. \A x : <<Samples, x>>[1] = Samples /\ Len(<<Samples, x>>) = 2
  OBVIOUS
<1>3. \A x : <<Samples, x>> # Conf /\ <<Samples, x>> # PackYaml
  <2> SUFFICES ASSUME NEW x PROVE <<Samples, x>> # Conf /\ <<Samples, x>> # PackYaml
    OBVIOUS
  <2> DEFINE p == <<Samples, x>>
  <2>1. p[1] = Samples /\ Len(p) = 2
    OBVIOUS
  <2> HIDE DEF p
  <2>2. p # Conf /\ p # PackYaml
    BY <1>1, <2>1
  <2> QED BY <2>2 DEF p
<1>4. ~UnderSamples(Conf) /\ ~UnderSamples(PackYaml)
  BY <1>1 DEF UnderSamples
<1> QED BY <1>1, <1>3, <1>4 DEF OwnFiles

(* A stanza in the merged conf.                                            *)
LEMMA MergedStanza ==
    ASSUME NEW ins, NEW cs, NEW i \in DOMAIN ins, NEW s \in DOMAIN cs[i].stanzas,
           \A j \in DOMAIN ins : \A t \in DOMAIN cs[j].stanzas : t \in FileName,
           \A j, k \in DOMAIN ins : ins[j].ns = ins[k].ns => j = k
    PROVE  LET e == MergedConf(ins, cs)[<<ins[i].ns>> \o s]
           IN  /\ e.own = _merged_stanza_options(cs[i].stanzas[s], cs[i].globals,
                                                 _pack_sample_map(cs[i], ins[i].ns))
               /\ e.globals = [count |-> 0, token |-> None]
<1> DEFINE Of(j) == {<< <<ins[j].ns>> \o t, j, t>> : t \in DOMAIN cs[j].stanzas}
           all == UNION {Of(j) : j \in DOMAIN ins}
           n == <<ins[i].ns>> \o s
           V(t) == [own |-> _merged_stanza_options(cs[t[2]].stanzas[t[3]], cs[t[2]].globals,
                                                   _pack_sample_map(cs[t[2]], ins[t[2]].ns)),
                    globals |-> [count |-> 0, token |-> None]]
           c == CHOOSE u \in all : u[1] = n
           me == <<n, i, s>>
<1>1. me \in all /\ me[1] = n /\ me[2] = i /\ me[3] = s
  OBVIOUS
<1>2. ASSUME NEW u \in all, u[1] = n PROVE u[2] = i /\ u[3] = s
  <2>1. PICK j \in DOMAIN ins : \E t \in DOMAIN cs[j].stanzas : u = << <<ins[j].ns>> \o t, j, t>>
    BY <1>2
  <2>2. PICK t \in DOMAIN cs[j].stanzas : u = << <<ins[j].ns>> \o t, j, t>>
    BY <2>1
  <2>3. u[1] = <<ins[j].ns>> \o t /\ u[2] = j /\ u[3] = t
    BY <2>2
  <2>4. s \in Seq(Seq(STRING)) /\ t \in Seq(Seq(STRING))
    BY DEF FileName
  <2>5. ins[j].ns = ins[i].ns /\ t = s
    <3>1. PICK a, b : a = ins[j].ns /\ b = ins[i].ns
      OBVIOUS
    <3>2. <<a>> \o t = <<b>> \o s
      BY <1>2, <2>3, <3>1
    <3>3. a = b /\ t = s
      BY <2>4, <3>2, Prefixed
    <3> QED BY <3>1, <3>3
  <2> QED BY <2>3, <2>5
<1> HIDE DEF all
<1>3. c \in all /\ c[1] = n
  BY <1>1
<1>4. c[2] = i /\ c[3] = s
  BY <1>2, <1>3
<1>5. MergedConf(ins, cs)[n] = V(c)
  <2>1. MergedConf(ins, cs) = [x \in {t[1] : t \in all} |-> V(CHOOSE u \in all : u[1] = x)]
    BY DEF MergedConf, all
  <2>2. n \in {t[1] : t \in all}
    BY <1>1
  <2> HIDE DEF V, n
  <2> QED BY <2>1, <2>2
<1> HIDE DEF c
<1>6. V(c).own = _merged_stanza_options(cs[i].stanzas[s], cs[i].globals, _pack_sample_map(cs[i], ins[i].ns))
  BY <1>4
<1>7. V(c).globals = [count |-> 0, token |-> None]
  OBVIOUS
<1> HIDE DEF V
<1> QED BY <1>5, <1>6, <1>7

(* With its pack's globals folded in, a stanza has its effective options,  *)
(* its file references renamed.                                            *)
LEMMA FoldedOptions ==
    ASSUME NEW o, NEW g, NEW map, {"count", "sampleFile", "token", "mode"} \subseteq DOMAIN o
    PROVE  LET e == Effective(o, g)
               z == Effective(_merged_stanza_options(o, g, map), [count |-> 0, token |-> None])
           IN  z.count = e.count /\ z.mode = e.mode /\ z.token = _rewrite_sample_ref(e.token, map)
<1> DEFINE e == Effective(o, g)
           w == [e EXCEPT !.sampleFile = _rewrite_sample_ref(@, map)]
           m == [w EXCEPT !.token = _rewrite_sample_ref(@, map)]
           G == [count |-> 0, token |-> None]
           z == Effective(m, G)
<1>1. DOMAIN e = DOMAIN o
  BY DEF Effective
<1>2. m = _merged_stanza_options(o, g, map)
  BY DEF _merged_stanza_options
<1> HIDE DEF e
<1>3. DOMAIN w = DOMAIN o /\ w.count = e.count /\ w.mode = e.mode /\ w.token = e.token
  BY <1>1
<1> HIDE DEF w
<1>4. DOMAIN m = DOMAIN o /\ m.count = e.count /\ m.mode = e.mode /\ m.token = _rewrite_sample_ref(e.token, map)
  BY <1>3
<1> HIDE DEF m
<1>5. /\ z = [m EXCEPT !.count = IF @ = 0 THEN 0 ELSE @, !.token = IF @ = None THEN None ELSE @]
  BY DEF Effective
<1>6. z.count = m.count /\ z.mode = m.mode /\ z.token = m.token
  BY <1>4, <1>5
<1> QED BY <1>2, <1>4, <1>6 DEF e

(* A tree with one file at a path has its data there.                      *)
LEMMA DataFound ==
    ASSUME NEW files, NEW f \in files, \A g \in files : g.path = f.path => g.data = f.data
    PROVE  DataAt(files, f.path) = f.data
<1> DEFINE S == At(files, f.path)
           h == CHOOSE g \in S : TRUE
<1>1. f \in S
  BY DEF At
<1>2. \A g \in S : g.data = f.data
  BY DEF At
<1> HIDE DEF S
<1>3. h \in S
  BY <1>1
<1>4. DataAt(files, f.path) = h.data
  BY <1>1 DEF DataAt, IsFile, S
<1> QED BY <1>2, <1>3, <1>4

(* The sample map of a pack: every shipped sample, under its flat name.    *)
LEMMA SampleMapped ==
    ASSUME NEW c, NEW ns
    PROVE  /\ \A m \in _pack_sample_map(c, ns) : m.to = MergedName(ns, m.from)
           /\ \A f \in c.files : ~f.link /\ UnderSamples(f.path) =>
                 \E m \in _pack_sample_map(c, ns) : m.from = f.path /\ m.to = MergedName(ns, f.path)
<1> DEFINE F == {g \in _iter_pack_files(c, {}) : UnderSamples(g.path)}
<1>1. _pack_sample_map(c, ns) = {[from |-> f.path, to |-> MergedName(ns, f.path)] : f \in F}
  BY DEF _pack_sample_map
<1>2. \A f \in c.files : ~f.link /\ UnderSamples(f.path) => f \in F
  BY DEF _iter_pack_files
<1> HIDE DEF F
<1>3. ASSUME NEW m \in _pack_sample_map(c, ns) PROVE m.to = MergedName(ns, m.from)
  <2>1. PICK f \in F : m = [from |-> f.path, to |-> MergedName(ns, f.path)]
    BY <1>1, <1>3
  <2> QED BY <2>1
<1>4. ASSUME NEW f \in c.files, ~f.link, UnderSamples(f.path)
      PROVE  \E m \in _pack_sample_map(c, ns) : m.from = f.path /\ m.to = MergedName(ns, f.path)
  <2> DEFINE m == [from |-> f.path, to |-> MergedName(ns, f.path)]
  <2>1. m \in _pack_sample_map(c, ns)
    BY <1>1, <1>2, <1>4
  <2>2. m.from = f.path /\ m.to = MergedName(ns, f.path)
    OBVIOUS
  <2> HIDE DEF m
  <2> QED BY <2>1, <2>2
<1> QED BY <1>3, <1>4

(* A merged sample is the file it was copied from: no other sample has its *)
(* flat name, and the conf lies elsewhere.                                 *)
LEMMA MergedSample ==
    ASSUME NEW ins, NEW cs, NEW now, ~Collides(ins, cs),
           NEW i \in DOMAIN ins, NEW m \in _pack_sample_map(cs[i], ins[i].ns)
    PROVE  DataAt(MergedFiles(ins, cs, now), <<Samples, m.to>>) = DataAt(now[i].files, m.from)
<1> DEFINE Copy(j, k) == [path |-> <<Samples, k.to>>, data |-> DataAt(now[j].files, k.from)]
           conf == [path |-> Conf, data |-> "merged"]
           files == MergedFiles(ins, cs, now)
           f == Copy(i, m)
<1>1. files = {conf} \cup UNION {{Copy(j, k) : k \in _pack_sample_map(cs[j], ins[j].ns)} : j \in DOMAIN ins}
  BY DEF MergedFiles
<1>2. f \in files /\ f.path = <<Samples, m.to>> /\ f.data = DataAt(now[i].files, m.from)
  <2>1. f.path = <<Samples, m.to>> /\ f.data = DataAt(now[i].files, m.from)
    OBVIOUS
  <2>2. f \in {Copy(i, k) : k \in _pack_sample_map(cs[i], ins[i].ns)}
    OBVIOUS
  <2> HIDE DEF Copy, files, conf
  <2> QED BY <1>1, <2>1, <2>2
<1>3. ASSUME NEW g \in files, g.path = f.path PROVE g.data = f.data
  <2>1. conf.path # f.path
    BY <1>2, OwnPaths
  <2>2. PICK j \in DOMAIN ins : \E k \in _pack_sample_map(cs[j], ins[j].ns) : g = Copy(j, k)
    <3> HIDE DEF Copy, conf, files, f
    <3> QED BY <1>1, <1>3, <2>1
  <2>3. PICK k \in _pack_sample_map(cs[j], ins[j].ns) : g = Copy(j, k)
    BY <2>2
  <2>4. <<Samples, k.to>> = <<Samples, m.to>> /\ g.data = DataAt(now[j].files, k.from)
    BY <1>2, <1>3, <2>3
  <2>5. k.to = m.to
    BY <2>4
  <2>6. j = i /\ k.from = m.from
    BY <2>5 DEF Collides
  <2> QED BY <1>2, <2>4, <2>6
<1> HIDE DEF files, f
<1>4. DataAt(files, f.path) = f.data
  BY <1>2, <1>3, DataFound
<1> QED BY <1>2, <1>4 DEF files

(* A file an eventgen pack's own bundle has is one of its own files or a   *)
(* sample the merge maps.                                                  *)
LEMMA AloneFile ==
    ASSUME NEW p, NEW c, c.engine = "eventgen", \A f, g \in c.files : f.path = g.path => f = g,
           NEW q, q \notin OwnFiles, NEW ns,
           DataAt(SingleBundle(p, c, c).files, q) # "missing"
    PROVE  /\ UnderSamples(q) /\ DataAt(SingleBundle(p, c, c).files, q) = DataAt(c.files, q)
           /\ \E m \in _pack_sample_map(c, ns) : m.from = q /\ m.to = MergedName(ns, q)
<1> DEFINE files == SingleBundle(p, c, c).files
           M(f) == [path |-> f.path, data |-> f.data]
           own == _iter_pack_files(c, {})
<1>1. files = {M(f) : f \in own}
  BY DEF SingleBundle, Bundle, Members
<1>2. own \subseteq c.files
  BY DEF _iter_pack_files
<1> HIDE DEF files, own
<1>3. PICK h \in files : h.path = q
  BY DEF DataAt, IsFile, At, files
<1>4. PICK f \in own : h = M(f)
  BY <1>1, <1>3
<1>5. f \in c.files /\ f.path = q /\ ~f.link /\ UnderSamples(q)
  BY <1>2, <1>3, <1>4 DEF own, _iter_pack_files
<1>6. DataAt(c.files, q) = f.data
  BY <1>5, DataFound
<1>7. DataAt(files, q) = h.data
  <2>1. ASSUME NEW g \in files, g.path = h.path PROVE g.data = h.data
    <3>1. PICK k \in own : g = M(k)
      BY <1>1, <2>1
    <3>2. k = f
      BY <1>2, <1>3, <1>4, <1>5, <2>1, <3>1
    <3> QED BY <1>4, <3>1, <3>2
  <2> QED BY <1>3, <2>1, DataFound
<1>8. h.data = f.data
  BY <1>4
<1> QED BY <1>5, <1>6, <1>7, <1>8, SampleMapped DEF files

(* A reference to a mapped sample is renamed to its flat name.             *)
LEMMA RefRenamed ==
    ASSUME NEW c, NEW ns, NEW m \in _pack_sample_map(c, ns), UnderSamples(m.from), m.from # None
    PROVE  _rewrite_sample_ref(m.from, _pack_sample_map(c, ns)) = <<Samples, m.to>>
<1> DEFINE hits == {k \in _pack_sample_map(c, ns) : k.from = m.from}
           h == CHOOSE k \in hits : TRUE
<1>1. m \in hits /\ \A k \in hits : k.to = m.to
  BY SampleMapped
<1>2. m.from[1] = Samples
  BY DEF UnderSamples
<1>3. _rewrite_sample_ref(m.from, _pack_sample_map(c, ns)) = <<Samples, h.to>>
  BY <1>1, <1>2 DEF _rewrite_sample_ref
<1> HIDE DEF hits
<1>4. h \in hits
  BY <1>1
<1> QED BY <1>1, <1>3, <1>4

-----------------------------------------------------------------------------
(* A launch that moves alone, while its worker waits.                      *)
LEMMA LaunchMoves ==
    ASSUME BundleInv, NEW l \in Launches, NEW x, Goto(l, x), worker' = worker, dir' = dir,
           launch[l].pc # "launched", LaunchOK(x)
    PROVE  BundleInv'
<1>1. /\ DOMAIN launch' = Launches /\ launch'[l] = x
      /\ \A k \in Launches \ {l} : launch'[k] = launch[k]
  BY DEF Goto, BundleInv
<1>2. worker[l] = Waiting
  BY DEF BundleInv, WorkerOK
<1> QED BY <1>1, <1>2 DEF BundleInv, WorkerOK

(* A launch that fails.                                                    *)
LEMMA LaunchFails ==
    ASSUME BundleInv, NEW l \in Launches, Fail(l), worker' = worker, dir' = dir, launch[l].pc # "launched"
    PROVE  BundleInv'
<1> DEFINE x == [pc |-> "failed"]
<1>1. Goto(l, x)
  BY DEF Fail
<1>2. LaunchOK(x)
  BY DEF LaunchOK, Carrying
<1> HIDE DEF x
<1> QED BY <1>1, <1>2, LaunchMoves

(* A launch that only goes on keeps what it has built.                     *)
LEMMA LaunchGoes ==
    ASSUME NEW x, NEW y, LaunchOK(x), x.pc \in Carrying, y.pc \in Carrying,
           DOMAIN x \subseteq DOMAIN y, y.digest = x.digest, y.read = x.read, y.parsed = x.parsed,
           y.packs = x.packs, y.order = x.order
    PROVE  LaunchOK(y)
  BY DEF LaunchOK, ParsedOK, Carrying

(* The gate.                                                               *)
LEMMA GateOK ==
    ASSUME BundleInv, NEW l \in Launches, NEW ps \in Requests, gate(l, ps)
    PROVE  BundleInv'
<1>1. launch[l].pc = "idle" /\ worker' = worker /\ dir' = dir
  BY DEF gate
<1>2. CASE Fail(l)
  BY <1>1, <1>2, LaunchFails
<1>3. CASE ~Fail(l)
  <2>1. PICK e : Goto(l, [pc |-> "gated", packs |-> ps, est |-> e])
    BY <1>3 DEF gate
  <2> DEFINE x == [pc |-> "gated", packs |-> ps, est |-> e]
  <2>2. LaunchOK(x)
    BY DEF LaunchOK, Carrying
  <2> HIDE DEF x
  <2> QED BY <1>1, <2>1, <2>2, LaunchMoves DEF x
<1> QED BY <1>2, <1>3

(* The order of a request lists packs of it, one for each of its places.   *)
LEMMA OrderOf ==
    ASSUME NEW ps \in Requests, Len(ps) > 1 => Distinct(Inputs(ps))
    PROVE  /\ ps \in Seq(Packs) /\ Len(ps) \in Nat \ {0} /\ DOMAIN ps = 1 .. Len(ps)
           /\ DOMAIN Order(ps) = 1 .. Len(ps) /\ Len(Order(ps)) = Len(ps)
           /\ Len(ps) > 1 => \A i \in DOMAIN ps : Order(ps)[i] \in Packs
<1>1. ps \in Seq(Packs) /\ ps # <<>>
  BY BundleAssumption
<1>2. Len(ps) \in Nat \ {0} /\ DOMAIN ps = 1 .. Len(ps)
  BY <1>1
<1>3. PICK h : h = ordered(Inputs(ps))
  OBVIOUS
<1>4. Order(ps) = [i \in 1 .. Len(ps) |-> h[i].pack]
  BY <1>2, <1>3 DEF Order
<1>5. DOMAIN Order(ps) = 1 .. Len(ps) /\ Len(Order(ps)) = Len(ps)
  BY <1>2, <1>4
<1>6. ASSUME Len(ps) > 1, NEW i \in DOMAIN ps PROVE Order(ps)[i] \in Packs
  <2>1. h[i] \in ToSet(Inputs(ps))
    BY <1>1, <1>3, <1>6, DistinctInputs
  <2>2. PICK j \in DOMAIN ps : h[i] = Inputs(ps)[j]
    BY <2>1 DEF ToSet, Inputs
  <2>3. Inputs(ps)[j].pack = ps[j]
    BY DEF Inputs
  <2>4. ps[j] \in Packs
    BY <1>1, <1>2
  <2> QED BY <1>2, <1>4, <2>2, <2>3, <2>4
<1> QED BY <1>1, <1>2, <1>5, <1>6

(* The parse: what is parsed alone has passed the lint, what is to be      *)
(* merged every check of the merge.                                        *)
LEMMA ParseOK ==
    ASSUME BundleInv, NEW l \in Launches, parse(l)
    PROVE  BundleInv'
<1>1. launch[l].pc = "gated" /\ worker' = worker /\ dir' = dir /\ LaunchOK(launch[l])
  BY DEF parse, BundleInv
<1>2. CASE Fail(l)
  BY <1>1, <1>2, LaunchFails
<1>3. CASE ~Fail(l)
  <2> DEFINE q == launch[l]
  <2>1. PICK ps, cs :
            /\ ps = Order(q.packs) /\ cs = Now(ps)
            /\ Len(ps) = 1 => lint_pack(cs[1])
            /\ Len(ps) > 1 => /\ Distinct(Inputs(q.packs))
                              /\ \A i \in DOMAIN cs : Mergeable(cs[i])
                              /\ ~Collides(ordered(Inputs(q.packs)), cs)
            /\ Goto(l, With([q EXCEPT !.pc = "parsed"], [order |-> ps, parsed |-> cs]))
    BY <1>3 DEF parse
  <2> DEFINE f == [q EXCEPT !.pc = "parsed"]
             g == [order |-> ps, parsed |-> cs]
             x == With(f, g)
  <2>2. DOMAIN f = {"pc", "packs", "est"} /\ f.pc = "parsed" /\ DOMAIN g = {"order", "parsed"}
        /\ g.order = ps /\ g.parsed = cs /\ f.packs = q.packs /\ q.packs \in Requests
    BY <1>1 DEF LaunchOK
  <2> HIDE DEF f, g
  <2>3. /\ DOMAIN x = {"pc", "packs", "est", "order", "parsed"}
        /\ x.pc = "parsed" /\ x.packs = q.packs /\ x.order = ps /\ x.parsed = cs
    BY <2>2 DEF With
  <2>4. Len(ps) = Len(q.packs) /\ DOMAIN ps = DOMAIN q.packs
    <3>1. q.packs \in Seq(Packs) /\ q.packs # <<>>
      BY <2>2, BundleAssumption
    <3>2. Len(q.packs) \in Nat \ {0} /\ DOMAIN q.packs = 1 .. Len(q.packs)
      BY <3>1
    <3>3. \E h : ps = [i \in DOMAIN q.packs |-> h[i].pack]
      BY <2>1 DEF Order
    <3>4. PICK h : ps = [i \in 1 .. Len(q.packs) |-> h[i].pack]
      BY <3>2, <3>3
    <3> QED BY <3>2, <3>4
  <2>5. DOMAIN cs = DOMAIN q.packs /\ cs = [i \in DOMAIN q.packs |-> cs[i]]
    BY <2>1, <2>4 DEF Now
  <2>6. ASSUME Len(q.packs) > 1 PROVE Merges(q.packs, cs)
    <3>1. \A i \in DOMAIN q.packs : ps[i] \in Packs
      BY <2>1, <2>2, <2>4, <2>6, OrderOf
    <3>2. \A i \in DOMAIN q.packs : cs[i] = dir[ps[i]] /\ dir[ps[i]] \in Contents[ps[i]]
      BY <2>1, <2>4, <3>1 DEF Now, BundleInv
    <3>3. \A i \in DOMAIN q.packs : \E p \in Packs : cs[i] \in Contents[p]
      BY <3>1, <3>2
    <3>4. Len(ps) > 1
      BY <2>4, <2>6
    <3> QED BY <2>1, <2>5, <3>3, <3>4 DEF Merges
  <2> HIDE DEF x
  <2>7. ParsedOK(x)
    BY <2>1, <2>2, <2>3, <2>4, <2>5, <2>6 DEF ParsedOK
  <2>8. LaunchOK(x)
    BY <2>3, <2>7 DEF LaunchOK, Carrying
  <2>9. Goto(l, x)
    BY <2>1 DEF x, f, g
  <2> QED BY <1>1, <2>8, <2>9, LaunchMoves
<1> QED BY <1>2, <1>3

(* The build.                                                              *)
LEMMA TarOK ==
    ASSUME BundleInv, NEW l \in Launches, NEW hops, tar(l, hops)
    PROVE  BundleInv'
<1>1. launch[l].pc = "parsed" /\ worker' = worker /\ dir' = dir /\ LaunchOK(launch[l])
  BY DEF tar, BundleInv
<1>2. CASE Fail(l)
  BY <1>1, <1>2, LaunchFails
<1>3. CASE ~Fail(l)
  <2> DEFINE q == launch[l]
             now == Now(q.order)
             d == Built(l)
             pc == IF d \in DOMAIN path /\ inode[path[d]] = <<d>> THEN "stored" ELSE "tarred"
             e == ManifestEstimate(q.parsed)
  <2>1. /\ pc \in {"stored", "tarred"}
        /\ Goto(l, With([q EXCEPT !.pc = pc], [digest |-> d, read |-> now, manifest_est |-> e]))
    BY <1>3 DEF tar
  <2>2. d = Bundled(q.packs, q.order, q.parsed, now)
    BY DEF Built, Bundled
  <2> HIDE DEF d, pc, e
  <2> DEFINE f == [q EXCEPT !.pc = pc]
             g == [digest |-> d, read |-> now, manifest_est |-> e]
             x == With(f, g)
  <2>3. /\ DOMAIN f = {"pc", "packs", "est", "order", "parsed"}
        /\ f.pc = pc /\ f.packs = q.packs /\ f.order = q.order /\ f.parsed = q.parsed
        /\ DOMAIN g = {"digest", "read", "manifest_est"} /\ g.digest = d /\ g.read = now
    <3> HIDE DEF now
    <3> QED BY <1>1 DEF LaunchOK
  <2> HIDE DEF f, g, now
  <2>4. /\ DOMAIN x = DOMAIN f \cup DOMAIN g
        /\ x.pc = pc /\ x.packs = q.packs /\ x.order = q.order /\ x.parsed = q.parsed
        /\ x.digest = d /\ x.read = now
    BY <2>3 DEF With
  <2> HIDE DEF x
  <2>5. ParsedOK(x)
    BY <1>1, <2>4 DEF LaunchOK, ParsedOK
  <2>6. LaunchOK(x)
    BY <2>1, <2>2, <2>3, <2>4, <2>5 DEF LaunchOK, Carrying
  <2>7. Goto(l, x)
    BY <2>1 DEF x, f, g
  <2> QED BY <1>1, <2>6, <2>7, LaunchMoves
<1> QED BY <1>2, <1>3

(* A bundle of a directory that has stayed loads.                          *)
LEMMA BundledLoads ==
    ASSUME NEW x, ParsedOK(x), ~Unshipped(x.parsed[1])
    PROVE  _load_pack(Bundled(x.packs, x.order, x.parsed, x.parsed))
<1> DEFINE d == Bundled(x.packs, x.order, x.parsed, x.parsed)
<1>1. /\ Len(x.order) = Len(x.packs) /\ Len(x.packs) \in Nat \ {0}
      /\ ~(Len(x.order) > 1) => lint_pack(x.parsed[1])
  <2>1. /\ x.packs \in Requests /\ x.order = Order(x.packs)
        /\ Len(x.packs) > 1 => Distinct(Inputs(x.packs))
        /\ Len(x.packs) = 1 => lint_pack(x.parsed[1])
    BY DEF ParsedOK, Merges
  <2>2. Len(x.packs) \in Nat \ {0} /\ Len(x.order) = Len(x.packs)
    BY <2>1, OrderOf
  <2>3. ~(Len(x.order) > 1) => Len(x.packs) = 1
    <3>1. \A n \in Nat \ {0} : ~(n > 1) => n = 1
      OBVIOUS
    <3> QED BY <2>2, <3>1, Zenon
  <2> QED BY <2>1, <2>2, <2>3
<1>2. CASE Len(x.order) > 1
  <2>1. PICK name, conf, ins : d = Bundle(name, "eventgen", conf,
            MergedFiles(ins, x.parsed, x.parsed), NoReplay, NoMetrics)
    BY <1>2 DEF Bundled
  <2> QED BY <2>1, MergedLoads
<1>3. CASE ~(Len(x.order) > 1) /\ x.parsed[1].engine = "metrics"
  <2>1. d = build_from_metrics_config(x.order[1], x.parsed[1])
    BY <1>3 DEF Bundled
  <2> QED BY <1>1, <1>3, <2>1, MetricsLoads
<1>4. CASE ~(Len(x.order) > 1) /\ x.parsed[1].engine # "metrics"
  <2>1. d = SingleBundle(x.order[1], x.parsed[1], x.parsed[1])
    BY <1>4 DEF Bundled
  <2> QED BY <1>1, <1>4, <2>1, SingleLoads
<1> QED BY <1>2, <1>3, <1>4

(* Writing the file of the digest and finding its row: the launch goes on. *)
LEMMA StoreOK ==
    ASSUME BundleInv, NEW l \in Launches,
           open_tmp(l) \/ write_tmp(l) \/ replace_tmp(l) \/ find_row(l) \/ insert_row(l)
    PROVE  BundleInv'
<1> DEFINE q == launch[l]
<1>1. LaunchOK(q)
  BY DEF BundleInv
<1>2. ASSUME NEW pc \in Carrying, q.pc \in Carrying \ {"launched"}, worker' = worker, dir' = dir,
             Goto(l, [q EXCEPT !.pc = pc])
      PROVE  BundleInv'
  <2> DEFINE x == [q EXCEPT !.pc = pc]
  <2>1. /\ DOMAIN x = DOMAIN q /\ x.pc = pc
        /\ x.digest = q.digest /\ x.read = q.read /\ x.parsed = q.parsed
        /\ x.packs = q.packs /\ x.order = q.order
    BY <1>1 DEF LaunchOK
  <2>2. Goto(l, x) /\ q.pc \in Carrying /\ q.pc # "launched"
    BY <1>2
  <2> HIDE DEF x
  <2>3. LaunchOK(x)
    BY <1>1, <1>2, <2>1, <2>2, LaunchGoes
  <2> QED BY <1>2, <2>2, <2>3, LaunchMoves
<1>3. CASE open_tmp(l)
  <2>1. PICK i : Goto(l, With([q EXCEPT !.pc = "writing"], [handle |-> i]))
    BY <1>3, Zenon DEF open_tmp
  <2>2. q.pc = "tarred" /\ worker' = worker /\ dir' = dir
    BY <1>3, Zenon DEF open_tmp
  <2> DEFINE f == [q EXCEPT !.pc = "writing"]
             x == With(f, [handle |-> i])
  <2>3. /\ DOMAIN f = DOMAIN q /\ f.pc = "writing" /\ "pc" \in DOMAIN f
        /\ {"packs", "order", "digest", "read", "parsed"} \subseteq DOMAIN f
        /\ f.digest = q.digest /\ f.read = q.read /\ f.parsed = q.parsed
        /\ f.packs = q.packs /\ f.order = q.order
    BY <1>1, <2>2 DEF LaunchOK, Carrying
  <2> HIDE DEF f
  <2>4. /\ DOMAIN q \subseteq DOMAIN x /\ x.pc = "writing"
        /\ x.digest = q.digest /\ x.read = q.read /\ x.parsed = q.parsed
        /\ x.packs = q.packs /\ x.order = q.order
    BY <2>3 DEF With
  <2>5. Goto(l, x)
    BY <2>1 DEF f
  <2> HIDE DEF x
  <2>6. x.pc \in Carrying /\ q.pc \in Carrying /\ q.pc # "launched"
    BY <2>2, <2>4 DEF Carrying
  <2>7. LaunchOK(x)
    BY <1>1, <2>4, <2>6, LaunchGoes
  <2> QED BY <2>2, <2>5, <2>6, <2>7, LaunchMoves
<1>4. CASE write_tmp(l)
  <2>1. q.pc = "writing" /\ worker' = worker /\ dir' = dir /\ Goto(l, [q EXCEPT !.pc = "written"])
    BY <1>4 DEF write_tmp
  <2> QED BY <1>2, <2>1 DEF Carrying
<1>5. CASE replace_tmp(l)
  <2>1. /\ q.pc = "written" /\ worker' = worker /\ dir' = dir
        /\ Fail(l) \/ Goto(l, [q EXCEPT !.pc = "stored"])
    BY <1>5, Zenon DEF replace_tmp
  <2>2. CASE Fail(l)
    BY <2>1, <2>2, LaunchFails
  <2>3. CASE Goto(l, [q EXCEPT !.pc = "stored"])
    BY <1>2, <2>1, <2>3 DEF Carrying
  <2> QED BY <2>1, <2>2, <2>3
<1>6. CASE find_row(l)
  <2> DEFINE pc == IF q.digest \in bundleRows THEN "launched" ELSE "insert"
  <2>1. q.pc = "stored" /\ worker' = worker /\ dir' = dir /\ Goto(l, [q EXCEPT !.pc = pc])
    BY <1>6 DEF find_row
  <2>2. pc \in Carrying /\ q.pc \in Carrying \ {"launched"}
    BY <2>1 DEF Carrying
  <2> HIDE DEF pc
  <2> QED BY <1>2, <2>1, <2>2
<1>7. CASE insert_row(l)
  <2>1. /\ q.pc = "insert" /\ worker' = worker /\ dir' = dir
        /\ Fail(l) \/ Goto(l, [q EXCEPT !.pc = "launched"])
    BY <1>7 DEF insert_row
  <2>2. CASE Fail(l)
    BY <2>1, <2>2, LaunchFails
  <2>3. CASE Goto(l, [q EXCEPT !.pc = "launched"])
    BY <1>2, <2>1, <2>3 DEF Carrying
  <2> QED BY <2>1, <2>2, <2>3
<1> QED BY <1>3, <1>4, <1>5, <1>6, <1>7

(* The download.                                                           *)
LEMMA DownloadOK ==
    ASSUME BundleInv, NEW l \in Launches, download(l)
    PROVE  BundleInv'
<1> DEFINE q == launch[l]
           d == q.digest
           bytes == inode[path[d]]
           w == [state  |-> IF ~Verified(bytes, d) THEN "refused"
                            ELSE IF bytes # Partial /\ _load_pack(d) THEN "loaded" ELSE "unloadable",
                 bundle |-> bytes]
<1>1. /\ q.pc = "launched" /\ worker' = [worker EXCEPT ![l] = w]
      /\ launch' = launch /\ dir' = dir
  BY DEF download
<1>2. /\ DOMAIN worker' = Launches /\ worker'[l] = w
      /\ \A k \in Launches \ {l} : worker'[k] = worker[k]
  <2> HIDE DEF w
  <2> QED BY <1>1 DEF BundleInv
<1>3. WorkerOK(q, w)
  <2>1. w.state \in {"loaded", "unloadable"} => bytes = <<d>>
    BY DEF Verified
  <2>2. bytes = <<d>> => bytes # Partial
    BY DEF Partial
  <2>3. w.state = "unloadable" => ~_load_pack(d)
    BY <2>1, <2>2
  <2>4. w.bundle = bytes
    OBVIOUS
  <2> HIDE DEF w, bytes, d
  <2> QED BY <1>1, <2>1, <2>3, <2>4 DEF WorkerOK, d
<1> HIDE DEF w
<1> QED BY <1>1, <1>2, <1>3 DEF BundleInv

(* What a launch carries loads, and what its worker has is what it carries.*)
THEOREM BundleInvariant == BundleSpec => []BundleInv
<1>1. BundleInit => BundleInv
  <2> SUFFICES ASSUME BundleInit PROVE BundleInv
    OBVIOUS
  <2>1. /\ DOMAIN dir = Packs /\ DOMAIN launch = Launches /\ DOMAIN worker = Launches
        /\ \A p \in Packs : dir[p] \in Contents[p]
        /\ \A l \in Launches : launch[l] = Idle /\ worker[l] = Waiting
    BY DEF BundleInit
  <2>2. LaunchOK(Idle)
    BY DEF LaunchOK, Idle, Carrying
  <2> QED BY <2>1, <2>2 DEF BundleInv, WorkerOK
<1>2. BundleInv /\ [BundleNext]_BundleVars => BundleInv'
  <2> SUFFICES ASSUME BundleInv, [BundleNext]_BundleVars PROVE BundleInv'
    OBVIOUS
  <2>1. ASSUME NEW l \in Launches, NEW ps \in Requests, gate(l, ps) PROVE BundleInv'
    BY <2>1, GateOK
  <2>2. ASSUME NEW l \in Launches, parse(l) PROVE BundleInv'
    BY <2>2, ParseOK
  <2>3. ASSUME NEW l \in Launches, NEW hops \in Answers, tar(l, hops) PROVE BundleInv'
    BY <2>3, TarOK
  <2>4. ASSUME NEW l \in Launches,
               open_tmp(l) \/ write_tmp(l) \/ replace_tmp(l) \/ find_row(l) \/ insert_row(l)
        PROVE  BundleInv'
    BY <2>4, StoreOK
  <2>5. ASSUME NEW l \in Launches, download(l) PROVE BundleInv'
    BY <2>5, DownloadOK
  <2>6. ASSUME NEW p \in Packs, edit(p) PROVE BundleInv'
    <3>1. /\ launch' = launch /\ worker' = worker
          /\ \E c \in Contents[p] : dir' = [dir EXCEPT ![p] = c]
      BY <2>6 DEF edit
    <3> QED BY <3>1 DEF BundleInv
  <2>7. CASE UNCHANGED BundleVars
    <3>1. launch' = launch /\ worker' = worker /\ dir' = dir
      BY <2>7 DEF BundleVars
    <3> QED BY <3>1 DEF BundleInv
  <2> QED BY <2>1, <2>2, <2>3, <2>4, <2>5, <2>6, <2>7 DEF BundleNext
<1> QED BY <1>1, <1>2, PTL DEF BundleSpec
(***************************************************************************)
(* The store.  Its state is launches la, inodes no, names tm and pa, rows. *)
(***************************************************************************)

(* Inode i has the bytes of digest d, or a launch is writing them.         *)
Filled(la, no, i, d) ==
    \/ no[i] = <<d>>
    \/ \E l \in Launches : la[l].pc = "writing" /\ la[l].handle = i

(* Every name leads to a file that is or will be of its digest, and to no  *)
(* other name's.                                                           *)
NamesOK(la, no, tm, pa) ==
    /\ \A d \in DOMAIN tm : tm[d] \in 1 .. Len(no) /\ Filled(la, no, tm[d], d)
    /\ \A d \in DOMAIN pa : pa[d] \in 1 .. Len(no) /\ Filled(la, no, pa[d], d)
    /\ \A d, e \in DOMAIN tm : tm[d] = tm[e] => d = e
    /\ \A d, e \in DOMAIN pa : pa[d] = pa[e] => d = e
    /\ \A d \in DOMAIN tm, e \in DOMAIN pa : tm[d] # pa[e]

(* A launch about to write writes a file that only names of its digest     *)
(* lead to; one past the store has its file, one past the row its row.     *)
HolderOK(x, no, tm, pa, rows) ==
    /\ x.pc = "tarred" => "handle" \notin DOMAIN x
    /\ x.pc = "writing" =>
         /\ x.handle \in 1 .. Len(no)
         /\ \A d \in DOMAIN tm : tm[d] = x.handle => d = x.digest
         /\ \A d \in DOMAIN pa : pa[d] = x.handle => d = x.digest
    /\ x.pc \in {"stored", "insert", "launched"} => x.digest \in DOMAIN pa
    /\ x.pc = "launched" => x.digest \in rows

InodesOK(no) == Len(no) \in Nat /\ no = [i \in 1 .. Len(no) |-> no[i]]

Store(la, no, tm, pa, rows) ==
    /\ InodesOK(no)
    /\ NamesOK(la, no, tm, pa)
    /\ \A l \in Launches : HolderOK(la[l], no, tm, pa, rows)

StoreInv == Store(launch, inode, tmp, path, bundleRows)

(* A list with one more inode.                                             *)
LEMMA OneMore ==
    ASSUME NEW no, InodesOK(no), NEW e
    PROVE  /\ InodesOK(Append(no, e)) /\ Len(Append(no, e)) = Len(no) + 1
           /\ Append(no, e)[Len(no) + 1] = e
           /\ \A i \in 1 .. Len(no) : Append(no, e)[i] = no[i]
<1> DEFINE n == Len(no)
           T == {no[i] : i \in 1 .. n} \cup {e}
<1>1. n \in Nat /\ no \in [1 .. n -> T]
  BY DEF InodesOK
<1> HIDE DEF T
<1>2. no \in Seq(T) /\ e \in T
  BY <1>1 DEF T
<1>3. Append(no, e) \in Seq(T)
  BY <1>2
<1>4. /\ Len(Append(no, e)) = n + 1 /\ Append(no, e)[n + 1] = e
      /\ \A i \in 1 .. n : Append(no, e)[i] = no[i]
  BY <1>2
<1>5. Append(no, e) = [i \in 1 .. n + 1 |-> Append(no, e)[i]]
  <2>1. PICK s \in Seq(T) : s = Append(no, e)
    BY <1>3
  <2>2. s = [i \in 1 .. Len(s) |-> s[i]]
    OBVIOUS
  <2> HIDE DEF n
  <2> QED BY <1>4, <2>1, <2>2
<1> QED BY <1>1, <1>4, <1>5 DEF InodesOK

(* A launch that neither was writing nor will be leaves the store alone.   *)
LEMMA StoreQuiet ==
    ASSUME NEW la, NEW no, NEW tm, NEW pa, NEW rows, Store(la, no, tm, pa, rows),
           NEW l \in Launches, NEW lb, NEW x, NEW more, rows \subseteq more,
           lb[l] = x, \A k \in Launches \ {l} : lb[k] = la[k],
           la[l].pc # "writing", HolderOK(x, no, tm, pa, more)
    PROVE  Store(lb, no, tm, pa, more)
<1>1. ASSUME NEW i, NEW d, Filled(la, no, i, d) PROVE Filled(lb, no, i, d)
  BY <1>1 DEF Filled
<1>2. NamesOK(lb, no, tm, pa)
  BY <1>1 DEF Store, NamesOK
<1>3. \A k \in Launches : HolderOK(lb[k], no, tm, pa, more)
  BY DEF Store, HolderOK
<1> QED BY <1>2, <1>3 DEF Store

(* Launch l moves to x; the name of d is opened at inode i, or removed.    *)
Moves(la, lb, l, x) == lb[l] = x /\ \A k \in Launches \ {l} : lb[k] = la[k]
Opens(tm, no, np, d, i) ==
    /\ i = IF d \in DOMAIN tm THEN tm[d] ELSE Len(no) + 1
    /\ np = IF d \in DOMAIN tm THEN [no EXCEPT ![i] = Partial] ELSE Append(no, Partial)
Unlinks(tm, tn, d) == d \in DOMAIN tm /\ tn = [e \in DOMAIN tm \ {d} |-> tm[e]]

(* Opening the temporary file: truncated, or new.                          *)
LEMMA StoreOpened ==
    ASSUME NEW la, NEW no, NEW tm, NEW pa, NEW rows, Store(la, no, tm, pa, rows),
           NEW l \in Launches, NEW lb, NEW x, Moves(la, lb, l, x), la[l].pc # "writing",
           NEW d, x.digest = d, x.pc = "writing",
           NEW i, x.handle = i, NEW np, Opens(tm, no, np, d, i)
    PROVE  Store(lb, np, Link(tm, d, i), pa, rows)
<1> USE DEF Moves, Opens
<1> DEFINE tn == Link(tm, d, i)
<1>1. /\ DOMAIN tn = DOMAIN tm \cup {d} /\ tn[d] = i
      /\ \A e \in DOMAIN tm \ {d} : tn[e] = tm[e]
  BY DEF Link
<1>2. /\ InodesOK(np) /\ Len(no) \in Nat /\ Len(np) \in Nat /\ Len(no) <= Len(np) /\ i \in 1 .. Len(np)
      /\ \A j \in 1 .. Len(no) : j # i => np[j] = no[j]
  <2>1. CASE d \in DOMAIN tm
    <3>1. np = [no EXCEPT ![i] = Partial] /\ i \in 1 .. Len(no)
      BY <2>1 DEF Store, NamesOK
    <3>2. Len(no) \in Nat /\ no = [j \in 1 .. Len(no) |-> no[j]]
      BY DEF Store, InodesOK
    <3>3. PICK n \in Nat : n = Len(no)
      BY <3>2
    <3>4. np = [j \in 1 .. n |-> IF j = i THEN Partial ELSE no[j]]
      BY <3>1, <3>2, <3>3
    <3>5. Len(np) = n
      BY <3>4
    <3>6. np = [j \in 1 .. n |-> np[j]] /\ \A j \in 1 .. n : j # i => np[j] = no[j]
      BY <3>4
    <3>7. InodesOK(np)
      BY <3>5, <3>6 DEF InodesOK
    <3> QED BY <3>1, <3>3, <3>5, <3>6, <3>7
  <2>2. CASE d \notin DOMAIN tm
    <3>1. np = Append(no, Partial) /\ i = Len(no) + 1 /\ InodesOK(no)
      BY <2>2 DEF Store
    <3>2. Len(no) \in Nat
      BY <3>1 DEF InodesOK
    <3> QED BY <3>1, <3>2, OneMore
  <2> QED BY <2>1, <2>2
<1>3. i \notin 1 .. Len(no) \/ (d \in DOMAIN tm /\ i = tm[d])
  BY <1>2
<1> HIDE DEF tn
<1>4. ASSUME NEW j \in 1 .. Len(no), NEW e, Filled(la, no, j, e) PROVE Filled(lb, np, j, e)
  BY <1>2, <1>4 DEF Filled
<1>5. Filled(lb, np, i, d)
  BY DEF Filled
<1>6. \A j \in 1 .. Len(no) : j \in 1 .. Len(np)
  BY <1>2
<1>7. NamesOK(la, no, tm, pa)
  BY DEF Store
<1>8. NamesOK(lb, np, tn, pa)
  <2>1. \A e \in DOMAIN tn : tn[e] \in 1 .. Len(np) /\ Filled(lb, np, tn[e], e)
    BY <1>1, <1>2, <1>4, <1>5, <1>6, <1>7 DEF NamesOK
  <2>2. \A e \in DOMAIN pa : pa[e] \in 1 .. Len(np) /\ Filled(lb, np, pa[e], e)
    BY <1>4, <1>6, <1>7 DEF NamesOK
  <2>3. \A e \in DOMAIN tm \ {d} : tm[e] # i
    BY <1>3, <1>7 DEF NamesOK
  <2>4. \A e \in DOMAIN pa : pa[e] # i
    BY <1>3, <1>7 DEF NamesOK
  <2>5. \A e, f \in DOMAIN tn : tn[e] = tn[f] => e = f
    BY <1>1, <1>7, <2>3 DEF NamesOK
  <2>6. \A e \in DOMAIN tn, f \in DOMAIN pa : tn[e] # pa[f]
    BY <1>1, <1>7, <2>4 DEF NamesOK
  <2> QED BY <1>7, <2>1, <2>2, <2>5, <2>6 DEF NamesOK
<1>9. ASSUME NEW k \in Launches PROVE HolderOK(lb[k], np, tn, pa, rows)
  <2>1. CASE k = l
    <3>1. \A e \in DOMAIN tn : tn[e] = i => e = d
      BY <1>1, <1>3, <1>7 DEF NamesOK
    <3>2. \A e \in DOMAIN pa : pa[e] # i
      BY <1>3, <1>7 DEF NamesOK
    <3> QED BY <1>2, <2>1, <3>1, <3>2 DEF HolderOK
  <2>2. CASE k # l
    <3>1. lb[k] = la[k] /\ HolderOK(la[k], no, tm, pa, rows)
      BY <2>2 DEF Store
    <3>2. la[k].pc = "writing" => \A e \in DOMAIN tn : tn[e] = la[k].handle => e = la[k].digest
      BY <1>1, <1>3, <3>1 DEF HolderOK
    <3> QED BY <1>6, <3>1, <3>2 DEF HolderOK
  <2> QED BY <2>1, <2>2
<1> QED BY <1>2, <1>8, <1>9 DEF Store, tn

(* Writing it: whole again, whatever name leads there by now.              *)
LEMMA StoreWritten ==
    ASSUME NEW la, NEW no, NEW tm, NEW pa, NEW rows, Store(la, no, tm, pa, rows),
           NEW l \in Launches, NEW lb, NEW x, la[l].pc = "writing",
           lb[l] = x, \A k \in Launches \ {l} : lb[k] = la[k], x.pc = "written",
           NEW i, i = la[l].handle, NEW d, d = la[l].digest, NEW np, np = [no EXCEPT ![i] = <<d>>]
    PROVE  Store(lb, np, tm, pa, rows)
<1>1. /\ i \in 1 .. Len(no)
      /\ \A e \in DOMAIN tm : tm[e] = i => e = d
      /\ \A e \in DOMAIN pa : pa[e] = i => e = d
  BY DEF Store, HolderOK
<1>2. PICK n \in Nat : n = Len(no) /\ no = [j \in 1 .. n |-> no[j]]
  BY DEF Store, InodesOK
<1>3. np = [j \in 1 .. n |-> IF j = i THEN <<d>> ELSE no[j]]
  BY <1>1, <1>2
<1>4. Len(np) = n /\ np[i] = <<d>> /\ \A j \in 1 .. n : j # i => np[j] = no[j]
  BY <1>1, <1>2, <1>3
<1>5. np = [j \in 1 .. n |-> np[j]]
  BY <1>3
<1>6. InodesOK(np)
  BY <1>4, <1>5 DEF InodesOK
<1>7. ASSUME NEW j \in 1 .. n, NEW e, Filled(la, no, j, e), j = i => e = d PROVE Filled(lb, np, j, e)
  BY <1>4, <1>7 DEF Filled
<1>8. NamesOK(la, no, tm, pa)
  BY DEF Store
<1>9. NamesOK(lb, np, tm, pa)
  BY <1>1, <1>2, <1>4, <1>7, <1>8 DEF NamesOK
<1>10. ASSUME NEW k \in Launches PROVE HolderOK(lb[k], np, tm, pa, rows)
  <2>1. CASE k = l
    BY <2>1 DEF HolderOK
  <2>2. CASE k # l
    <3>1. lb[k] = la[k] /\ HolderOK(la[k], no, tm, pa, rows)
      BY <2>2 DEF Store
    <3> QED BY <1>2, <1>4, <3>1 DEF HolderOK
  <2> QED BY <2>1, <2>2
<1> QED BY <1>6, <1>9, <1>10 DEF Store

(* Renaming it: the file changes its name, the one replaced has none.      *)
LEMMA StoreRenamed ==
    ASSUME NEW la, NEW no, NEW tm, NEW pa, NEW rows, Store(la, no, tm, pa, rows),
           NEW l \in Launches, NEW lb, NEW x, la[l].pc = "written", Moves(la, lb, l, x),
           x.pc = "stored", NEW d, x.digest = d, NEW tn, Unlinks(tm, tn, d)
    PROVE  Store(lb, no, tn, Link(pa, d, tm[d]), rows)
<1> USE DEF Moves, Unlinks
<1> DEFINE pb == Link(pa, d, tm[d])
<1>1. /\ DOMAIN pb = DOMAIN pa \cup {d} /\ pb[d] = tm[d]
      /\ \A e \in DOMAIN pa \ {d} : pb[e] = pa[e]
  BY DEF Link
<1> HIDE DEF pb
<1>2. DOMAIN tn = DOMAIN tm \ {d} /\ \A e \in DOMAIN tn : tn[e] = tm[e]
  OBVIOUS
<1>3. ASSUME NEW i, NEW e, Filled(la, no, i, e) PROVE Filled(lb, no, i, e)
  BY <1>3 DEF Filled
<1>4. NamesOK(la, no, tm, pa)
  BY DEF Store
<1>5. NamesOK(lb, no, tn, pb)
  <2>1. \A e \in DOMAIN tn : tn[e] \in 1 .. Len(no) /\ Filled(lb, no, tn[e], e)
    BY <1>2, <1>3, <1>4 DEF NamesOK
  <2>2. \A e \in DOMAIN pb : pb[e] \in 1 .. Len(no) /\ Filled(lb, no, pb[e], e)
    BY <1>1, <1>3, <1>4 DEF NamesOK
  <2>3. \A e, f \in DOMAIN tn : tn[e] = tn[f] => e = f
    BY <1>2, <1>4 DEF NamesOK
  <2>4. \A e, f \in DOMAIN pb : pb[e] = pb[f] => e = f
    BY <1>1, <1>4 DEF NamesOK
  <2>5. \A e \in DOMAIN tn, f \in DOMAIN pb : tn[e] # pb[f]
    BY <1>1, <1>2, <1>4 DEF NamesOK
  <2> QED BY <2>1, <2>2, <2>3, <2>4, <2>5 DEF NamesOK
<1>6. ASSUME NEW k \in Launches PROVE HolderOK(lb[k], no, tn, pb, rows)
  <2>1. CASE k = l
    BY <1>1, <2>1 DEF HolderOK
  <2>2. CASE k # l
    <3>1. lb[k] = la[k] /\ HolderOK(la[k], no, tm, pa, rows)
      BY <2>2 DEF Store
    <3> QED BY <1>1, <1>2, <3>1 DEF HolderOK
  <2> QED BY <2>1, <2>2
<1> QED BY <1>5, <1>6 DEF Store, pb

(* What a launch moves to.                                                 *)
LEMMA Moved ==
    ASSUME BundleInv, NEW l \in Launches, NEW x, Goto(l, x)
    PROVE  launch'[l] = x /\ \A k \in Launches \ {l} : launch'[k] = launch[k]
  BY DEF Goto, BundleInv

(* A launch that fails, or goes on without touching the store.             *)
LEMMA StorePasses ==
    ASSUME BundleInv, StoreInv, NEW l \in Launches, NEW x, Goto(l, x), launch[l].pc # "writing",
           inode' = inode, tmp' = tmp, path' = path, bundleRows \subseteq bundleRows',
           HolderOK(x, inode, tmp, path, bundleRows')
    PROVE  StoreInv'
<1>1. PICK lb, more : lb = launch' /\ more = bundleRows'
  OBVIOUS
<1>2. lb[l] = x /\ \A k \in Launches \ {l} : lb[k] = launch[k]
  BY <1>1, Moved
<1>3. Store(lb, inode, tmp, path, more)
  BY <1>1, <1>2, StoreQuiet DEF StoreInv
<1> QED BY <1>1, <1>3 DEF StoreInv

(* A launch that fails leaves the store as it is.                          *)
LEMMA StoreFails ==
    ASSUME BundleInv, StoreInv, NEW l \in Launches, Fail(l), launch[l].pc # "writing"
    PROVE  StoreInv'
<1> DEFINE x == [pc |-> "failed"]
<1>1. /\ Goto(l, x) /\ x.pc = "failed"
      /\ inode' = inode /\ tmp' = tmp /\ path' = path /\ bundleRows' = bundleRows
  BY DEF Fail
<1> HIDE DEF x
<1>2. HolderOK(x, inode, tmp, path, bundleRows')
  BY <1>1 DEF HolderOK
<1> QED BY <1>1, <1>2, StorePasses

(* The steps before the store: the gate, the parse and the build.          *)
LEMMA StoreBefore ==
    ASSUME BundleInv, StoreInv, NEW l \in Launches,
           \/ \E ps \in Requests : gate(l, ps)
           \/ parse(l)
           \/ \E hops \in Answers : tar(l, hops)
    PROVE  StoreInv'
<1> DEFINE q == launch[l]
<1>1. CASE Fail(l)
  <2>1. q.pc # "writing"
    BY DEF gate, parse, tar
  <2> QED BY <1>1, <2>1, StoreFails
<1>2. CASE ~Fail(l) /\ \E ps \in Requests : gate(l, ps)
  <2>1. PICK ps, e : /\ Goto(l, [pc |-> "gated", packs |-> ps, est |-> e]) /\ q.pc = "idle"
                     /\ inode' = inode /\ tmp' = tmp /\ path' = path /\ bundleRows' = bundleRows
    BY <1>2 DEF gate
  <2> DEFINE x == [pc |-> "gated", packs |-> ps, est |-> e]
  <2>2. x.pc = "gated" /\ Goto(l, x) /\ q.pc # "writing"
    BY <2>1
  <2> HIDE DEF x
  <2>3. HolderOK(x, inode, tmp, path, bundleRows')
    BY <2>2 DEF HolderOK
  <2> QED BY <2>1, <2>2, <2>3, StorePasses
<1>3. CASE ~Fail(l) /\ parse(l)
  <2>1. PICK g : /\ Goto(l, With([q EXCEPT !.pc = "parsed"], g)) /\ q.pc = "gated"
                 /\ inode' = inode /\ tmp' = tmp /\ path' = path /\ bundleRows' = bundleRows
    BY <1>3 DEF parse
  <2> DEFINE f == [q EXCEPT !.pc = "parsed"]
             x == With(f, g)
  <2>2. "pc" \in DOMAIN f /\ f.pc = "parsed"
    BY DEF BundleInv, LaunchOK
  <2> HIDE DEF f
  <2>3. x.pc = "parsed"
    BY <2>2 DEF With
  <2>4. Goto(l, x) /\ q.pc # "writing"
    BY <2>1 DEF f
  <2> HIDE DEF x
  <2>5. HolderOK(x, inode, tmp, path, bundleRows')
    BY <2>3 DEF HolderOK
  <2> QED BY <2>1, <2>4, <2>5, StorePasses
<1>4. CASE ~Fail(l) /\ \E hops \in Answers : tar(l, hops)
  <2>1. PICK now, e, d, pc :
            /\ pc = IF d \in DOMAIN path /\ inode[path[d]] = <<d>> THEN "stored" ELSE "tarred"
            /\ Goto(l, With([q EXCEPT !.pc = pc], [digest |-> d, read |-> now, manifest_est |-> e]))
            /\ q.pc = "parsed"
            /\ inode' = inode /\ tmp' = tmp /\ path' = path /\ bundleRows' = bundleRows
    BY <1>4 DEF tar
  <2>2. pc = "tarred" \/ (pc = "stored" /\ d \in DOMAIN path)
    BY <2>1
  <2> DEFINE f == [q EXCEPT !.pc = pc]
             g == [digest |-> d, read |-> now, manifest_est |-> e]
             x == With(f, g)
  <2>3. DOMAIN f = {"pc", "packs", "est", "order", "parsed"} /\ f.pc = pc
    BY <2>1 DEF BundleInv, LaunchOK
  <2>4. DOMAIN g = {"digest", "read", "manifest_est"} /\ g.digest = d
    OBVIOUS
  <2> HIDE DEF f, g
  <2>5. DOMAIN x = DOMAIN f \cup DOMAIN g /\ x.pc = pc /\ x.digest = d
    BY <2>3, <2>4 DEF With
  <2>6. Goto(l, x) /\ q.pc # "writing"
    BY <2>1 DEF f, g
  <2> HIDE DEF x
  <2>7. HolderOK(x, inode, tmp, path, bundleRows')
    BY <2>2, <2>3, <2>4, <2>5 DEF HolderOK
  <2> QED BY <2>1, <2>6, <2>7, StorePasses
<1> QED BY <1>1, <1>2, <1>3, <1>4

(* The steps on the temporary file.                                        *)
LEMMA StoreFiles ==
    ASSUME BundleInv, StoreInv, NEW l \in Launches, open_tmp(l) \/ write_tmp(l) \/ replace_tmp(l)
    PROVE  StoreInv'
<1> DEFINE q == launch[l]
<1>1. LaunchOK(q)
  BY DEF BundleInv
<1>2. CASE open_tmp(l)
  <2>1. PICK d, i :
            /\ d = q.digest /\ i = IF d \in DOMAIN tmp THEN tmp[d] ELSE Len(inode) + 1
            /\ inode' = IF d \in DOMAIN tmp THEN [inode EXCEPT ![i] = Partial] ELSE Append(inode, Partial)
            /\ tmp' = Link(tmp, d, i)
            /\ Goto(l, With([q EXCEPT !.pc = "writing"], [handle |-> i]))
    BY <1>2, Zenon DEF open_tmp
  <2>2. q.pc = "tarred" /\ path' = path /\ bundleRows' = bundleRows
    BY <1>2, Zenon DEF open_tmp
  <2> DEFINE f == [q EXCEPT !.pc = "writing"]
             g == [handle |-> i]
             x == With(f, g)
  <2>3. {"pc", "digest"} \subseteq DOMAIN f /\ f.pc = "writing" /\ f.digest = d /\ "handle" \notin DOMAIN f
    <3>1. {"pc", "digest"} \subseteq DOMAIN q
      BY <1>1, <2>2 DEF LaunchOK, Carrying
    <3>2. "handle" \notin DOMAIN q
      BY <2>2 DEF StoreInv, Store, HolderOK
    <3> QED BY <2>1, <3>1, <3>2
  <2>4. DOMAIN g = {"handle"} /\ g.handle = i
    OBVIOUS
  <2> HIDE DEF f, g
  <2>5. x.pc = "writing" /\ x.digest = d /\ x.handle = i
    BY <2>3, <2>4 DEF With
  <2>6. Goto(l, x)
    BY <2>1 DEF f, g
  <2> HIDE DEF x
  <2>7. PICK lb, np : lb = launch' /\ np = inode'
    OBVIOUS
  <2>8. lb[l] = x /\ (\A k \in Launches \ {l} : lb[k] = launch[k]) /\ launch[l].pc # "writing"
    BY <2>2, <2>6, <2>7, Moved
  <2>9. np = IF d \in DOMAIN tmp THEN [inode EXCEPT ![i] = Partial] ELSE Append(inode, Partial)
    BY <2>1, <2>7
  <2>10. PICK la, no, tm, pa, rows :
             la = launch /\ no = inode /\ tm = tmp /\ pa = path /\ rows = bundleRows
    OBVIOUS
  <2>11. /\ Store(la, no, tm, pa, rows)
         /\ Moves(la, lb, l, x) /\ la[l].pc # "writing" /\ Opens(tm, no, np, d, i)
    BY <2>1, <2>8, <2>9, <2>10 DEF StoreInv, Moves, Opens
  <2>12. Store(lb, np, Link(tm, d, i), pa, rows)
    BY ONLY <2>5, <2>11, l \in Launches, StoreOpened
  <2> QED BY <2>1, <2>2, <2>7, <2>10, <2>12 DEF StoreInv
<1>3. CASE write_tmp(l)
  <2> DEFINE x == [q EXCEPT !.pc = "written"]
  <2>1. /\ q.pc = "writing" /\ Goto(l, x) /\ tmp' = tmp /\ path' = path /\ bundleRows' = bundleRows
        /\ inode' = [inode EXCEPT ![q.handle] = <<q.digest>>]
    BY <1>3 DEF write_tmp
  <2>2. x.pc = "written"
    BY <1>1 DEF LaunchOK
  <2> HIDE DEF x
  <2>3. PICK lb, np, i, d : lb = launch' /\ np = inode' /\ i = q.handle /\ d = q.digest
    OBVIOUS
  <2>4. lb[l] = x /\ \A k \in Launches \ {l} : lb[k] = launch[k]
    BY <2>1, <2>3, Moved
  <2>5. np = [inode EXCEPT ![i] = <<d>>]
    BY <2>1, <2>3
  <2>6. PICK la, no, tm, pa, rows :
            la = launch /\ no = inode /\ tm = tmp /\ pa = path /\ rows = bundleRows
    OBVIOUS
  <2>7. /\ Store(la, no, tm, pa, rows) /\ la[l].pc = "writing"
        /\ lb[l] = x /\ \A k \in Launches \ {l} : lb[k] = la[k]
        /\ i = la[l].handle /\ d = la[l].digest /\ np = [no EXCEPT ![i] = <<d>>]
    BY <2>1, <2>3, <2>4, <2>5, <2>6 DEF StoreInv
  <2>8. Store(lb, np, tm, pa, rows)
    BY ONLY <2>2, <2>7, l \in Launches, StoreWritten
  <2> QED BY <2>1, <2>3, <2>6, <2>8 DEF StoreInv
<1>4. CASE replace_tmp(l) /\ Fail(l)
  BY <1>4, StoreFails DEF replace_tmp
<1>5. CASE replace_tmp(l) /\ ~Fail(l)
  <2> DEFINE x == [q EXCEPT !.pc = "stored"]
  <2>1. PICK d \in DOMAIN tmp :
            /\ d = q.digest /\ path' = Link(path, d, tmp[d])
            /\ tmp' = [e \in DOMAIN tmp \ {d} |-> tmp[e]] /\ Goto(l, x)
            /\ q.pc = "written" /\ inode' = inode /\ bundleRows' = bundleRows
    BY <1>5 DEF replace_tmp
  <2>2. x.pc = "stored" /\ x.digest = d
    BY <1>1, <2>1 DEF LaunchOK
  <2> HIDE DEF x
  <2>3. PICK lb, tn : lb = launch' /\ tn = tmp'
    OBVIOUS
  <2>4. lb[l] = x /\ \A k \in Launches \ {l} : lb[k] = launch[k]
    BY <2>1, <2>3, Moved
  <2>5. tn = [e \in DOMAIN tmp \ {d} |-> tmp[e]]
    BY <2>1, <2>3
  <2>6. PICK la, no, tm, pa, rows :
            la = launch /\ no = inode /\ tm = tmp /\ pa = path /\ rows = bundleRows
    OBVIOUS
  <2>7. /\ Store(la, no, tm, pa, rows) /\ la[l].pc = "written"
        /\ Moves(la, lb, l, x) /\ Unlinks(tm, tn, d)
    BY <2>1, <2>4, <2>5, <2>6 DEF StoreInv, Moves, Unlinks
  <2>8. Store(lb, no, tn, Link(pa, d, tm[d]), rows)
    BY ONLY <2>2, <2>7, l \in Launches, StoreRenamed
  <2> QED BY <2>1, <2>3, <2>6, <2>8 DEF StoreInv
<1> QED BY <1>2, <1>3, <1>4, <1>5

(* The steps on the row.                                                   *)
LEMMA StoreRows ==
    ASSUME BundleInv, StoreInv, NEW l \in Launches, find_row(l) \/ insert_row(l)
    PROVE  StoreInv'
<1> DEFINE q == launch[l]
<1>1. q.pc \in {"stored", "insert"} /\ LaunchOK(q)
  BY DEF BundleInv, find_row, insert_row
<1>2. q.digest \in DOMAIN path
  BY <1>1 DEF StoreInv, Store, HolderOK
<1>3. CASE insert_row(l) /\ Fail(l)
  BY <1>1, <1>3, StoreFails
<1>4. CASE ~(insert_row(l) /\ Fail(l))
  <2>1. PICK pc \in {"insert", "launched"} :
            /\ Goto(l, [q EXCEPT !.pc = pc])
            /\ inode' = inode /\ tmp' = tmp /\ path' = path /\ bundleRows \subseteq bundleRows'
            /\ pc = "launched" => q.digest \in bundleRows'
    <3>1. CASE find_row(l)
      BY <3>1 DEF find_row
    <3>2. CASE insert_row(l)
      BY <1>4, <3>2 DEF insert_row
    <3> QED BY <3>1, <3>2
  <2> DEFINE x == [q EXCEPT !.pc = pc]
  <2>2. x.pc = pc /\ x.digest = q.digest
    BY <1>1 DEF LaunchOK
  <2>3. Goto(l, x) /\ q.pc # "writing"
    BY <1>1, <2>1
  <2> HIDE DEF x
  <2>4. HolderOK(x, inode, tmp, path, bundleRows')
    BY <1>2, <2>1, <2>2 DEF HolderOK
  <2> QED BY <2>1, <2>3, <2>4, StorePasses
<1> QED BY <1>3, <1>4

(* The store, for any number of launches of any packs: no two names lead   *)
(* to one file, each name's file is of its digest or being written, and a  *)
(* launch past the store has its file, past the row its row                *)
(* (build_from_pack's temporary file and rename, _resolve_bundle's row).   *)
THEOREM StoreInvariant == BundleSpec => []StoreInv
<1>1. BundleInit => StoreInv
  <2> SUFFICES ASSUME BundleInit PROVE StoreInv
    OBVIOUS
  <2>1. /\ inode = <<>> /\ tmp = <<>> /\ path = <<>>
        /\ \A l \in Launches : launch[l] = Idle
    BY DEF BundleInit
  <2>2. InodesOK(inode)
    BY <2>1 DEF InodesOK
  <2>3. DOMAIN tmp = {} /\ DOMAIN path = {}
    BY <2>1
  <2>4. Idle.pc = "idle"
    BY DEF Idle
  <2> QED BY <2>1, <2>2, <2>3, <2>4 DEF StoreInv, Store, NamesOK, HolderOK
<1>2. BundleInv /\ StoreInv /\ [BundleNext]_BundleVars => StoreInv'
  <2> SUFFICES ASSUME BundleInv, StoreInv, [BundleNext]_BundleVars PROVE StoreInv'
    OBVIOUS
  <2>1. ASSUME NEW l \in Launches,
               \/ \E ps \in Requests : gate(l, ps)
               \/ parse(l)
               \/ \E hops \in Answers : tar(l, hops)
        PROVE  StoreInv'
    BY <2>1, StoreBefore
  <2>2. ASSUME NEW l \in Launches, open_tmp(l) \/ write_tmp(l) \/ replace_tmp(l) PROVE StoreInv'
    BY <2>2, StoreFiles
  <2>3. ASSUME NEW l \in Launches, find_row(l) \/ insert_row(l) PROVE StoreInv'
    BY <2>3, StoreRows
  <2>4. CASE \/ \E l \in Launches : download(l)
             \/ \E p \in Packs : edit(p)
             \/ UNCHANGED BundleVars
    <3>1. UNCHANGED <<launch, inode, tmp, path, bundleRows>>
      BY <2>4 DEF download, edit, BundleVars
    <3> QED BY <3>1 DEF StoreInv
  <2> QED BY <2>1, <2>2, <2>3, <2>4 DEF BundleNext
<1> QED BY <1>1, <1>2, BundleInvariant, PTL DEF BundleSpec

(* A worker unpacks the bundle its launch names or nothing, whatever other *)
(* launches do to the file, and can load it unless the pack is one of the  *)
(* two kinds the property names; a launched run has its row and a file,    *)
(* whole whenever nobody is writing it (build_from_pack, _resolve_bundle). *)
THEOREM BundlesArriveWhole == BundleSpec => []DeliveredWhole
<1>1. BundleInv => UnpacksTheDigest /\ LoadsOnWorker
  <2> SUFFICES ASSUME BundleInv, NEW l \in Launches
               PROVE  /\ worker[l].state \in {"loaded", "unloadable"} =>
                           worker[l].bundle = <<launch[l].digest>>
                      /\ worker[l].state = "unloadable" /\ Steady(l) => Unshipped(launch[l].parsed[1])
    BY DEF UnpacksTheDigest, LoadsOnWorker, Unshipped
  <2>1. Waiting.state = "waiting"
    BY DEF Waiting
  <2>2. worker[l].state \in {"loaded", "unloadable"} => worker[l].bundle = <<launch[l].digest>>
    BY <2>1 DEF BundleInv, WorkerOK
  <2>3. ASSUME worker[l].state = "unloadable", Steady(l), ~Unshipped(launch[l].parsed[1]) PROVE FALSE
    <3> DEFINE x == launch[l]
    <3>1. ~_load_pack(x.digest)
      BY <2>1, <2>3 DEF BundleInv, WorkerOK
    <3>2. ParsedOK(x) /\ x.digest = Bundled(x.packs, x.order, x.parsed, x.parsed)
      BY <2>3 DEF BundleInv, LaunchOK, Steady, Done, Carrying
    <3> HIDE DEF x
    <3>3. ~Unshipped(x.parsed[1])
      BY <2>3 DEF x
    <3> QED BY <3>1, <3>2, <3>3, BundledLoads
  <2> QED BY <2>2, <2>3
<1>2. StoreInv => RestsWhole
  BY DEF StoreInv, Store, NamesOK, Filled, HolderOK, RestsWhole
<1> QED BY <1>1, <1>2, BundleInvariant, StoreInvariant, PTL DEF DeliveredWhole


-----------------------------------------------------------------------------
(* What the assumption says of a content parsed.                           *)
LEMMA ContentFacts ==
    ASSUME NEW ps, NEW cs, Merges(ps, cs), NEW i \in DOMAIN ps
    PROVE  /\ cs[i].engine = "eventgen"
           /\ \A f, g \in cs[i].files : f.path = g.path => f = g
           /\ \A s \in DOMAIN cs[i].stanzas :
                 /\ s \in FileName
                 /\ {"count", "sampleFile", "token", "mode"} \subseteq DOMAIN cs[i].stanzas[s]
<1>1. PICK p \in Packs : cs[i] \in Contents[p]
  BY DEF Merges
<1>2. cs[i].engine = "eventgen"
  BY DEF Merges, Mergeable
<1>3. PICK c \in Contents[p] : c = cs[i]
  BY <1>1
<1>4. /\ \A f, g \in c.files : f.path = g.path => f = g
      /\ \A s \in DOMAIN c.stanzas :
            s \in FileName /\ {"count", "sampleFile", "token", "mode"} \subseteq DOMAIN c.stanzas[s]
  BY ContentsAssumption
<1> QED BY <1>2, <1>3, <1>4

(* Stanza s of content c, pack p, is in bundle b under ns what it is alone.*)
Keeps(c, p, ns, b, s) ==
    LET alone == SingleBundle(p, c, c)
        e == Effective(c.stanzas[s], c.globals)
        m == b.conf[<<ns>> \o s]
        o == Effective(m.own, m.globals)
    IN  /\ o.count = e.count /\ o.mode = e.mode
        /\ Sample(alone.files, s) # "missing" =>
              Sample(b.files, <<ns>> \o s) = Sample(alone.files, s)
        /\ Token(alone.files, e) # "missing" /\ e.token \notin OwnFiles =>
              Token(b.files, o) = Token(alone.files, e)

(* A stanza in the bundle of a merge means what it means alone.            *)
LEMMA StanzaKept ==
    ASSUME NEW ps \in Seq(Packs), NEW cs, Merges(ps, cs), NEW i \in DOMAIN ps,
           NEW s \in DOMAIN cs[i].stanzas, NEW p,
           NEW ins, ins = ordered(Inputs(ps)),
           NEW b, b.conf = MergedConf(ins, cs), b.files = MergedFiles(ins, cs, cs)
    PROVE  Keeps(cs[i], p, ins[i].ns, b, s)
<1> DEFINE c == cs[i]
           ns == ins[i].ns
           alone == SingleBundle(p, c, c)
           map == _pack_sample_map(c, ns)
           e == Effective(c.stanzas[s], c.globals)
           m == b.conf[<<ns>> \o s]
           o == Effective(m.own, m.globals)
<1>1. DOMAIN ins = DOMAIN ps /\ \A j, k \in DOMAIN ins : ins[j].ns = ins[k].ns => j = k
  BY DistinctInputs DEF Merges
<1>2. ~Collides(ins, cs)
  BY DEF Merges
<1>3. \A j \in DOMAIN ins : \A t \in DOMAIN cs[j].stanzas : t \in FileName
  BY <1>1, ContentFacts
<1>4. m.own = _merged_stanza_options(c.stanzas[s], c.globals, map) /\ m.globals = [count |-> 0, token |-> None]
  BY <1>1, <1>3, MergedStanza
<1>5. o.count = e.count /\ o.mode = e.mode /\ o.token = _rewrite_sample_ref(e.token, map)
  BY <1>4, ContentFacts, FoldedOptions
<1>6. c.engine = "eventgen" /\ \A f, g \in c.files : f.path = g.path => f = g
  BY ContentFacts
<1>7. ASSUME NEW q, q \notin OwnFiles, DataAt(alone.files, q) # "missing"
      PROVE  /\ UnderSamples(q)
             /\ \E k \in map : k.from = q /\ k.to = MergedName(ns, q)
             /\ DataAt(b.files, <<Samples, MergedName(ns, q)>>) = DataAt(alone.files, q)
  <2>1. /\ UnderSamples(q) /\ DataAt(alone.files, q) = DataAt(c.files, q)
        /\ \E k \in map : k.from = q /\ k.to = MergedName(ns, q)
    <3>1. PICK k, n : k = c /\ n = ns
      OBVIOUS
    <3>2. /\ k.engine = "eventgen" /\ \A f, g \in k.files : f.path = g.path => f = g
          /\ DataAt(SingleBundle(p, k, k).files, q) # "missing"
      BY <1>6, <1>7, <3>1
    <3> HIDE DEF c, ns
    <3>3. /\ UnderSamples(q) /\ DataAt(SingleBundle(p, k, k).files, q) = DataAt(k.files, q)
          /\ \E h \in _pack_sample_map(k, n) : h.from = q /\ h.to = MergedName(n, q)
      BY <1>7, <3>2, AloneFile
    <3> QED BY <3>1, <3>3
  <2>2. PICK k \in map : k.from = q /\ k.to = MergedName(ns, q)
    BY <2>1
  <2>3. DataAt(MergedFiles(ins, cs, cs), <<Samples, k.to>>) = DataAt(c.files, k.from)
    BY <1>1, <1>2, MergedSample
  <2> QED BY <2>1, <2>2, <2>3
<1>8. ASSUME Sample(alone.files, s) # "missing"
      PROVE  Sample(b.files, <<ns>> \o s) = Sample(alone.files, s)
  <2> DEFINE q == <<Samples, s>>
  <2>1. DataAt(alone.files, q) # "missing" /\ q \notin OwnFiles
    BY <1>8, OwnPaths DEF Sample
  <2>2. MergedName(ns, q) = <<ns>> \o s
    <3>1. Tail(q) = <<s>>
      OBVIOUS
    <3> QED BY <3>1, FlattenOne DEF MergedName
  <2> HIDE DEF q, alone, ns
  <2>3. DataAt(b.files, <<Samples, MergedName(ns, q)>>) = DataAt(alone.files, q)
    BY <1>7, <2>1
  <2> QED BY <2>2, <2>3 DEF Sample, q
<1>9. ASSUME Token(alone.files, e) # "missing", e.token \notin OwnFiles
      PROVE  Token(b.files, o) = Token(alone.files, e)
  <2>1. PICK q : q = e.token
    OBVIOUS
  <2>2. DataAt(alone.files, q) # "missing" /\ q \notin OwnFiles
    BY <1>9, <2>1 DEF Token
  <2> HIDE DEF alone, ns, e, o, map
  <2>3. /\ UnderSamples(q) /\ \E k \in map : k.from = q /\ k.to = MergedName(ns, q)
        /\ DataAt(b.files, <<Samples, MergedName(ns, q)>>) = DataAt(alone.files, q)
    BY <1>7, <2>2
  <2>4. PICK k \in map : k.from = q /\ k.to = MergedName(ns, q)
    BY <2>3
  <2>5. q # None
    BY <2>3 DEF UnderSamples, None
  <2>6. _rewrite_sample_ref(q, map) = <<Samples, MergedName(ns, q)>>
    BY <2>3, <2>4, <2>5, RefRenamed DEF map
  <2> QED BY <1>5, <2>1, <2>3, <2>6 DEF Token
<1> QED BY <1>5, <1>8, <1>9 DEF Keeps

(* What a launch that carries a bundle of steady directories has.          *)
LEMMA SteadyFacts ==
    ASSUME BundleInv, NEW l \in Launches, Steady(l)
    PROVE  LET x == launch[l]
           IN  /\ ParsedOK(x) /\ x.digest = Bundled(x.packs, x.order, x.parsed, x.parsed)
               /\ x.packs \in Seq(Packs) /\ Len(x.packs) \in Nat \ {0} /\ DOMAIN x.packs = 1 .. Len(x.packs)
               /\ DOMAIN x.order = 1 .. Len(x.packs) /\ Len(x.order) = Len(x.packs)
<1> DEFINE x == launch[l]
<1>1. ParsedOK(x) /\ x.digest = Bundled(x.packs, x.order, x.parsed, x.parsed)
  BY DEF BundleInv, LaunchOK, Steady, Done, Carrying
<1>2. /\ x.packs \in Requests /\ x.order = Order(x.packs)
      /\ Len(x.packs) > 1 => Distinct(Inputs(x.packs))
  BY <1>1 DEF ParsedOK, Merges
<1> QED BY <1>1, <1>2, OrderOf

(* Every stanza of every pack of a merge keeps its meaning.                *)
LEMMA MeaningKept == BundleInv => MergeKeepsMeaning
<1> SUFFICES ASSUME BundleInv, NEW l \in Launches, Steady(l), Len(launch[l].packs) > 1,
                    NEW i \in DOMAIN launch[l].order,
                    NEW s \in DOMAIN launch[l].parsed[i].stanzas
             PROVE  Keeps(launch[l].parsed[i], launch[l].order[i],
                          ordered(Inputs(launch[l].packs))[i].ns, launch[l].digest, s)
  BY DEF MergeKeepsMeaning, Keeps
<1>1. PICK ps, cs, p, b, ins :
          /\ ps = launch[l].packs /\ cs = launch[l].parsed /\ p = launch[l].order[i]
          /\ b = launch[l].digest /\ ins = ordered(Inputs(ps))
  OBVIOUS
<1>2. /\ ps \in Seq(Packs) /\ Merges(ps, cs) /\ i \in DOMAIN ps
      /\ Len(launch[l].order) > 1
      /\ b = Bundled(ps, launch[l].order, cs, cs)
  BY <1>1, SteadyFacts DEF ParsedOK
<1>3. b.conf = MergedConf(ins, cs) /\ b.files = MergedFiles(ins, cs, cs)
  BY <1>1, <1>2 DEF Bundled, Bundle
<1>4. s \in DOMAIN cs[i].stanzas
  BY <1>1
<1>5. Keeps(cs[i], p, ins[i].ns, b, s)
  BY <1>1, <1>2, <1>3, <1>4, StanzaKept
<1> QED BY <1>1, <1>5

(* The digest of a set of packs does not depend on the order of the list.  *)
LEMMA OrderIrrelevant == BundleInv => SameSetSameDigest
<1> SUFFICES ASSUME BundleInv, NEW l \in Launches, NEW k \in Launches, Steady(l), Steady(k),
                    ToSet(launch[l].packs) = ToSet(launch[k].packs),
                    \A i \in DOMAIN launch[l].order, j \in DOMAIN launch[k].order :
                       launch[l].order[i] = launch[k].order[j] => launch[l].parsed[i] = launch[k].parsed[j]
             PROVE  launch[l].digest = launch[k].digest
  BY DEF SameSetSameDigest
<1>1. PICK x, y : x = launch[l] /\ y = launch[k]
  OBVIOUS
<1>2. /\ ParsedOK(x) /\ x.digest = Bundled(x.packs, x.order, x.parsed, x.parsed)
      /\ x.packs \in Seq(Packs) /\ Len(x.packs) \in Nat \ {0} /\ DOMAIN x.packs = 1 .. Len(x.packs)
      /\ DOMAIN x.order = 1 .. Len(x.packs)
  BY <1>1, SteadyFacts
<1>3. /\ ParsedOK(y) /\ y.digest = Bundled(y.packs, y.order, y.parsed, y.parsed)
      /\ y.packs \in Seq(Packs) /\ Len(y.packs) \in Nat \ {0} /\ DOMAIN y.packs = 1 .. Len(y.packs)
      /\ DOMAIN y.order = 1 .. Len(y.packs)
  BY <1>1, SteadyFacts
<1>4. /\ ToSet(x.packs) = ToSet(y.packs)
      /\ \A i \in DOMAIN x.order, j \in DOMAIN y.order : x.order[i] = y.order[j] => x.parsed[i] = y.parsed[j]
  BY <1>1
<1>5. ASSUME NEW z, ParsedOK(z), z.packs \in Seq(Packs), Len(z.packs) \in Nat \ {0},
             DOMAIN z.packs = 1 .. Len(z.packs)
      PROVE  \A i, j \in DOMAIN z.packs : z.packs[i] = z.packs[j] => i = j
  <2>1. PICK ps : ps = z.packs
    OBVIOUS
  <2>2. CASE Len(ps) > 1
    <3>1. Distinct(Inputs(ps))
      BY <1>5, <2>1, <2>2 DEF ParsedOK, Merges
    <3> QED BY <1>5, <2>1, <3>1, DistinctInputs
  <2>3. CASE ~(Len(ps) > 1)
    BY <1>5, <2>1, <2>3
  <2> QED BY <2>2, <2>3
<1>6. PICK ps, qs : ps = x.packs /\ qs = y.packs
  OBVIOUS
<1>7. /\ \A i, j \in DOMAIN ps : ps[i] = ps[j] => i = j
      /\ \A i, j \in DOMAIN qs : qs[i] = qs[j] => i = j
      /\ ps \in Seq(Packs) /\ qs \in Seq(Packs) /\ ToSet(ps) = ToSet(qs)
  BY <1>2, <1>3, <1>4, <1>5, <1>6
<1>8. Len(ps) = Len(qs) /\ ToSet(Inputs(ps)) = ToSet(Inputs(qs))
  <2>1. Len(ps) = Len(qs) /\ ToSet(Inputs(ps)) \subseteq ToSet(Inputs(qs))
    BY <1>7, SameInputs
  <2>2. ToSet(Inputs(qs)) \subseteq ToSet(Inputs(ps))
    BY <1>7, SameInputs
  <2> QED BY <2>1, <2>2
<1>9. ordered(Inputs(ps)) = ordered(Inputs(qs))
  BY <1>8 DEF ordered
<1>10. x.order = y.order
  <2>1. DOMAIN ps = DOMAIN qs
    BY <1>2, <1>3, <1>6, <1>8
  <2>2. Order(ps) = Order(qs)
    BY <1>9, <2>1 DEF Order
  <2>3. x.order = Order(ps) /\ y.order = Order(qs)
    BY <1>2, <1>3, <1>6 DEF ParsedOK
  <2> QED BY <2>2, <2>3
<1>11. x.parsed = y.parsed
  <2>1. x.parsed = [i \in DOMAIN ps |-> x.parsed[i]] /\ y.parsed = [i \in DOMAIN qs |-> y.parsed[i]]
    BY <1>2, <1>3, <1>6 DEF ParsedOK
  <2>2. DOMAIN ps = DOMAIN qs /\ DOMAIN ps = DOMAIN x.order
    BY <1>2, <1>3, <1>6, <1>8
  <2>3. \A i \in DOMAIN ps : x.parsed[i] = y.parsed[i]
    BY <1>4, <1>10, <2>2
  <2>4. [i \in DOMAIN ps |-> x.parsed[i]] = [i \in DOMAIN qs |-> y.parsed[i]]
    BY <2>2, <2>3
  <2> QED BY <2>1, <2>4, Zenon
<1>12. Bundled(ps, x.order, x.parsed, x.parsed) = Bundled(qs, y.order, y.parsed, y.parsed)
  BY <1>9, <1>10, <1>11 DEF Bundled
<1> QED BY <1>1, <1>2, <1>3, <1>6, <1>12

(* build_from_packs: for any packs, contents and requests, a stanza means  *)
(* in a merged bundle what it means alone, and the digest is a function of *)
(* the set of packs and of what their directories held.                    *)
THEOREM MergeIsSound == BundleSpec => []MergeSound
<1>1. BundleInv => MergeSound
  BY MeaningKept, OrderIrrelevant DEF MergeSound
<1> QED BY <1>1, BundleInvariant, PTL
=============================================================================
