------------------------------- MODULE GitSync -------------------------------
(***************************************************************************)
(* Git-synced packs: clone and fetch, indexing, the pinned per-SHA snapshot  *)
(* a bundle is built from, and the repo endpoints (server/gitsync/sync.py,   *)
(* routes/api.py, lifecycle._pack_build_dir).                               *)
(*                                                                          *)
(* The sync button runs in a threadpool thread and the webhook in the event  *)
(* loop, so two syncs of one repo can overlap; they share one clone, its     *)
(* FETCH_HEAD and its working tree.  A commit's tree gives each pack root    *)
(* its content: whether the author ships pack.yaml and under which name,     *)
(* whether it lints, carries custom code, and holds a metricgen block.       *)
(* git itself (fetch, checkout, archive) is external and modelled from how   *)
(* sync.py calls it: checkout refuses to overwrite an untracked file.        *)
(***************************************************************************)
EXTENDS Integers, FiniteSets, Sequences, TLC

CONSTANTS
    Syncs,          \* concurrent sync requests (button, webhook)
    Builds,         \* concurrent bundle builds
    Roots,          \* pack roots: "root" for the repository root, else packs/*
    Trees,          \* the trees a push may bring: functions on sets of Roots
    MaxCommits,     \* bound on the commits upstream
    MaxSpecs,       \* bound on the packs specs name at a time
    MayFail         \* TRUE: git may fail or time out

\* What a commit says of a pack root.
TreePack == [yaml : BOOLEAN, name : STRING, lint : BOOLEAN, code : BOOLEAN, metric : BOOLEAN]

ASSUME GitAssumption ==
    /\ MaxCommits \in Nat \ {0}
    /\ \A t \in Trees : DOMAIN t \subseteq Roots /\ \A d \in DOMAIN t : t[d] \in TreePack

Gone == [dir |-> "gone"]

VARIABLES
    commits,    \* upstream: the sequence of trees, the last one at the ref
    repo,       \* the repo row: live, trusted_code, head_sha, sync_error
    clone,      \* the clone: present, HEAD, FETCH_HEAD, synthesised pack.yamls
    packRows,   \* packRows[n]: the pack row named n of this repo, or Gone
    specs,      \* names of packs some spec refers to
    sync,       \* sync[s]: a sync thread
    snap,       \* snap[c]: the roots present in the snapshot of commit c
    build       \* build[b]: a build thread

GitVars == <<commits, repo, clone, packRows, specs, sync, snap, build>>

Names == {"slug", "id"} \cup Roots \cup UNION {{t[d].name : d \in DOMAIN t} : t \in Trees}
NoSnap == [state |-> "absent", roots |-> {}, of |-> 0]

GitInit ==
    /\ commits \in {<<t>> : t \in Trees}
    /\ repo \in [live : {TRUE}, trusted : BOOLEAN, head : {0}, error : {FALSE}]
    /\ clone = [present |-> FALSE, head |-> 0, fetched |-> 0, written |-> {}]
    /\ packRows = [n \in Names |-> Gone]
    /\ specs = {}
    /\ sync = [s \in Syncs |-> [pc |-> "idle"]]
    /\ snap = [c \in 1..MaxCommits |-> NoSnap]
    /\ build = [b \in Builds |-> [pc |-> "idle"]]

\* Upstream moves the ref.
push(t) ==
    /\ Len(commits) < MaxCommits
    /\ commits' = Append(commits, t)
    /\ UNCHANGED <<repo, clone, packRows, specs, sync, snap, build>>

-----------------------------------------------------------------------------
(* Cloning and fetching *)

\* sync_repo_endpoint, github_webhook (a push event of the matching repo).
sync_repo(s) ==
    /\ sync[s].pc = "idle" /\ repo.live
    /\ sync' = [sync EXCEPT ![s] = [pc |-> "fetch"]]
    /\ UNCHANGED <<commits, repo, clone, packRows, specs, snap, build>>

\* A GitSyncError: the reason is stored and the request's commit keeps it.
Failed(s) ==
    /\ sync' = [sync EXCEPT ![s] = [pc |-> "idle"]]
    /\ repo' = [repo EXCEPT !.error = repo.live]
git_fails(s) ==
    /\ MayFail /\ sync[s].pc \in {"fetch", "checkout", "rev_parse"}
    /\ Failed(s)
    /\ UNCHANGED <<commits, clone, packRows, specs, snap, build>>

\* clone_or_fetch: a first clone checks the ref out; a later one only fetches.
clone_or_fetch(s) ==
    /\ sync[s].pc = "fetch"
    /\ IF clone.present
       THEN /\ clone' = [clone EXCEPT !.fetched = Len(commits)]
            /\ sync' = [sync EXCEPT ![s] = [pc |-> "checkout"]]
       ELSE /\ clone' = [present |-> TRUE, head |-> Len(commits), fetched |-> 0, written |-> {}]
            /\ sync' = [sync EXCEPT ![s] = [pc |-> "rev_parse"]]
    /\ UNCHANGED <<commits, repo, packRows, specs, snap, build>>

\* A synthesised pack.yaml is untracked: checkout refuses a commit that brings
\* the author's own.
Blocked(c) == \E d \in DOMAIN commits[c] \cap clone.written : commits[c][d].yaml
\* _fetch: checkout --detach and reset --hard FETCH_HEAD; untracked files stay.
_fetch(s) ==
    /\ sync[s].pc = "checkout"
    /\ IF Blocked(clone.fetched)
       THEN Failed(s) /\ UNCHANGED clone
       ELSE /\ clone' = [clone EXCEPT !.head = clone.fetched]
            /\ sync' = [sync EXCEPT ![s] = [pc |-> "rev_parse"]]
            /\ UNCHANGED repo
    /\ UNCHANGED <<commits, packRows, specs, snap, build>>
\* Mutant: the SHA is the fetched ref's, whatever is checked out.
_resolve_ref_sha_Remote == Len(commits)
_resolve_ref_sha == clone.head
rev_parse(s) ==
    /\ sync[s].pc = "rev_parse"
    /\ sync' = [sync EXCEPT ![s] = [pc |-> "index", sha |-> _resolve_ref_sha, tree |-> clone.head]]
    /\ UNCHANGED <<commits, repo, clone, packRows, specs, snap, build>>

-----------------------------------------------------------------------------
(* Indexing *)

\* _is_pack_root: a conf or a rawreplay pack.yaml; a metric pack is neither.
_find_pack_roots(t) == {d \in DOMAIN t : ~t[d].metric}
HasYaml(t, d) == t[d].yaml \/ d \in clone.written
\* _pack_name: the pack.yaml's name, else the directory; the repository root
\* is named after the URL, but its synthesised pack.yaml after the clone
\* directory, which is the repo's id.
_pack_name(t, d) ==
    IF t[d].yaml THEN t[d].name
    ELSE IF d # "root" THEN d ELSE IF d \in clone.written THEN "id" ELSE "slug"
\* lint_pack, custom_code_errors (default-deny) and _token_path_escape_errors.
CleanPack(t, d) == t[d].lint /\ (t[d].code => repo.trusted)
_upsert_pack(s, t, d) ==
    [dir |-> d, sha |-> sync[s].sha, lint |-> CleanPack(t, d),
     verified |-> CleanPack(t, d) /\ HasYaml(t, d),
     serial |-> clone.head = sync[s].tree]

\* index_packs walks the working tree as it stands now and writes a pack.yaml
\* where there is none; a later root of one name replaces the row.
index_packs(s) ==
    /\ sync[s].pc = "index"
    /\ LET t == commits[clone.head]
           roots == _find_pack_roots(t)
           New(n) == {d \in roots : _pack_name(t, d) = n}
       IN  /\ sync' = [sync EXCEPT ![s] = [pc |-> "commit", sha |-> sync[s].sha,
                  new |-> [n \in {m \in Names : New(m) # {}} |->
                             _upsert_pack(s, t, IF New(n) = {"root"} THEN "root"
                                                ELSE CHOOSE d \in New(n) : d # "root")]]]
           /\ clone' = [clone EXCEPT !.written = clone.written \cup {d \in roots : ~t[d].yaml}]
    /\ UNCHANGED <<commits, repo, packRows, specs, snap, build>>

\* The request commits the rows and the repo's head together; a repo deleted
\* meanwhile fails the commit.
commit_sync(s) ==
    /\ sync[s].pc = "commit"
    /\ sync' = [sync EXCEPT ![s] = [pc |-> "idle"]]
    /\ IF repo.live
       THEN /\ packRows' = [n \in Names |-> IF n \in DOMAIN sync[s].new THEN sync[s].new[n] ELSE packRows[n]]
            /\ repo' = [repo EXCEPT !.head = sync[s].sha, !.error = FALSE]
       ELSE UNCHANGED <<packRows, repo>>
    /\ UNCHANGED <<commits, clone, specs, snap, build>>

-----------------------------------------------------------------------------
(* The repo endpoints *)

Present == {n \in Names : packRows[n] # Gone}
create_spec(n) ==
    /\ n \in Present /\ Cardinality(specs) < MaxSpecs
    /\ specs' = specs \cup {n}
    /\ UNCHANGED <<commits, repo, clone, packRows, sync, snap, build>>
delete_spec(n) ==
    /\ n \in specs /\ specs' = specs \ {n}
    /\ UNCHANGED <<commits, repo, clone, packRows, sync, snap, build>>
\* delete_repo: refused while a spec names one of its packs; the rows go with
\* it, the clone stays on disk under the repo's id.
delete_repo ==
    /\ repo.live /\ specs = {}
    /\ repo' = [repo EXCEPT !.live = FALSE]
    /\ packRows' = [n \in Names |-> Gone]
    /\ UNCHANGED <<commits, clone, specs, sync, snap, build>>

-----------------------------------------------------------------------------
(* Pinned snapshots *)

\* _pack_present: the pack's files are in the snapshot of its indexed SHA.
_pack_present(r) == snap[r.sha].state # "absent" /\ r.dir \in snap[r.sha].roots
\* Mutant: the archive is of the clone's HEAD, not of the pinned SHA.
_extract_tree_Head(sha) == [state |-> "whole", roots |-> DOMAIN commits[clone.head], of |-> clone.head]
_extract_tree(sha) == [state |-> "whole", roots |-> DOMAIN commits[sha], of |-> sha]

\* resolve_pack_dir for a launch of the spec's pack.
resolve_pack_dir(b, n) ==
    /\ build[b].pc = "idle" /\ n \in specs
    /\ build' = [build EXCEPT ![b] = [pc |-> IF _pack_present(packRows[n]) THEN "read" ELSE "extract",
                                      row |-> packRows[n]]]
    /\ UNCHANGED <<commits, repo, clone, packRows, specs, sync, snap>>
\* The archive is extracted beside the snapshot; one already there is removed
\* first, file by file, and the rename puts the new tree in its place.
rmtree(b) ==
    /\ build[b].pc = "extract" /\ snap[build[b].row.sha].state = "whole"
    /\ snap' = [snap EXCEPT ![build[b].row.sha].state = "removing"]
    /\ UNCHANGED <<commits, repo, clone, packRows, specs, sync, build>>
replace(b) ==
    /\ build[b].pc = "extract" /\ snap[build[b].row.sha].state # "whole"
    /\ LET new == _extract_tree(build[b].row.sha)
       IN  /\ snap' = [snap EXCEPT ![build[b].row.sha] = new]
           /\ build' = [build EXCEPT ![b].pc = IF build[b].row.dir \in new.roots THEN "read" ELSE "fallback"]
    /\ UNCHANGED <<commits, repo, clone, packRows, specs, sync>>
\* Any failure builds from the live clone instead (_pack_build_dir).
extract_fails(b) ==
    /\ MayFail /\ build[b].pc = "extract"
    /\ build' = [build EXCEPT ![b].pc = "fallback"]
    /\ UNCHANGED <<commits, repo, clone, packRows, specs, sync, snap>>
Content(c, d) == IF c > 0 /\ d \in DOMAIN commits[c] THEN commits[c][d] ELSE Gone
build_from_pack(b) ==
    /\ build[b].pc \in {"read", "fallback"}
    /\ LET r == build[b].row
           pinned == build[b].pc = "read"
       IN  build' = [build EXCEPT ![b] =
              [pc |-> "built", row |-> r, pinned |-> pinned,
               torn |-> pinned /\ snap[r.sha].state # "whole",
               got |-> Content(IF pinned THEN snap[r.sha].of ELSE clone.head, r.dir)]]
    /\ UNCHANGED <<commits, repo, clone, packRows, specs, sync, snap>>
launch_again(b) ==
    /\ build[b].pc = "built"
    /\ build' = [build EXCEPT ![b] = [pc |-> "idle"]]
    /\ UNCHANGED <<commits, repo, clone, packRows, specs, sync, snap>>

SyncStep(s) == clone_or_fetch(s) \/ _fetch(s) \/ rev_parse(s) \/ index_packs(s) \/ commit_sync(s)

GitNext ==
    \/ \E t \in Trees : push(t)
    \/ \E s \in Syncs : sync_repo(s) \/ git_fails(s) \/ SyncStep(s)
    \/ \E n \in Names : create_spec(n) \/ delete_spec(n)
    \/ delete_repo
    \/ \E b \in Builds : \/ \E n \in specs : resolve_pack_dir(b, n)
                         \/ rmtree(b) \/ replace(b) \/ extract_fails(b)
                         \/ build_from_pack(b) \/ launch_again(b)

GitSpec == GitInit /\ [][GitNext]_GitVars
\* A sync request is served, and the operator asks again while it can help.
Fairness == \A s \in Syncs : WF_GitVars(sync_repo(s)) /\ WF_GitVars(SyncStep(s))
FairGitSpec == GitSpec /\ Fairness

-----------------------------------------------------------------------------
(* Properties *)

\* A row whose sync saw no other sync move the clone carries the verdict of
\* the very commit it is pinned to: lint, custom-code policy and directory are
\* those of indexed_sha (index_packs, _upsert_pack).
PinnedVerdict ==
    \A n \in Present : LET r == packRows[n] IN
        clone.present /\ r.serial =>
            /\ r.dir \in DOMAIN commits[r.sha]
            /\ r.lint = CleanPack(commits[r.sha], r.dir)

\* A build that did not fall back to the live clone bundles the commit its
\* pack row was pinned to when the launch read it, wherever the branch, the
\* clone and the other builds went meanwhile (resolve_pack_dir).
BuildsPinnedCommit ==
    \A b \in Builds : build[b].pc = "built" /\ build[b].pinned =>
        build[b].got = Content(build[b].row.sha, build[b].row.dir)

\* "a concurrent reader never sees a half-populated snapshot" (_extract_tree).
NeverHalfSnapshot == \A b \in Builds : build[b].pc = "built" => ~build[b].torn

\* "verified = ok and had_yaml and not synthesised": author-declared metadata.
VerifiedIsAuthored ==
    \A n \in Present : packRows[n].verified /\ packRows[n].serial => commits[packRows[n].sha][packRows[n].dir].yaml

\* Once upstream rests, repeated syncs bring the index to its head.
PushReachesIndex == []<>(repo.live => repo.head = Len(commits))
=============================================================================
