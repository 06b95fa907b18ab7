----------------------------- MODULE PackLibrary -----------------------------
(***************************************************************************)
(* The pack library: the packs table, the upload directory and the shared  *)
(* pack source (a bucket or a directory) that mirrors it.                  *)
(*                                                                         *)
(* Three stores with no common transaction are kept in step by the order   *)
(* of the steps of each handler: upload and builder save place a directory,*)
(* commit a row and publish an archive; rename rewrites files, commits and *)
(* moves the archive, new key first; delete removes the archive, then the  *)
(* directory, then the row; a boot seeds the image's packs and imports     *)
(* every archive no pack is named after.                                   *)
(*                                                                         *)
(* Handlers are threads of one process: their steps interleave, a crash    *)
(* ends them all where they stand, any write to the source may be refused. *)
(*                                                                         *)
(* A definition named X_Variant is a broken X used by the mutation tests.  *)
(***************************************************************************)
EXTENDS Integers, FiniteSets, Functions

CONSTANTS
    Clients,      \* request threads
    Names,        \* pack names
    SlugOf,       \* what a name becomes as a directory name and archive key
    Builtins,     \* the names of the packs shipped in the image
    Archives,     \* what operators upload
    Writable,     \* STOKER_PACK_SOURCE_WRITE
    Ops,          \* which requests this instance explores
    MaxId,        \* bound: pack rows ever created
    MaxCopies,    \* bound: directories made from one slug
    MaxRequests,  \* bound: requests started
    MaxCrashes    \* bound: restarts of the control plane

AllOps == {"upload", "create", "save", "rename", "publish", "delete",
           "register", "metric", "spec"}

(* An archive as its guards see it: format and members are judged by       *)
(* content, roots counts the pack roots found, readable says pack.yaml and *)
(* stoker.json parse.  edits: it carries a builder configuration.          *)
ArchiveType == [name: Names, format: {"zip", "tar", "none"}, hostile: BOOLEAN,
                overCap: BOOLEAN, roots: Nat, readable: BOOLEAN, edits: BOOLEAN]

ASSUME ConstantsAssumption ==
    /\ SlugOf \in [Names -> Names]
    /\ \A n \in Names : SlugOf[SlugOf[n]] = SlugOf[n]
    /\ Builtins \subseteq Names
    /\ Archives \subseteq ArchiveType
    /\ Writable \in BOOLEAN
    /\ Ops \subseteq AllOps
    /\ {MaxId, MaxCopies, MaxRequests, MaxCrashes} \subseteq Nat

VARIABLES
    rows,       \* the packs table: id -> row
    specs,      \* the specs table, as the packs each one names
    fs,         \* the upload directory: path -> pack files
    bucket,     \* the pack source: archive key -> pack files
    req,        \* what each request thread is doing
    boot,       \* the boot sequence, or "up"
    used,       \* ids, requests and crashes so far (the bounds)
    trail,      \* history the properties need; no action reads it
    contested   \* packs that two threads, rows or names worked on at once

(* trail.exposed: paths a handler freed while a row still named them.      *)
(* trail.left: archives the code leaves behind and says so, <<pack, key>>. *)
(* trail.mirrored: packs published and not unpublished since.              *)

vars == <<rows, specs, fs, bucket, req, boot, used, trail, contested>>

-----------------------------------------------------------------------------
Slugs == {SlugOf[n] : n \in Names}
Paths == Slugs \X (1 .. MaxCopies)
NoPath == <<"outside", 0>>

(* of is the pack the files belong to: the id of the row first made from   *)
(* them, kept by every copy.                                               *)
Files == [of: 0 .. MaxId, name: Names, edits: BOOLEAN]

(* kind: "local" rows own a path of the upload directory, "builtin" rows a *)
(* directory of the image, "dir" rows an operator's directory, "metric"    *)
(* rows only a configuration.                                              *)
Row == [name: Names, dir: Paths \cup {NoPath}, of: 0 .. MaxId,
        kind: {"local", "builtin", "dir", "metric"}]

AnyName == CHOOSE n \in Names : TRUE
NoFiles == [of |-> 0, name |-> AnyName, edits |-> FALSE]

NoRows == [p \in {} |-> 0]

(* A thread: the request, its next step, the pack row it loaded, the path  *)
(* it works on, the name it will commit and the one it found, the files it *)
(* carries, and the packs or spec row it was asked about.                  *)
Idle == [op |-> "idle", pc |-> "idle", id |-> 0, dir |-> NoPath, name |-> AnyName,
         old |-> AnyName, data |-> NoFiles, extra |-> {}, readable |-> TRUE,
         remote |-> FALSE]

Up == [phase |-> "up", todo |-> {}, known |-> {}, made |-> NoRows]
Booting == [Up EXCEPT !.phase = "seeding", !.todo = Builtins]

Set(f, k, v) == [x \in DOMAIN f \cup {k} |-> IF x = k THEN v ELSE f[x]]
Drop(f, k) == Restrict(f, DOMAIN f \ {k})

archive_name(n) == SlugOf[n]

(* The pack source, S3 or a directory: each call is atomic, none of them   *)
(* is tied to a database transaction.                                      *)
store_list == DOMAIN bucket
store_get(k) == bucket[k]
store_put(k, files) == Set(bucket, k, files)
store_delete(k) == Drop(bucket, k)

owns_directory(r) == r.kind = "local"
builder_pack(r) == owns_directory(r) /\ r.dir \in DOMAIN fs /\ fs[r.dir].edits
is_builtin_pack(r) == r.kind = "builtin"

NameTaken(n, p) == \E q \in DOMAIN rows \ {p} : rows[q].name = n

SpecsNaming(p) == {s \in specs : s.pack = p}
spec_referencing_extra_packs(p) == {s \in specs : p \in s.extra}

(* The format is detected by content, every member has a safe relative     *)
(* path and a regular type, the caps bind on the bytes really written, and *)
(* the root or a single top-level directory is the pack.                   *)
detect_format(a) == a.format
extract_tar(a) == detect_format(a) = "tar" /\ ~a.hostile /\ ~a.overCap
extract_zip(a) == detect_format(a) = "zip" /\ ~a.hostile /\ ~a.overCap
find_pack_root(a) == a.roots = 1
store_uploaded_pack(a) == (extract_tar(a) \/ extract_zip(a)) /\ find_pack_root(a)

(* The first free directory derived from a name.                           *)
unique_pack_dir(n) ==
    {<<SlugOf[n], k>> : k \in {k \in 1 .. MaxCopies :
        /\ <<SlugOf[n], k>> \notin DOMAIN fs
        /\ \A j \in 1 .. k - 1 : <<SlugOf[n], j>> \in DOMAIN fs}}

CanPlace_Replacing(dir) == TRUE

(* os.rename onto a directory that is not empty fails.                     *)
CanPlace(dir) == dir \notin DOMAIN fs

(* The export: the pack's own files under its row's name; nothing to       *)
(* export when the directory is gone.  A metric pack is synthesised from   *)
(* its configuration by Download only: publishing exports a directory.     *)
Exportable(r) == r.kind \in {"builtin", "dir"} \/ (r.kind = "local" /\ r.dir \in DOMAIN fs)
export_pack_bytes(r) ==
    IF r.kind = "local" THEN fs[r.dir]
    ELSE [of |-> r.of, name |-> r.name, edits |-> FALSE]

-----------------------------------------------------------------------------
Init ==
    /\ rows = NoRows
    /\ specs = {}
    /\ fs = [d \in {} |-> NoFiles]
    /\ bucket = [k \in {} |-> NoFiles]
    /\ req = [c \in Clients |-> Idle]
    /\ boot = Booting
    /\ used = [ids |-> 0, requests |-> 0, crashes |-> 0]
    /\ trail = [exposed |-> {}, left |-> {}, mirrored |-> {}]
    /\ contested = {}

(* Two threads on one pack, two rows of one pack or key, a thread whose    *)
(* key another pack's archive is stored under, a row over another's files. *)
KeysOf(q) == IF q.op = "idle" THEN {} ELSE {archive_name(q.name), archive_name(q.old)}
PackOf(R, q) == IF q.id \in DOMAIN R THEN R[q.id].of ELSE q.data.of

Clash(R, Q, B, F) ==
    {R[p].of : p \in {p \in DOMAIN R :
        \/ \E q \in DOMAIN R \ {p} : \/ archive_name(R[q].name) = archive_name(R[p].name)
                                     \/ R[q].of = R[p].of
        \/ \E c, d \in Clients : c # d /\ Q[c].id = p /\ Q[d].id = p
        \/ \E c \in Clients : Q[c].id # p /\ archive_name(R[p].name) \in KeysOf(Q[c])}}
    \cup {B[k].of : k \in {k \in DOMAIN B : \E c \in Clients :
            k \in KeysOf(Q[c]) /\ PackOf(R, Q[c]) # B[k].of}}
    \cup UNION {{R[p].of, F[R[p].dir].of} : p \in {p \in DOMAIN R :
            R[p].dir \in DOMAIN F /\ R[p].of # F[R[p].dir].of}}

Track == contested' = contested \cup Clash(rows', req', bucket', fs')

Serving == boot.phase = "up"

(* A thread takes a request; its first step reads and checks.              *)
Begin(c, op, r) ==
    /\ Serving
    /\ op \in Ops
    /\ req[c].op = "idle"
    /\ used.requests < MaxRequests
    /\ used' = [used EXCEPT !.requests = @ + 1]
    /\ req' = [req EXCEPT ![c] = r]

At(c, op, pc) == req[c].op \in op /\ req[c].pc = pc
Goto(c, pc) == req' = [req EXCEPT ![c].pc = pc]
End(c) == req' = [req EXCEPT ![c] = Idle]

(* Uploads run on the event loop, so after the body is read one upload at  *)
(* a time is between its steps; the other handlers are threads.            *)
upload_pack(c, a) ==
    /\ store_uploaded_pack(a)
    /\ \A d \in Clients : req[d].op # "upload"
    /\ \E dir \in unique_pack_dir(a.name) :
          Begin(c, "upload", [Idle EXCEPT !.op = "upload", !.pc = "place", !.dir = dir,
                  !.name = a.name, !.readable = a.readable,
                  !.data = [of |-> 0, name |-> a.name, edits |-> a.edits]])
    /\ UNCHANGED <<rows, specs, fs, bucket, boot, trail>>
    /\ Track

(* The pack builder writes a new pack into a staging directory.            *)
create_pack(c, n) ==
    /\ ~NameTaken(n, 0)
    /\ \E dir \in unique_pack_dir(n) :
          Begin(c, "create", [Idle EXCEPT !.op = "create", !.pc = "place", !.dir = dir,
                  !.name = n,
                  !.data = [of |-> 0, name |-> n, edits |-> TRUE]])
    /\ UNCHANGED <<rows, specs, fs, bucket, boot, trail>>
    /\ Track

(* The staged directory moves to its final path, which someone may have    *)
(* taken since it was chosen: then the request fails.                      *)
place(c) ==
    /\ At(c, {"upload", "create"}, "place")
    /\ used.ids < MaxId
    /\ IF CanPlace(req[c].dir)
         THEN /\ fs' = Set(fs, req[c].dir, [req[c].data EXCEPT !.of = used.ids + 1])
              /\ used' = [used EXCEPT !.ids = @ + 1]
              /\ req' = [req EXCEPT ![c].pc = "register", ![c].id = used.ids + 1]
         ELSE End(c) /\ UNCHANGED <<fs, used>>
    /\ UNCHANGED <<rows, specs, bucket, boot, trail>>
    /\ Track

(* Metadata and lint, then the row.  Unreadable metadata removes the       *)
(* directory again; a lint failure still registers the pack.               *)
register(c) ==
    /\ At(c, {"upload", "create"}, "register")
    /\ IF req[c].readable
         THEN /\ rows' = Set(rows, req[c].id, [name |-> req[c].name, dir |-> req[c].dir,
                                               of |-> req[c].id, kind |-> "local"])
              /\ req' = [req EXCEPT ![c].pc = "export", ![c].old = req[c].name]
              /\ UNCHANGED fs
         ELSE fs' = Drop(fs, req[c].dir) /\ End(c) /\ UNCHANGED rows
    /\ UNCHANGED <<specs, bucket, boot, used, trail>>
    /\ Track

-----------------------------------------------------------------------------
(* Publishing: export what is on disk, write it, and after a rename remove *)
(* the old key.  Best effort: a refused write ends the request, no more.   *)

publish_pack_to_source(c, p) ==
    /\ Writable /\ p \in DOMAIN rows
    /\ Begin(c, "publish", [Idle EXCEPT !.op = "publish", !.pc = "export", !.id = p,
                             !.name = rows[p].name, !.old = rows[p].name])
    /\ UNCHANGED <<rows, specs, fs, bucket, boot, trail>>
    /\ Track

export(c) ==
    /\ req[c].pc = "export"
    /\ IF Writable /\ req[c].id \in DOMAIN rows /\ Exportable(rows[req[c].id])
         THEN req' = [req EXCEPT ![c].pc = "put", ![c].data = export_pack_bytes(rows[req[c].id])]
         ELSE End(c)
    /\ UNCHANGED <<rows, specs, fs, bucket, boot, used, trail>>
    /\ Track

put_Careless(c, ok) ==
    /\ req[c].pc = "put"
    /\ bucket' = IF ok THEN store_put(archive_name(req[c].name), req[c].data) ELSE bucket
    /\ trail' = [trail EXCEPT !.mirrored = IF ok THEN @ \cup {req[c].data.of} ELSE @]
    /\ IF archive_name(req[c].old) = archive_name(req[c].name) THEN End(c) ELSE Goto(c, "unput")
    /\ UNCHANGED <<rows, specs, fs, boot, used>>
    /\ Track

put(c, ok) ==
    /\ req[c].pc = "put"
    /\ IF ok
         THEN LET key == archive_name(req[c].name)
              IN /\ bucket' = store_put(key, req[c].data)
                 /\ trail' = [trail EXCEPT !.mirrored = @ \cup {req[c].data.of},
                                           !.left = @ \ {<<req[c].data.of, key>>}]
                 /\ IF archive_name(req[c].old) = key THEN End(c) ELSE Goto(c, "unput")
         ELSE End(c) /\ UNCHANGED <<bucket, trail>>
    /\ UNCHANGED <<rows, specs, fs, boot, used>>
    /\ Track

(* The second half of swap_remote.                                         *)
unput(c, ok) ==
    /\ req[c].pc = "unput"
    /\ LET key == archive_name(req[c].old)
       IN IF ok THEN /\ bucket' = store_delete(key)
                     /\ trail' = [trail EXCEPT !.left = @ \ {<<req[c].data.of, key>>}]
                ELSE UNCHANGED <<bucket, trail>>
    /\ End(c)
    /\ UNCHANGED <<rows, specs, fs, boot, used>>
    /\ Track

-----------------------------------------------------------------------------
(* Rename and the builder's save.                                          *)

rename_pack(c, p, n) ==
    /\ p \in DOMAIN rows
    /\ ~is_builtin_pack(rows[p])
    /\ n # rows[p].name /\ ~NameTaken(n, p)
    /\ Begin(c, "rename", [Idle EXCEPT !.op = "rename", !.pc = "rewrite", !.id = p,
                            !.dir = rows[p].dir, !.name = n, !.old = rows[p].name])
    /\ UNCHANGED <<rows, specs, fs, bucket, boot, trail>>
    /\ Track

(* pack.yaml and stoker-builder.json, when the directory is ours and there.*)
rewrite(c) ==
    /\ At(c, {"rename"}, "rewrite")
    /\ fs' = IF req[c].dir \in DOMAIN fs THEN [fs EXCEPT ![req[c].dir].name = req[c].name] ELSE fs
    /\ Goto(c, "commit")
    /\ UNCHANGED <<rows, specs, bucket, boot, used, trail>>
    /\ Track

(* A save rebuilds the pack in a staging directory, and may rename it.     *)
update_pack(c, p, n) ==
    /\ p \in DOMAIN rows
    /\ builder_pack(rows[p])
    /\ ~NameTaken(n, p)
    /\ Begin(c, "save", [Idle EXCEPT !.op = "save", !.pc = "retire", !.id = p,
                          !.dir = rows[p].dir, !.name = n, !.old = rows[p].name,
                          !.data = [of |-> rows[p].of, name |-> n, edits |-> TRUE]])
    /\ UNCHANGED <<rows, specs, fs, bucket, boot, trail>>
    /\ Track

(* The live directory is renamed aside ...                                 *)
retire(c) ==
    /\ At(c, {"save"}, "retire")
    /\ IF req[c].dir \in DOMAIN fs
         THEN /\ fs' = Drop(fs, req[c].dir)
              /\ trail' = [trail EXCEPT !.exposed = @ \cup {req[c].dir}]
              /\ Goto(c, "swap")
         ELSE End(c) /\ UNCHANGED <<fs, trail>>
    /\ UNCHANGED <<rows, specs, bucket, boot, used>>
    /\ Track

(* No other row or thread refers to the path.                              *)
Sole(c, p, dir) ==
    /\ \A q \in DOMAIN rows \ {p} : rows[q].dir # dir
    /\ \A d \in Clients \ {c} : req[d].dir # dir

(* ... and the staged one takes its place.  If the path has been taken the *)
(* rename fails, and so does the one that would undo the first.            *)
swap(c) ==
    /\ At(c, {"save"}, "swap")
    /\ IF CanPlace(req[c].dir)
         THEN /\ fs' = Set(fs, req[c].dir, req[c].data)
              /\ trail' = [trail EXCEPT !.exposed =
                    IF Sole(c, req[c].id, req[c].dir) THEN @ \ {req[c].dir} ELSE @]
              /\ Goto(c, "commit")
         ELSE End(c) /\ UNCHANGED <<fs, trail>>
    /\ UNCHANGED <<rows, specs, bucket, boot, used>>
    /\ Track

(* The row takes its new name (a row deleted meanwhile fails the request); *)
(* from here on the archive under the old key is the one to move.          *)
commit(c) ==
    /\ At(c, {"rename", "save"}, "commit")
    /\ IF req[c].id \in DOMAIN rows
         THEN /\ rows' = [rows EXCEPT ![req[c].id].name = req[c].name]
              /\ trail' = IF archive_name(req[c].old) = archive_name(req[c].name) THEN trail
                          ELSE [trail EXCEPT !.left = @ \cup
                                  {<<rows[req[c].id].of, archive_name(req[c].old)>>}]
              /\ Goto(c, "export")
         ELSE End(c) /\ UNCHANGED <<rows, trail>>
    /\ UNCHANGED <<specs, fs, bucket, boot, used>>
    /\ Track

-----------------------------------------------------------------------------
(* Delete: guards, then the archive, then the directory, then the row.     *)

delete_pack(c, p, remote) ==
    /\ p \in DOMAIN rows
    /\ ~is_builtin_pack(rows[p])
    /\ SpecsNaming(p) = {} /\ spec_referencing_extra_packs(p) = {}
    /\ remote => Writable
    /\ Begin(c, "delete", [Idle EXCEPT !.op = "delete", !.id = p, !.dir = rows[p].dir,
                            !.name = rows[p].name, !.old = rows[p].name, !.remote = remote,
                            !.data = [NoFiles EXCEPT !.of = rows[p].of],
                            !.pc = IF remote THEN "unpublish" ELSE "rmtree"])
    /\ UNCHANGED <<rows, specs, fs, bucket, boot, trail>>
    /\ Track

(* A refusal keeps the local pack.                                         *)
unpublish_pack(c, ok) ==
    /\ At(c, {"delete"}, "unpublish")
    /\ IF ok THEN /\ bucket' = store_delete(archive_name(req[c].name))
                  /\ trail' = [trail EXCEPT !.mirrored = @ \ {req[c].data.of}]
                  /\ Goto(c, "rmtree")
             ELSE End(c) /\ UNCHANGED <<bucket, trail>>
    /\ UNCHANGED <<rows, specs, fs, boot, used>>
    /\ Track

remove_uploaded_pack_dir(c) ==
    /\ At(c, {"delete"}, "rmtree")
    /\ fs' = Drop(fs, req[c].dir)
    /\ trail' = [trail EXCEPT !.exposed = @ \cup ({req[c].dir} \ {NoPath})]
    /\ Goto(c, "drop")
    /\ UNCHANGED <<rows, specs, bucket, boot, used>>
    /\ Track

(* The database refuses to orphan a spec's primary pack; it knows nothing  *)
(* of the extra ones.                                                      *)
drop_row(c) ==
    /\ At(c, {"delete"}, "drop")
    /\ IF req[c].id \in DOMAIN rows /\ SpecsNaming(req[c].id) = {}
         THEN /\ rows' = Drop(rows, req[c].id)
              /\ trail' = [trail EXCEPT
                    !.exposed = IF Sole(c, req[c].id, req[c].dir) THEN @ \ {req[c].dir} ELSE @,
                    !.left = IF req[c].remote THEN @
                             ELSE @ \cup {<<req[c].data.of, archive_name(req[c].name)>>}]
         ELSE UNCHANGED <<rows, trail>>
    /\ End(c)
    /\ UNCHANGED <<specs, fs, bucket, boot, used>>
    /\ Track

-----------------------------------------------------------------------------
(* Rows without a directory of ours, and the specs that name packs.        *)

AddRow(c, op, n, kind) ==
    /\ Serving /\ op \in Ops /\ req[c].op = "idle"
    /\ used.ids < MaxId /\ used.requests < MaxRequests
    /\ used' = [used EXCEPT !.ids = @ + 1, !.requests = @ + 1]
    /\ rows' = Set(rows, used.ids + 1,
                   [name |-> n, dir |-> NoPath, of |-> used.ids + 1, kind |-> kind])
    /\ UNCHANGED <<specs, fs, bucket, req, boot, trail>>
    /\ Track

register_pack(c, n) == AddRow(c, "register", n, "dir")
create_metric_pack(c, n) == AddRow(c, "metric", n, "metric")

(* Every pack exists when it is checked; the row is committed later.       *)
create_spec(c, p, extra) ==
    /\ {p} \cup extra \subseteq DOMAIN rows
    /\ \A q \in extra : rows[q].kind # "metric"
    /\ extra # {} => rows[p].kind # "metric"
    /\ Begin(c, "spec", [Idle EXCEPT !.op = "spec", !.pc = "insert", !.id = p, !.extra = extra])
    /\ UNCHANGED <<rows, specs, fs, bucket, boot, trail>>
    /\ Track

insert_spec(c) ==
    /\ At(c, {"spec"}, "insert")
    /\ specs' = IF req[c].id \in DOMAIN rows
                  THEN specs \cup {[pack |-> req[c].id, extra |-> req[c].extra \ {req[c].id}]}
                  ELSE specs
    /\ End(c)
    /\ UNCHANGED <<rows, fs, bucket, boot, used, trail>>
    /\ Track

delete_spec(s) ==
    /\ Serving /\ s \in specs
    /\ specs' = specs \ {s}
    /\ UNCHANGED <<rows, fs, bucket, req, boot, used, trail>>
    /\ Track

-----------------------------------------------------------------------------
(* Restart.                                                                *)

Crash ==
    /\ used.crashes < MaxCrashes
    /\ used' = [used EXCEPT !.crashes = @ + 1]
    /\ req' = [c \in Clients |-> Idle]
    /\ boot' = Booting
    /\ UNCHANGED <<rows, specs, fs, bucket, trail>>
    /\ Track

HasDir(r) == r.kind \in {"builtin", "dir"} \/ r.dir \in DOMAIN fs

(* A builtin already registered is refreshed; a taken name is skipped,     *)
(* unless the row's directory is gone: that row is adopted.                *)
seed_builtin_packs(b) ==
    /\ boot.phase = "seeding" /\ b \in boot.todo
    /\ boot' = [boot EXCEPT !.todo = @ \ {b}]
    /\ LET same == {p \in DOMAIN rows : rows[p].name = b}
           gone == {p \in same : ~HasDir(rows[p])}
       IN \/ /\ same = {} /\ used.ids < MaxId
             /\ used' = [used EXCEPT !.ids = @ + 1]
             /\ rows' = Set(rows, used.ids + 1, [name |-> b, dir |-> NoPath,
                                                 of |-> used.ids + 1, kind |-> "builtin"])
          \/ \E p \in same :
               /\ \A q \in same : rows[q].kind # "builtin"
               /\ rows' = IF p \in gone THEN [rows EXCEPT ![p].kind = "builtin", ![p].dir = NoPath]
                          ELSE rows
               /\ UNCHANGED used
          \/ /\ \E p \in same : rows[p].kind = "builtin"
             /\ UNCHANGED <<rows, used>>
    /\ UNCHANGED <<specs, fs, bucket, req, trail>>
    /\ Track

(* The listing, and the names it is compared with, are read once.          *)
list_archives(ok) ==
    /\ boot.phase = "seeding" /\ boot.todo = {}
    /\ boot' = [phase |-> "import", todo |-> IF ok THEN store_list ELSE {},
                 known |-> {rows[p].name : p \in DOMAIN rows}, made |-> NoRows]
    /\ UNCHANGED <<rows, specs, fs, bucket, req, used, trail>>
    /\ Track

(* An archive no pack is named after is extracted; one that cannot be      *)
(* fetched, extracted or read is reported and skipped.                     *)
sync_from_store(k, ok) ==
    /\ boot.phase = "import" /\ k \in boot.todo
    /\ IF k \in boot.known \/ ~ok
         THEN boot' = [boot EXCEPT !.todo = @ \ {k}] /\ UNCHANGED <<fs, used>>
         ELSE \E dir \in unique_pack_dir(k) :
                /\ used.ids < MaxId
                /\ used' = [used EXCEPT !.ids = @ + 1]
                /\ fs' = Set(fs, dir, store_get(k))
                /\ boot' = [boot EXCEPT !.todo = @ \ {k},
                      !.made = Set(@, used.ids + 1, [name |-> store_get(k).name, dir |-> dir,
                                                     of |-> store_get(k).of, kind |-> "local"])]
    /\ UNCHANGED <<rows, specs, bucket, req, trail>>
    /\ Track

(* The imported rows are committed together, and requests are served.      *)
load_from_env ==
    /\ boot.phase = "import" /\ boot.todo = {}
    /\ rows' = [p \in DOMAIN rows \cup DOMAIN boot.made |->
                  IF p \in DOMAIN rows THEN rows[p] ELSE boot.made[p]]
    /\ boot' = Up
    /\ UNCHANGED <<specs, fs, bucket, req, used, trail>>
    /\ Track

Next ==
    \/ \E c \in Clients :
         \/ \E a \in Archives : upload_pack(c, a)
         \/ \E n \in Names : \/ create_pack(c, n) \/ register_pack(c, n)
                              \/ create_metric_pack(c, n)
         \/ \E p \in DOMAIN rows :
              \/ publish_pack_to_source(c, p)
              \/ \E n \in Names : rename_pack(c, p, n) \/ update_pack(c, p, n)
              \/ \E remote \in BOOLEAN : delete_pack(c, p, remote)
              \/ \E extra \in SUBSET DOMAIN rows : create_spec(c, p, extra)
         \/ place(c) \/ register(c) \/ export(c) \/ rewrite(c) \/ retire(c) \/ swap(c)
         \/ commit(c) \/ remove_uploaded_pack_dir(c) \/ drop_row(c) \/ insert_spec(c)
         \/ \E ok \in BOOLEAN : put(c, ok) \/ unput(c, ok) \/ unpublish_pack(c, ok)
    \/ \E s \in specs : delete_spec(s)
    \/ Crash
    \/ \E b \in Builtins : seed_builtin_packs(b)
    \/ \E ok \in BOOLEAN : list_archives(ok) \/ \E k \in Slugs : sync_from_store(k, ok)
    \/ load_from_env
Spec == Init /\ [][Next]_vars

-----------------------------------------------------------------------------
(* The directory a pack row names holds that pack's files, whatever        *)
(* uploads, saves, renames, deletes and restarts do, unless the path was   *)
(* freed while the row still named it (the window between a save's two     *)
(* renames, or between a delete's rmtree and its commit) and someone else  *)
(* was there, or a crash was.  os.rename never lands on another's files.   *)
OwnContent ==
    \A p \in DOMAIN rows :
        owns_directory(rows[p]) /\ rows[p].dir \notin trail.exposed =>
            rows[p].dir \in DOMAIN fs /\ fs[rows[p].dir].of = rows[p].of

(* A pack that has reached the bucket stays there under some key through   *)
(* renames, saves, refused writes and crashes (swap_remote: new key first, *)
(* and only then the old one), until it is unpublished on purpose.  Packs  *)
(* that two requests or two like names worked on at once are excepted.     *)
MirrorKept ==
    \A p \in DOMAIN rows :
        rows[p].of \in trail.mirrored \ contested =>
            \E k \in DOMAIN bucket : bucket[k].of = rows[p].of

(* Every archive is one the next boot will not bring back by surprise: it  *)
(* is the current archive of a pack, or the code has reported leaving it   *)
(* (a rename that could not remove the old key, a delete without ?remote). *)
(* So a pack deleted with ?remote=true does not come back.                 *)
ArchivesAccounted ==
    \A k \in DOMAIN bucket :
        \/ bucket[k].of \in contested
        \/ <<bucket[k].of, k>> \in trail.left
        \/ \E p \in DOMAIN rows : rows[p].of = bucket[k].of /\ archive_name(rows[p].name) = k

(* The bucket mirrors the library: what was published is there, and what   *)
(* is there is accounted for.                                              *)
MirrorTrue == MirrorKept /\ ArchivesAccounted

(* Refuted.  sync_from_store's docstring: "Matched by pack name, so        *)
(* re-running imports only what is new".  The archive key is the name's    *)
(* slug, and it is compared with the names: a pack whose name is not its   *)
(* own slug is imported again at every boot.                               *)
ImportedOnce == \A p, q \in DOMAIN rows : rows[p].of = rows[q].of => p = q
=============================================================================
