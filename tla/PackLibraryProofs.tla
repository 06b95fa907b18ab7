------------------------- MODULE PackLibraryProofs -------------------------
(***************************************************************************)
(* Proofs about the pack library.  DirectoriesOwned: a pack row's own      *)
(* directory holds that pack's files.  BucketMirrors: what was published   *)
(* stays in the bucket, and every archive there is accounted for.          *)
(*                                                                         *)
(* Both are kept by what each handler has still to do when the others      *)
(* step in, so their invariants speak of the threads: OwnInv of those that *)
(* are about to register or to replace a directory, MirrorInv of those     *)
(* between two calls of the pack source.                                   *)
(***************************************************************************)
EXTENDS PackLibrary, TLAPS

ReqFields == {"op", "pc", "id", "dir", "name", "old", "data", "extra", "readable", "remote"}
RowFields == {"name", "dir", "of", "kind"}

Placing(q) == q.op \in {"upload", "create"} /\ q.pc = "place"
Registering(q) == q.op \in {"upload", "create"} /\ q.pc = "register"
Saving(q) == q.op = "save" /\ q.pc \in {"retire", "swap"}

(* The path d has the files of pack o, or has been freed under a row.      *)
Holds(F, E, d, o) == d \in E \/ (d \in DOMAIN F /\ F[d].of = o)

RowOK(r, F, E) == DOMAIN r = RowFields /\ (r.kind = "local" => Holds(F, E, r.dir, r.of))

(* A thread about to register owns the path it placed, and no row knows    *)
(* it; one about to replace a directory remembers whose it is.             *)
ThreadOK(q, R, F, E, n) ==
    /\ DOMAIN q = ReqFields /\ "of" \in DOMAIN q.data /\ q.id \in 0 .. n
    /\ Placing(q) \/ Registering(q) \/ Saving(q) => q.dir # NoPath
    /\ Registering(q) =>
         /\ q.id # 0 /\ q.id \notin DOMAIN R /\ Holds(F, E, q.dir, q.id)
         /\ \A p \in DOMAIN R : R[p].kind = "local" /\ R[p].dir = q.dir => q.dir \in E
    /\ Saving(q) /\ q.id \in DOMAIN R => R[q.id].dir = q.dir /\ R[q.id].of = q.data.of

Apart(q, s, E) ==
    Registering(q) => s.id # q.id /\ (Registering(s) /\ s.dir = q.dir => q.dir \in E)

Stores ==
    /\ used.ids \in Nat /\ DOMAIN used = {"ids", "requests", "crashes"}
    /\ DOMAIN trail = {"exposed", "left", "mirrored"}
    /\ NoPath \notin DOMAIN fs /\ \A d \in DOMAIN fs : "of" \in DOMAIN fs[d]
    /\ \A k \in DOMAIN bucket : "of" \in DOMAIN bucket[k]

RowsOwn == \A p \in DOMAIN rows : p \in 0 .. used.ids /\ RowOK(rows[p], fs, trail.exposed)

BootOK ==
    /\ DOMAIN boot = {"phase", "todo", "known", "made"}
    /\ boot.phase \in {"up", "seeding", "import"}
    /\ boot.phase # "up" => \A c \in Clients : req[c] = Idle
    /\ boot.phase # "import" => DOMAIN boot.made = {}
    /\ boot.phase = "import" => boot.todo \subseteq DOMAIN bucket
    /\ \A p \in DOMAIN boot.made :
         p \in 0 .. used.ids /\ RowOK(boot.made[p], fs, trail.exposed)

Threads ==
    /\ DOMAIN req = Clients
    /\ \A c \in Clients :
         /\ ThreadOK(req[c], rows, fs, trail.exposed, used.ids)
         /\ \A d \in Clients \ {c} : Apart(req[c], req[d], trail.exposed)

OwnInv == Stores /\ RowsOwn /\ BootOK /\ Threads

-----------------------------------------------------------------------------
(* A row as far as the invariant sees it.                                  *)
SameRow(r, s) == DOMAIN s = DOMAIN r /\ s.dir = r.dir /\ s.of = r.of /\ s.kind = r.kind

(* Thread c, and no other, goes on as x.                                   *)
Moves(c, x) ==
    DOMAIN req' = Clients /\ req'[c] = x /\ \A d \in Clients \ {c} : req'[d] = req[d]

(* What one thread may do to the stores while the others stand: no path    *)
(* that another thread or row relies on loses its files, but for those in  *)
(* Gone, and one row, p, may come, go or change.                           *)
PathsKept(Gone) ==
    \A e : e \notin Gone =>
        /\ e \in trail.exposed => e \in trail'.exposed
        /\ \A o : Holds(fs, trail.exposed, e, o) => Holds(fs', trail'.exposed, e, o)

RowsKept(p, Gone) ==
    \A r \in DOMAIN rows' : r # p =>
        /\ r \in DOMAIN rows /\ SameRow(rows[r], rows'[r])
        /\ rows[r].kind = "local" => rows[r].dir \notin Gone

NewRow(c, p) ==
    p \in DOMAIN rows' =>
        /\ p \in 0 .. used'.ids /\ RowOK(rows'[p], fs', trail'.exposed)
        /\ \A d \in Clients \ {c} :
             /\ Registering(req[d]) =>
                  /\ req[d].id # p
                  /\ rows'[p].kind = "local" /\ rows'[p].dir = req[d].dir => req[d].dir \in trail'.exposed
             /\ Saving(req[d]) /\ req[d].id = p =>
                  rows'[p].dir = req[d].dir /\ rows'[p].of = req[d].data.of

ThreadsApart(c, x, Gone) ==
    \A d \in Clients \ {c} :
        /\ Registering(req[d]) => req[d].dir \notin Gone
        /\ Apart(x, req[d], trail'.exposed) /\ Apart(req[d], x, trail'.exposed)

(* Such a step keeps the invariant.                                        *)
LEMMA ThreadStep ==
    ASSUME OwnInv, boot.phase = "up", boot' = boot, NEW c \in Clients, NEW x, NEW p, NEW Gone,
           Moves(c, x), Stores', used.ids <= used'.ids,
           PathsKept(Gone), RowsKept(p, Gone), NewRow(c, p), ThreadsApart(c, x, Gone),
           ThreadOK(x, rows', fs', trail'.exposed, used'.ids)
    PROVE  OwnInv'
<1> USE DEF PathsKept, RowsKept, NewRow, ThreadsApart
<1>1. /\ DOMAIN req' = Clients /\ req'[c] = x /\ \A d \in Clients \ {c} : req'[d] = req[d]
  BY DEF Moves
<1>2. used.ids \in Nat /\ used'.ids \in Nat
  BY DEF OwnInv, Stores
<1>3. RowsOwn'
  <2>1. ASSUME NEW r \in DOMAIN rows', r # p
        PROVE  r \in 0 .. used'.ids /\ RowOK(rows'[r], fs', trail'.exposed)
    <3>1. r \in DOMAIN rows /\ r \in 0 .. used.ids /\ RowOK(rows[r], fs, trail.exposed)
      BY <2>1 DEF OwnInv, RowsOwn
    <3>2. r \in 0 .. used'.ids
      BY <1>2, <3>1
    <3>3. RowOK(rows'[r], fs', trail'.exposed)
      BY <2>1, <3>1 DEF RowOK, SameRow
    <3> QED BY <3>2, <3>3
  <2> QED BY <2>1 DEF RowsOwn
<1>4. BootOK'
  BY DEF OwnInv, BootOK
<1>5. ASSUME NEW d \in Clients \ {c}
      PROVE  ThreadOK(req[d], rows', fs', trail'.exposed, used'.ids)
  <2> DEFINE q == req[d]
  <2>1. ThreadOK(q, rows, fs, trail.exposed, used.ids)
    BY DEF OwnInv, Threads
  <2> HIDE DEF q
  <2>2. /\ DOMAIN q = ReqFields /\ "of" \in DOMAIN q.data /\ q.id \in 0 .. used'.ids
        /\ Placing(q) \/ Registering(q) \/ Saving(q) => q.dir # NoPath
    BY <1>2, <2>1 DEF ThreadOK
  <2>3. ASSUME Registering(q)
        PROVE  /\ q.id # 0 /\ q.id \notin DOMAIN rows' /\ Holds(fs', trail'.exposed, q.dir, q.id)
               /\ \A r \in DOMAIN rows' : rows'[r].kind = "local" /\ rows'[r].dir = q.dir
                      => q.dir \in trail'.exposed
    <3>1. q.dir \notin Gone /\ q.id # 0 /\ q.id \notin DOMAIN rows /\ Holds(fs, trail.exposed, q.dir, q.id)
      BY <2>1, <2>3 DEF ThreadOK, q
    <3>2. q.id \notin DOMAIN rows'
      BY <2>3, <3>1 DEF q
    <3>3. Holds(fs', trail'.exposed, q.dir, q.id)
      BY <3>1
    <3>4. ASSUME NEW r \in DOMAIN rows', rows'[r].kind = "local", rows'[r].dir = q.dir
          PROVE  q.dir \in trail'.exposed
      <4>1. CASE r = p
        BY <2>3, <3>4, <4>1 DEF q
      <4>2. CASE r # p
        BY <2>1, <2>3, <3>1, <3>4, <4>2 DEF ThreadOK, SameRow
      <4> QED BY <4>1, <4>2
    <3> QED BY <3>1, <3>2, <3>3, <3>4
  <2>4. Saving(q) /\ q.id \in DOMAIN rows' => rows'[q.id].dir = q.dir /\ rows'[q.id].of = q.data.of
    <3>1. CASE q.id = p
      BY <3>1 DEF q
    <3>2. CASE q.id # p
      BY <2>1, <3>2 DEF ThreadOK, SameRow
    <3> QED BY <3>1, <3>2
  <2>5. ThreadOK(q, rows', fs', trail'.exposed, used'.ids)
    BY <2>2, <2>3, <2>4 DEF ThreadOK
  <2> QED BY <2>5 DEF q
<1>6. ASSUME NEW d \in Clients \ {c}, NEW b \in Clients \ {c, d}
      PROVE  Apart(req[d], req[b], trail'.exposed)
  <2>1. Apart(req[d], req[b], trail.exposed)
    BY DEF OwnInv, Threads
  <2> QED BY <2>1 DEF Apart
<1>7. Threads'
  <2>1. ASSUME NEW d \in Clients
        PROVE  /\ ThreadOK(req'[d], rows', fs', trail'.exposed, used'.ids)
               /\ \A b \in Clients \ {d} : Apart(req'[d], req'[b], trail'.exposed)
    <3>1. CASE d = c
      BY <1>1, <3>1
    <3>2. CASE d # c
      BY <1>1, <1>5, <1>6, <3>2
    <3> QED BY <3>1, <3>2
  <2> QED BY <1>1, <2>1 DEF Threads
<1> QED BY <1>3, <1>4, <1>7 DEF OwnInv

(* A thread at none of the steps that the invariant speaks of.             *)
LEMMA PlainThread ==
    ASSUME NEW q, NEW R, NEW F, NEW E, NEW n, DOMAIN q = ReqFields, "of" \in DOMAIN q.data,
           q.id \in 0 .. n, q.pc \notin {"place", "register", "retire", "swap"}
    PROVE  ThreadOK(q, R, F, E, n) /\ ~Registering(q)
  BY DEF ThreadOK, Placing, Registering, Saving

(* An idle thread is in order.                                             *)
LEMMA IdleThread ==
    ASSUME NEW R, NEW F, NEW E, NEW n \in Nat
    PROVE  ThreadOK(Idle, R, F, E, n) /\ ~Registering(Idle) /\ Idle.id = 0 /\ Idle.pc = "idle"
<1>1. /\ DOMAIN Idle = ReqFields /\ Idle.id = 0 /\ Idle.pc = "idle" /\ Idle.data = NoFiles
  BY DEF Idle, ReqFields
<1>2. "of" \in DOMAIN NoFiles
  BY DEF NoFiles
<1> HIDE DEF Idle
<1> QED BY <1>1, <1>2, PlainThread

(* Requests are served only by a process that is up.                       *)
LEMMA Awake ==
    ASSUME OwnInv, NEW c \in Clients, req[c].pc # "idle"
    PROVE  boot.phase = "up"
  BY DEF OwnInv, BootOK, Idle

(* What is known of a thread and the stores.                               *)
LEMMA Known ==
    ASSUME OwnInv, NEW c \in Clients
    PROVE  /\ ThreadOK(req[c], rows, fs, trail.exposed, used.ids)
           /\ used.ids \in Nat /\ -1 \notin DOMAIN rows
           /\ \A d \in Clients \ {c} : /\ Apart(req[c], req[d], trail.exposed)
                                       /\ Apart(req[d], req[c], trail.exposed)
                                       /\ ThreadOK(req[d], rows, fs, trail.exposed, used.ids)
  BY DEF OwnInv, Stores, RowsOwn, Threads

(* A step that touches neither rows nor directories.                       *)
LEMMA QuietStep ==
    ASSUME OwnInv, boot.phase = "up", boot' = boot, NEW c \in Clients, NEW x, Moves(c, x),
           Stores', rows' = rows, fs' = fs, trail'.exposed = trail.exposed, used'.ids = used.ids,
           ThreadOK(x, rows, fs, trail.exposed, used.ids), ~Registering(x),
           x.id \in {0, req[c].id} \cup DOMAIN rows
    PROVE  OwnInv'
<1>1. used.ids \in Nat /\ -1 \notin DOMAIN rows
  BY Known
<1>2. ASSUME NEW d \in Clients \ {c}
      PROVE  Apart(x, req[d], trail.exposed) /\ Apart(req[d], x, trail.exposed)
  <2>1. Apart(req[d], req[c], trail.exposed) /\ ThreadOK(req[d], rows, fs, trail.exposed, used.ids)
    BY Known
  <2> QED BY <2>1 DEF Apart, ThreadOK
<1>3. RowsKept(-1, {}) /\ NewRow(c, -1)
  BY <1>1 DEF RowsKept, SameRow, NewRow
<1>4. PathsKept({})
  BY DEF PathsKept
<1>5. ThreadsApart(c, x, {})
  BY <1>2 DEF ThreadsApart
<1>6. ThreadOK(x, rows', fs', trail'.exposed, used'.ids) /\ used.ids <= used'.ids
  BY <1>1
<1> QED BY <1>3, <1>4, <1>5, <1>6, ThreadStep

(* The end of a request that changed nothing more.                         *)
LEMMA Ends ==
    ASSUME OwnInv, NEW c \in Clients, End(c)
    PROVE  /\ Moves(c, Idle) /\ Idle.id = 0 /\ ~Registering(Idle)
           /\ \A R, F, E : \A n \in Nat : ThreadOK(Idle, R, F, E, n)
<1>1. Moves(c, Idle)
  BY DEF End, Moves, OwnInv, Threads
<1> QED BY <1>1, IdleThread

(* The next step of a request.                                             *)
LEMMA Goes ==
    ASSUME OwnInv, NEW c \in Clients, NEW pc, Goto(c, pc)
    PROVE  \E x : /\ Moves(c, x) /\ DOMAIN x = ReqFields /\ x.pc = pc
                  /\ \A a \in ReqFields \ {"pc"} : x[a] = req[c][a]
<1>1. DOMAIN req = Clients /\ DOMAIN req[c] = ReqFields
  BY DEF OwnInv, Threads, ThreadOK
<1>2. Moves(c, [req[c] EXCEPT !.pc = pc])
  BY <1>1 DEF Moves, Goto
<1> QED BY <1>1, <1>2 DEF ReqFields

(* A request is taken.                                                     *)
LEMMA Begins ==
    ASSUME OwnInv, NEW c \in Clients, NEW op, NEW x, Begin(c, op, x),
           UNCHANGED <<rows, specs, fs, bucket, boot, trail>>,
           ThreadOK(x, rows, fs, trail.exposed, used.ids), ~Registering(x),
           x.id \in {0} \cup DOMAIN rows
    PROVE  OwnInv'
<1>1. boot.phase = "up" /\ Moves(c, x) /\ used' = [used EXCEPT !.requests = @ + 1]
  BY DEF Begin, Serving, Moves, OwnInv, Threads
<1>2. used'.ids = used.ids /\ DOMAIN used' = DOMAIN used
  BY <1>1 DEF OwnInv, Stores
<1>3. Stores'
  BY <1>2 DEF OwnInv, Stores
<1> QED BY <1>1, <1>2, <1>3, QuietStep

(* The path an upload or a new pack is given is one of ours.               *)
LEMMA FreePath ==
    ASSUME NEW n, NEW dir \in unique_pack_dir(n)
    PROVE  dir # NoPath /\ dir \notin DOMAIN fs
<1>1. PICK k \in 1 .. MaxCopies : dir = <<SlugOf[n], k>> /\ <<SlugOf[n], k>> \notin DOMAIN fs
  BY DEF unique_pack_dir
<1>2. k # 0
  OBVIOUS
<1> QED BY <1>1, <1>2 DEF NoPath

(* The requests that begin.                                                *)
LEMMA UploadBegins ==
    ASSUME OwnInv, NEW c \in Clients, NEW a, upload_pack(c, a) PROVE OwnInv'
<1>1. PICK dir \in unique_pack_dir(a.name) :
        Begin(c, "upload", [Idle EXCEPT !.op = "upload", !.pc = "place", !.dir = dir,
                  !.name = a.name, !.readable = a.readable,
                  !.data = [of |-> 0, name |-> a.name, edits |-> a.edits]])
  BY DEF upload_pack
<1> DEFINE x == [Idle EXCEPT !.op = "upload", !.pc = "place", !.dir = dir,
                  !.name = a.name, !.readable = a.readable,
                  !.data = [of |-> 0, name |-> a.name, edits |-> a.edits]]
<1>2. /\ DOMAIN x = ReqFields /\ x.op = "upload" /\ x.pc = "place" /\ x.id = 0 /\ x.dir = dir
      /\ "of" \in DOMAIN x.data
  BY DEF Idle, ReqFields
<1> HIDE DEF x
<1>3. ThreadOK(x, rows, fs, trail.exposed, used.ids) /\ ~Registering(x)
  BY <1>2, Known, FreePath DEF ThreadOK, Placing, Registering, Saving
<1>4. UNCHANGED <<rows, specs, fs, bucket, boot, trail>>
  BY DEF upload_pack
<1> QED BY <1>1, <1>2, <1>3, <1>4, Begins DEF x

(* A new pack of the builder's begins likewise.                            *)
LEMMA CreateBegins ==
    ASSUME OwnInv, NEW c \in Clients, NEW n, create_pack(c, n) PROVE OwnInv'
<1>1. PICK dir \in unique_pack_dir(n) :
        Begin(c, "create", [Idle EXCEPT !.op = "create", !.pc = "place", !.dir = dir, !.name = n,
                  !.data = [of |-> 0, name |-> n, edits |-> TRUE]])
  BY DEF create_pack
<1> DEFINE x == [Idle EXCEPT !.op = "create", !.pc = "place", !.dir = dir, !.name = n,
                  !.data = [of |-> 0, name |-> n, edits |-> TRUE]]
<1>2. /\ DOMAIN x = ReqFields /\ x.op = "create" /\ x.pc = "place" /\ x.id = 0 /\ x.dir = dir
      /\ "of" \in DOMAIN x.data
  BY DEF Idle, ReqFields
<1> HIDE DEF x
<1>3. ThreadOK(x, rows, fs, trail.exposed, used.ids) /\ ~Registering(x)
  BY <1>2, Known, FreePath DEF ThreadOK, Placing, Registering, Saving
<1>4. UNCHANGED <<rows, specs, fs, bucket, boot, trail>>
  BY DEF create_pack
<1> QED BY <1>1, <1>2, <1>3, <1>4, Begins DEF x

(* Publishing, renaming, deleting and a spec begin at a step of no concern.*)
LEMMA PlainBegins ==
    ASSUME OwnInv, NEW c \in Clients, NEW p \in DOMAIN rows,
           \/ publish_pack_to_source(c, p)
           \/ \E n \in Names : rename_pack(c, p, n)
           \/ \E remote \in BOOLEAN : delete_pack(c, p, remote)
           \/ \E extra \in SUBSET DOMAIN rows : create_spec(c, p, extra)
    PROVE  OwnInv'
<1>0. "of" \in DOMAIN NoFiles /\ Idle.data = NoFiles /\ p \in 0 .. used.ids
  BY DEF NoFiles, Idle, OwnInv, RowsOwn
<1>1. ASSUME NEW op, NEW x, Begin(c, op, x), DOMAIN x = ReqFields, x.id = p, "of" \in DOMAIN x.data,
             x.pc \in {"export", "rewrite", "unpublish", "rmtree", "insert"},
             UNCHANGED <<rows, specs, fs, bucket, boot, trail>>
      PROVE  OwnInv'
  <2>1. ThreadOK(x, rows, fs, trail.exposed, used.ids) /\ ~Registering(x)
    BY <1>0, <1>1, PlainThread
  <2> QED BY <1>1, <2>1, Begins
<1>2. CASE publish_pack_to_source(c, p)
  <2> DEFINE x == [Idle EXCEPT !.op = "publish", !.pc = "export", !.id = p,
                             !.name = rows[p].name, !.old = rows[p].name]
  <2>1. DOMAIN x = ReqFields /\ x.id = p /\ x.data = Idle.data /\ x.pc = "export"
    BY DEF Idle, ReqFields
  <2>2. Begin(c, "publish", x) /\ UNCHANGED <<rows, specs, fs, bucket, boot, trail>>
    BY <1>2 DEF publish_pack_to_source
  <2> HIDE DEF x
  <2> QED BY <1>0, <1>1, <2>1, <2>2
<1>3. ASSUME NEW n \in Names, rename_pack(c, p, n) PROVE OwnInv'
  <2> DEFINE x == [Idle EXCEPT !.op = "rename", !.pc = "rewrite", !.id = p,
                            !.dir = rows[p].dir, !.name = n, !.old = rows[p].name]
  <2>1. DOMAIN x = ReqFields /\ x.id = p /\ x.data = Idle.data /\ x.pc = "rewrite"
    BY DEF Idle, ReqFields
  <2>2. Begin(c, "rename", x) /\ UNCHANGED <<rows, specs, fs, bucket, boot, trail>>
    BY <1>3 DEF rename_pack
  <2> HIDE DEF x
  <2> QED BY <1>0, <1>1, <2>1, <2>2
<1>4. ASSUME NEW remote \in BOOLEAN, delete_pack(c, p, remote) PROVE OwnInv'
  <2> DEFINE x == [Idle EXCEPT !.op = "delete", !.id = p, !.dir = rows[p].dir,
                            !.name = rows[p].name, !.old = rows[p].name, !.remote = remote,
                            !.data = [NoFiles EXCEPT !.of = rows[p].of],
                            !.pc = IF remote THEN "unpublish" ELSE "rmtree"]
  <2>1. /\ DOMAIN x = ReqFields /\ x.id = p /\ x.data = [NoFiles EXCEPT !.of = rows[p].of]
        /\ x.pc \in {"unpublish", "rmtree"}
    BY DEF Idle, ReqFields
  <2>2. Begin(c, "delete", x) /\ UNCHANGED <<rows, specs, fs, bucket, boot, trail>>
    BY <1>4 DEF delete_pack
  <2> HIDE DEF x
  <2>3. "of" \in DOMAIN x.data
    BY <1>0, <2>1
  <2> QED BY <1>1, <2>1, <2>2, <2>3
<1>5. ASSUME NEW extra \in SUBSET DOMAIN rows, create_spec(c, p, extra) PROVE OwnInv'
  <2> DEFINE x == [Idle EXCEPT !.op = "spec", !.pc = "insert", !.id = p, !.extra = extra]
  <2>1. DOMAIN x = ReqFields /\ x.id = p /\ x.data = Idle.data /\ x.pc = "insert"
    BY DEF Idle, ReqFields
  <2>2. Begin(c, "spec", x) /\ UNCHANGED <<rows, specs, fs, bucket, boot, trail>>
    BY <1>5 DEF create_spec
  <2> HIDE DEF x
  <2> QED BY <1>0, <1>1, <2>1, <2>2
<1> QED BY <1>2, <1>3, <1>4, <1>5

(* A save remembers whose directory it will replace.                       *)
LEMMA SaveBegins ==
    ASSUME OwnInv, NEW c \in Clients, NEW p, NEW n, update_pack(c, p, n) PROVE OwnInv'
<1> DEFINE x == [Idle EXCEPT !.op = "save", !.pc = "retire", !.id = p,
                          !.dir = rows[p].dir, !.name = n, !.old = rows[p].name,
                          !.data = [of |-> rows[p].of, name |-> n, edits |-> TRUE]]
<1>1. /\ p \in DOMAIN rows /\ rows[p].dir \in DOMAIN fs /\ Begin(c, "save", x)
      /\ UNCHANGED <<rows, specs, fs, bucket, boot, trail>>
  BY DEF update_pack, builder_pack
<1>2. rows[p].dir # NoPath /\ p \in 0 .. used.ids
  BY <1>1 DEF OwnInv, Stores, RowsOwn
<1>3. /\ DOMAIN x = ReqFields /\ x.op = "save" /\ x.pc = "retire" /\ x.id = p
      /\ x.dir = rows[p].dir /\ x.data.of = rows[p].of /\ "of" \in DOMAIN x.data
  BY DEF Idle, ReqFields
<1> HIDE DEF x
<1>4. ThreadOK(x, rows, fs, trail.exposed, used.ids) /\ ~Registering(x)
  BY <1>2, <1>3 DEF ThreadOK, Placing, Registering, Saving
<1> QED BY <1>1, <1>3, <1>4, Begins

(* A request ends, or goes on, without touching rows and directories.      *)
LEMMA QuietEnd ==
    ASSUME OwnInv, NEW c \in Clients, req[c].pc # "idle", End(c), Stores',
           UNCHANGED <<rows, fs, boot, used>>, trail'.exposed = trail.exposed
    PROVE  OwnInv'
<1>1. boot.phase = "up" /\ used.ids \in Nat
  BY Awake, Known
<1>2. Moves(c, Idle) /\ Idle.id = 0 /\ ~Registering(Idle) /\ ThreadOK(Idle, rows, fs, trail.exposed, used.ids)
  BY <1>1, Ends
<1> QED BY <1>1, <1>2, QuietStep

(* The same when it goes on, to a step that no conjunct speaks of.         *)
LEMMA QuietGoto ==
    ASSUME OwnInv, NEW c \in Clients, req[c].pc # "idle", NEW pc, Goto(c, pc), Stores',
           pc \notin {"place", "register", "retire", "swap"},
           UNCHANGED <<rows, fs, boot, used>>, trail'.exposed = trail.exposed
    PROVE  OwnInv'
<1>1. boot.phase = "up" /\ ThreadOK(req[c], rows, fs, trail.exposed, used.ids)
  BY Awake, Known
<1>2. PICK x : /\ Moves(c, x) /\ DOMAIN x = ReqFields /\ x.pc = pc
               /\ \A a \in ReqFields \ {"pc"} : x[a] = req[c][a]
  BY Goes
<1>3. x.id = req[c].id /\ x.data = req[c].data
  BY <1>2 DEF ReqFields
<1>4. ThreadOK(x, rows, fs, trail.exposed, used.ids) /\ ~Registering(x)
  BY <1>1, <1>2, <1>3, PlainThread DEF ThreadOK
<1> QED BY <1>1, <1>2, <1>3, <1>4, QuietStep

(* What a step that leaves the stores' own shape alone must show.          *)
LEMMA StoresKept ==
    ASSUME OwnInv, used'.ids \in Nat, DOMAIN used' = DOMAIN used, DOMAIN trail' = DOMAIN trail,
           NoPath \notin DOMAIN fs', \A d \in DOMAIN fs' : "of" \in DOMAIN fs'[d],
           \A k \in DOMAIN bucket' : "of" \in DOMAIN bucket'[k]
    PROVE  Stores'
  BY DEF OwnInv, Stores

(* Publishing and the steps that follow touch the bucket only.             *)
LEMMA ExportStep ==
    ASSUME OwnInv, NEW c \in Clients, export(c) PROVE OwnInv'
<1>1. req[c].pc = "export" /\ UNCHANGED <<rows, specs, fs, bucket, boot, used, trail>>
  BY DEF export
<1>2. Stores' /\ boot.phase = "up" /\ ThreadOK(req[c], rows, fs, trail.exposed, used.ids)
  BY <1>1, Awake, Known DEF OwnInv, Stores
<1>3. CASE Writable /\ req[c].id \in DOMAIN rows /\ Exportable(rows[req[c].id])
  <2>1. PICK f : f = export_pack_bytes(rows[req[c].id])
    OBVIOUS
  <2>2. "of" \in DOMAIN f
    BY <1>3, <2>1 DEF export_pack_bytes, Exportable, OwnInv, Stores
  <2>3. req' = [req EXCEPT ![c].pc = "put", ![c].data = f]
    BY <1>3, <2>1 DEF export
  <2>4. DOMAIN req = Clients /\ DOMAIN req[c] = ReqFields /\ req[c].id \in 0 .. used.ids
    BY <1>2 DEF OwnInv, Threads, ThreadOK
  <2>5. PICK x : x = [req[c] EXCEPT !.pc = "put", !.data = f]
    OBVIOUS
  <2>6. Moves(c, x)
    BY <2>3, <2>4, <2>5 DEF Moves
  <2>7. DOMAIN x = ReqFields /\ x.pc = "put" /\ x.data = f /\ x.id = req[c].id
    BY <2>4, <2>5 DEF ReqFields
  <2>8. ThreadOK(x, rows, fs, trail.exposed, used.ids) /\ ~Registering(x)
    BY <2>2, <2>4, <2>7, PlainThread
  <2> QED BY <1>1, <1>2, <2>6, <2>7, <2>8, QuietStep
<1>4. CASE ~(Writable /\ req[c].id \in DOMAIN rows /\ Exportable(rows[req[c].id]))
  <2>1. End(c)
    BY <1>4 DEF export
  <2> QED BY <1>1, <1>2, <2>1, QuietEnd
<1> QED BY <1>3, <1>4

(* The calls of the pack source.                                           *)
LEMMA PutStep ==
    ASSUME OwnInv, NEW c \in Clients, NEW ok \in BOOLEAN,
           put(c, ok) \/ unput(c, ok) \/ unpublish_pack(c, ok)
    PROVE  OwnInv'
<1>1. /\ UNCHANGED <<rows, fs, boot, used>> /\ req[c].pc # "idle"
      /\ End(c) \/ Goto(c, "unput") \/ Goto(c, "rmtree")
  BY DEF put, unput, unpublish_pack, At
<1>2. trail'.exposed = trail.exposed /\ DOMAIN trail' = DOMAIN trail
  BY DEF put, unput, unpublish_pack, OwnInv, Stores
<1>3. \A k \in DOMAIN bucket' : "of" \in DOMAIN bucket'[k]
  <2>1. (\A k \in DOMAIN bucket : "of" \in DOMAIN bucket[k]) /\ "of" \in DOMAIN req[c].data
    BY Known DEF OwnInv, Stores, ThreadOK
  <2>2. CASE bucket' = bucket
    BY <2>1, <2>2
  <2>3. ASSUME NEW k, bucket' = Set(bucket, k, req[c].data)
        PROVE  \A j \in DOMAIN bucket' : "of" \in DOMAIN bucket'[j]
    BY <2>1, <2>3 DEF Set
  <2>4. ASSUME NEW k, bucket' = Drop(bucket, k)
        PROVE  \A j \in DOMAIN bucket' : "of" \in DOMAIN bucket'[j]
    BY <2>1, <2>4 DEF Drop, Restrict
  <2> QED BY <2>2, <2>3, <2>4 DEF put, unput, unpublish_pack, store_put, store_delete
<1>4. Stores'
  BY <1>1, <1>2, <1>3, StoresKept DEF OwnInv, Stores
<1> QED BY <1>1, <1>2, <1>4, QuietEnd, QuietGoto

(* A spec is inserted.                                                     *)
LEMMA InsertSpecStep ==
    ASSUME OwnInv, NEW c \in Clients, insert_spec(c) PROVE OwnInv'
<1>1. /\ UNCHANGED <<rows, fs, bucket, boot, used, trail>> /\ req[c].pc # "idle" /\ End(c)
  BY DEF insert_spec, At
<1>2. Stores'
  BY <1>1 DEF OwnInv, Stores
<1> QED BY <1>1, <1>2, QuietEnd

-----------------------------------------------------------------------------
(* Steps on directories.                                                   *)

(* Rows that stay are no obstacle.                                         *)
LEMMA RowsStay ==
    ASSUME OwnInv, NEW c \in Clients, rows' = rows
    PROVE  RowsKept(-1, {}) /\ NewRow(c, -1)
<1>1. -1 \notin DOMAIN rows
  BY Known
<1> QED BY <1>1 DEF RowsKept, NewRow, SameRow

(* A free path is filled: nobody's files are lost.                         *)
LEMMA PathFilled ==
    ASSUME NEW dir, NEW f, dir \notin DOMAIN fs, fs' = Set(fs, dir, f),
           trail.exposed \subseteq trail'.exposed
    PROVE  PathsKept({}) /\ dir \in DOMAIN fs' /\ fs'[dir] = f
  BY DEF PathsKept, Holds, Set

(* A path is emptied and said to be.                                       *)
LEMMA PathFreed ==
    ASSUME OwnInv, NEW dir, fs' = Drop(fs, dir),
           trail'.exposed = trail.exposed \cup ({dir} \ {NoPath})
    PROVE  PathsKept({})
  BY DEF PathsKept, Holds, Drop, Restrict, OwnInv, Stores

(* The upload directory keeps its shape.                                   *)
LEMMA DirsFilled ==
    ASSUME OwnInv, NEW dir, dir # NoPath, NEW f, "of" \in DOMAIN f, fs' = Set(fs, dir, f),
           used'.ids \in Nat, DOMAIN used' = DOMAIN used, DOMAIN trail' = DOMAIN trail,
           bucket' = bucket
    PROVE  Stores'
<1>1. NoPath \notin DOMAIN fs' /\ \A d \in DOMAIN fs' : "of" \in DOMAIN fs'[d]
  BY DEF OwnInv, Stores, Set
<1> QED BY <1>1 DEF OwnInv, Stores

(* Likewise when a path is emptied.                                        *)
LEMMA DirsFreed ==
    ASSUME OwnInv, NEW dir, fs' = Drop(fs, dir),
           used' = used, DOMAIN trail' = DOMAIN trail, bucket' = bucket
    PROVE  Stores'
<1>1. NoPath \notin DOMAIN fs' /\ \A d \in DOMAIN fs' : "of" \in DOMAIN fs'[d]
  BY DEF OwnInv, Stores, Drop, Restrict
<1> QED BY <1>1 DEF OwnInv, Stores

(* A thread that registers nothing, under an id others may share, leaves   *)
(* the others their own.                                                   *)
LEMMA StaysApart ==
    ASSUME OwnInv, NEW c \in Clients, NEW x, ~Registering(x),
           x.id \in {0, req[c].id} \cup DOMAIN rows
    PROVE  ThreadsApart(c, x, {})
<1>1. ASSUME NEW d \in Clients \ {c}
      PROVE  Apart(x, req[d], trail'.exposed) /\ Apart(req[d], x, trail'.exposed)
  <2>1. Apart(req[d], req[c], trail.exposed) /\ ThreadOK(req[d], rows, fs, trail.exposed, used.ids)
    BY Known
  <2> QED BY <2>1 DEF Apart, ThreadOK
<1> QED BY <1>1 DEF ThreadsApart

(* The staged directory is placed under a fresh id, or the path is taken.  *)
LEMMA PlaceStep ==
    ASSUME OwnInv, NEW c \in Clients, place(c) PROVE OwnInv'
<1>1. /\ req[c].op \in {"upload", "create"} /\ req[c].pc = "place"
      /\ UNCHANGED <<rows, bucket, boot, trail>>
  BY DEF place, At
<1>2. /\ boot.phase = "up" /\ ThreadOK(req[c], rows, fs, trail.exposed, used.ids)
      /\ used.ids \in Nat /\ DOMAIN req = Clients
  BY <1>1, Awake, Known DEF OwnInv, Threads
<1>3. PICK dir : dir = req[c].dir
  OBVIOUS
<1>4. DOMAIN req[c] = ReqFields /\ dir # NoPath /\ "of" \in DOMAIN req[c].data
  BY <1>1, <1>2, <1>3 DEF ThreadOK, Placing
<1>5. CASE ~CanPlace(req[c].dir)
  <2>1. End(c) /\ UNCHANGED <<fs, used>>
    BY <1>5 DEF place
  <2>2. Stores'
    BY <1>1, <2>1 DEF OwnInv, Stores
  <2> QED BY <1>1, <2>1, <2>2, QuietEnd
<1>6. CASE CanPlace(req[c].dir)
  <2>1. PICK i : i = used.ids + 1
    OBVIOUS
  <2>2. PICK f : f = [req[c].data EXCEPT !.of = i]
    OBVIOUS
  <2>3. PICK x : x = [req[c] EXCEPT !.pc = "register", !.id = i]
    OBVIOUS
  <2>4. /\ dir \notin DOMAIN fs /\ fs' = Set(fs, dir, f) /\ used' = [used EXCEPT !.ids = i]
        /\ req' = [req EXCEPT ![c].pc = "register", ![c].id = i]
    BY <1>3, <1>6, <2>1, <2>2 DEF place, CanPlace
  <2>5. Moves(c, x)
    BY <1>2, <2>3, <2>4 DEF Moves
  <2>6. /\ DOMAIN x = ReqFields /\ x.op = req[c].op /\ x.pc = "register" /\ x.id = i
        /\ x.dir = dir /\ x.data = req[c].data
    BY <1>3, <1>4, <2>3 DEF ReqFields
  <2>7. "of" \in DOMAIN f /\ f.of = i
    BY <1>4, <2>2
  <2>8. i \in Nat /\ i # 0 /\ used'.ids = i /\ DOMAIN used' = DOMAIN used /\ used.ids < i
    BY <1>2, <2>1, <2>4 DEF OwnInv, Stores
  <2>9. PathsKept({}) /\ dir \in DOMAIN fs' /\ fs'[dir] = f
    BY <1>1, <2>4, PathFilled
  <2>10. \A p \in DOMAIN rows : p # i /\ (rows[p].kind = "local" /\ rows[p].dir = dir => dir \in trail.exposed)
    BY <1>2, <2>4, <2>8 DEF OwnInv, RowsOwn, RowOK, Holds
  <2>11. ThreadOK(x, rows, fs', trail.exposed, i)
    BY <1>1, <1>4, <2>6, <2>7, <2>8, <2>9, <2>10 DEF ThreadOK, Placing, Registering, Saving, Holds
  <2>12. ThreadsApart(c, x, {})
    <3>1. ASSUME NEW d \in Clients \ {c}
          PROVE  /\ req[d].id # i
                 /\ Registering(req[d]) /\ req[d].dir = dir => dir \in trail.exposed
      <4>1. ThreadOK(req[d], rows, fs, trail.exposed, used.ids)
        BY Known
      <4> QED BY <1>2, <2>4, <2>8, <4>1 DEF ThreadOK, Holds
    <3> QED BY <1>1, <2>6, <3>1 DEF ThreadsApart, Apart
  <2>13. Stores'
    BY <1>1, <1>4, <2>4, <2>7, <2>8, DirsFilled
  <2>14. RowsKept(-1, {}) /\ NewRow(c, -1)
    BY <1>1, RowsStay
  <2>15. ThreadOK(x, rows', fs', trail'.exposed, used'.ids) /\ used.ids <= used'.ids
    BY <1>1, <1>2, <2>8, <2>11
  <2> QED BY <1>1, <1>2, <2>5, <2>9, <2>12, <2>13, <2>14, <2>15, ThreadStep
<1> QED BY <1>5, <1>6

(* The row is registered.                                                  *)
LEMMA RegisterRow ==
    ASSUME OwnInv, NEW c \in Clients, register(c), req[c].readable PROVE OwnInv'
<1>1. /\ req[c].op \in {"upload", "create"} /\ req[c].pc = "register"
      /\ UNCHANGED <<fs, bucket, boot, used, trail>>
  BY DEF register, At
<1>2. /\ boot.phase = "up" /\ ThreadOK(req[c], rows, fs, trail.exposed, used.ids)
      /\ used.ids \in Nat /\ DOMAIN req = Clients
  BY <1>1, Awake, Known DEF OwnInv, Threads
<1>3. PICK i, dir, n : i = req[c].id /\ dir = req[c].dir /\ n = req[c].name
  OBVIOUS
<1>4. PICK row : row = [name |-> n, dir |-> dir, of |-> i, kind |-> "local"]
  OBVIOUS
<1>5. PICK x : x = [req[c] EXCEPT !.pc = "export", !.old = n]
  OBVIOUS
<1>6. /\ rows' = Set(rows, i, row) /\ req' = [req EXCEPT ![c].pc = "export", ![c].old = n]
  BY <1>3, <1>4 DEF register
<1>7. /\ DOMAIN req[c] = ReqFields /\ "of" \in DOMAIN req[c].data /\ i \in 0 .. used.ids
      /\ i \notin DOMAIN rows /\ Holds(fs, trail.exposed, dir, i)
  BY <1>1, <1>2, <1>3 DEF ThreadOK, Registering
<1>8. Moves(c, x)
  BY <1>2, <1>5, <1>6 DEF Moves
<1>9. DOMAIN x = ReqFields /\ x.pc = "export" /\ x.id = i /\ x.data = req[c].data
  BY <1>3, <1>5, <1>7 DEF ReqFields
<1>10. ThreadOK(x, rows', fs', trail'.exposed, used'.ids) /\ ~Registering(x)
  BY <1>1, <1>7, <1>9, PlainThread
<1>11. RowsKept(i, {})
  BY <1>6 DEF RowsKept, Set, SameRow
<1>12. NewRow(c, i)
  <2>1. rows'[i] = row /\ row.kind = "local" /\ row.dir = dir /\ row.of = i /\ DOMAIN row = RowFields
    BY <1>4, <1>6 DEF Set, RowFields
  <2>2. RowOK(rows'[i], fs', trail'.exposed)
    BY <1>1, <1>7, <2>1 DEF RowOK
  <2>3. ASSUME NEW d \in Clients \ {c}
        PROVE  /\ req[d].id # i
               /\ Registering(req[d]) /\ req[d].dir = dir => dir \in trail.exposed
    <3>1. Apart(req[c], req[d], trail.exposed) /\ Registering(req[c])
      BY <1>1, Known DEF Registering
    <3> QED BY <1>3, <3>1 DEF Apart
  <2> QED BY <1>1, <1>7, <2>1, <2>2, <2>3 DEF NewRow
<1>13. ThreadsApart(c, x, {})
  BY <1>1, <1>3, <1>9, <1>10, StaysApart
<1>14. PathsKept({}) /\ Stores' /\ used.ids <= used'.ids
  BY <1>1, <1>2 DEF PathsKept, OwnInv, Stores
<1> QED BY <1>1, <1>2, <1>8, <1>10, <1>11, <1>12, <1>13, <1>14, ThreadStep

(* Unreadable metadata: the directory is removed again.  Whoever else      *)
(* names the path knows that it was freed before.                          *)
LEMMA RegisterRefused ==
    ASSUME OwnInv, NEW c \in Clients, register(c), ~req[c].readable PROVE OwnInv'
<1>1. /\ req[c].op \in {"upload", "create"} /\ req[c].pc = "register"
      /\ UNCHANGED <<rows, bucket, boot, used, trail>> /\ fs' = Drop(fs, req[c].dir) /\ End(c)
  BY DEF register, At
<1>2. /\ boot.phase = "up" /\ ThreadOK(req[c], rows, fs, trail.exposed, used.ids)
      /\ used.ids \in Nat /\ Registering(req[c])
  BY <1>1, Awake, Known DEF Registering
<1>3. PICK dir : dir = req[c].dir
  OBVIOUS
<1>4. PICK Gone : Gone = {dir} \ trail.exposed
  OBVIOUS
<1>5. Moves(c, Idle) /\ Idle.id = 0 /\ ~Registering(Idle) /\ ThreadOK(Idle, rows', fs', trail'.exposed, used'.ids)
  BY <1>1, <1>2, Ends
<1>6. PathsKept(Gone)
  BY <1>1, <1>3, <1>4 DEF PathsKept, Holds, Drop, Restrict
<1>7. RowsKept(-1, Gone) /\ NewRow(c, -1)
  <2>1. -1 \notin DOMAIN rows
    BY Known
  <2>2. \A r \in DOMAIN rows : rows[r].kind = "local" => rows[r].dir \notin Gone
    BY <1>2, <1>3, <1>4 DEF ThreadOK
  <2> QED BY <1>1, <2>1, <2>2 DEF RowsKept, NewRow, SameRow
<1>8. ThreadsApart(c, Idle, Gone)
  <2>1. ThreadsApart(c, Idle, {})
    BY <1>1, <1>5, StaysApart
  <2>2. ASSUME NEW d \in Clients \ {c}, Registering(req[d]) PROVE req[d].dir \notin Gone
    <3>1. Apart(req[c], req[d], trail.exposed)
      BY Known
    <3> QED BY <1>2, <1>3, <1>4, <2>2, <3>1 DEF Apart
  <2> QED BY <2>1, <2>2 DEF ThreadsApart
<1>9. Stores' /\ used.ids <= used'.ids
  BY <1>1, <1>2, DirsFreed
<1> QED BY <1>1, <1>2, <1>5, <1>6, <1>7, <1>8, <1>9, ThreadStep

(* A rename rewrites the name inside the directory.                        *)
LEMMA RewriteStep ==
    ASSUME OwnInv, NEW c \in Clients, rewrite(c) PROVE OwnInv'
<1>1. /\ req[c].pc = "rewrite" /\ Goto(c, "commit") /\ UNCHANGED <<rows, bucket, boot, used, trail>>
  BY DEF rewrite, At
<1>2. boot.phase = "up" /\ ThreadOK(req[c], rows, fs, trail.exposed, used.ids) /\ used.ids \in Nat
  BY <1>1, Awake, Known
<1>3. PICK x : /\ Moves(c, x) /\ DOMAIN x = ReqFields /\ x.pc = "commit"
               /\ \A a \in ReqFields \ {"pc"} : x[a] = req[c][a]
  BY <1>1, Goes
<1>4. x.id = req[c].id /\ x.data = req[c].data
  BY <1>3 DEF ReqFields
<1>5. ThreadOK(x, rows', fs', trail'.exposed, used'.ids) /\ ~Registering(x)
  BY <1>1, <1>2, <1>3, <1>4, PlainThread DEF ThreadOK
<1>6. DOMAIN fs' = DOMAIN fs /\ \A d \in DOMAIN fs : "of" \in DOMAIN fs'[d] /\ fs'[d].of = fs[d].of
  <2>1. PICK n, dir : n = req[c].name /\ dir = req[c].dir
    OBVIOUS
  <2>2. fs' = IF dir \in DOMAIN fs THEN [fs EXCEPT ![dir].name = n] ELSE fs
    BY <2>1 DEF rewrite
  <2>3. \A d \in DOMAIN fs : "of" \in DOMAIN fs[d]
    BY DEF OwnInv, Stores
  <2> QED BY <2>2, <2>3
<1>7. PathsKept({}) /\ Stores' /\ used.ids <= used'.ids
  BY <1>1, <1>2, <1>6 DEF PathsKept, Holds, OwnInv, Stores
<1>8. ThreadsApart(c, x, {}) /\ RowsKept(-1, {}) /\ NewRow(c, -1)
  BY <1>1, <1>4, <1>5, StaysApart, RowsStay
<1> QED BY <1>1, <1>2, <1>3, <1>5, <1>7, <1>8, ThreadStep

(* A save moves the live directory aside.                                  *)
LEMMA RetireStep ==
    ASSUME OwnInv, NEW c \in Clients, retire(c) PROVE OwnInv'
<1>1. req[c].op = "save" /\ req[c].pc = "retire" /\ UNCHANGED <<rows, bucket, boot, used>>
  BY DEF retire, At
<1>2. boot.phase = "up" /\ ThreadOK(req[c], rows, fs, trail.exposed, used.ids) /\ used.ids \in Nat
  BY <1>1, Awake, Known
<1>3. CASE req[c].dir \notin DOMAIN fs
  <2>1. End(c) /\ UNCHANGED <<fs, trail>>
    BY <1>3 DEF retire
  <2>2. Stores'
    BY <1>1, <2>1 DEF OwnInv, Stores
  <2> QED BY <1>1, <2>1, <2>2, QuietEnd
<1>4. CASE req[c].dir \in DOMAIN fs
  <2>1. PICK dir : dir = req[c].dir
    OBVIOUS
  <2>2. /\ fs' = Drop(fs, dir) /\ trail' = [trail EXCEPT !.exposed = @ \cup {dir}] /\ Goto(c, "swap")
    BY <1>4, <2>1 DEF retire
  <2>3. trail'.exposed = trail.exposed \cup {dir} /\ DOMAIN trail' = DOMAIN trail
    BY <2>2 DEF OwnInv, Stores
  <2>4. dir # NoPath
    BY <1>1, <1>2, <2>1 DEF ThreadOK, Saving
  <2>5. PICK x : /\ Moves(c, x) /\ DOMAIN x = ReqFields /\ x.pc = "swap"
                 /\ \A a \in ReqFields \ {"pc"} : x[a] = req[c][a]
    BY <2>2, Goes
  <2>6. x.op = "save" /\ x.id = req[c].id /\ x.data = req[c].data /\ x.dir = req[c].dir
    BY <1>1, <2>5 DEF ReqFields
  <2>7. ThreadOK(x, rows', fs', trail'.exposed, used'.ids) /\ ~Registering(x)
    BY <1>1, <1>2, <2>5, <2>6 DEF ThreadOK, Placing, Registering, Saving
  <2>8. PathsKept({}) /\ Stores' /\ used.ids <= used'.ids
    BY <1>1, <1>2, <2>2, <2>3, <2>4, PathFreed, DirsFreed
  <2>9. ThreadsApart(c, x, {}) /\ RowsKept(-1, {}) /\ NewRow(c, -1)
    BY <1>1, <2>6, <2>7, StaysApart, RowsStay
  <2> QED BY <1>1, <1>2, <2>5, <2>7, <2>8, <2>9, ThreadStep
<1> QED BY <1>3, <1>4

(* The staged directory takes the place.  Nobody else at the path: the row *)
(* has its own files again.                                                *)
LEMMA SwapStep ==
    ASSUME OwnInv, NEW c \in Clients, swap(c) PROVE OwnInv'
<1>1. req[c].op = "save" /\ req[c].pc = "swap" /\ UNCHANGED <<rows, bucket, boot, used>>
  BY DEF swap, At
<1>2. boot.phase = "up" /\ ThreadOK(req[c], rows, fs, trail.exposed, used.ids) /\ used.ids \in Nat
  BY <1>1, Awake, Known
<1>3. CASE ~CanPlace(req[c].dir)
  <2>1. End(c) /\ UNCHANGED <<fs, trail>>
    BY <1>3 DEF swap
  <2>2. Stores'
    BY <1>1, <2>1 DEF OwnInv, Stores
  <2> QED BY <1>1, <2>1, <2>2, QuietEnd
<1>4. CASE CanPlace(req[c].dir)
  <2>1. PICK dir, i, f : dir = req[c].dir /\ i = req[c].id /\ f = req[c].data
    OBVIOUS
  <2>2. /\ dir \notin DOMAIN fs /\ fs' = Set(fs, dir, f) /\ Goto(c, "commit")
        /\ trail' = [trail EXCEPT !.exposed = IF Sole(c, i, dir) THEN @ \ {dir} ELSE @]
    BY <1>4, <2>1 DEF swap, CanPlace
  <2>3. /\ trail'.exposed = IF Sole(c, i, dir) THEN trail.exposed \ {dir} ELSE trail.exposed
        /\ DOMAIN trail' = DOMAIN trail
    BY <2>2 DEF OwnInv, Stores
  <2>4. /\ dir # NoPath /\ "of" \in DOMAIN f
        /\ i \in DOMAIN rows => rows[i].dir = dir /\ rows[i].of = f.of
    BY <1>1, <1>2, <2>1 DEF ThreadOK, Saving
  <2>5. PICK x : /\ Moves(c, x) /\ DOMAIN x = ReqFields /\ x.pc = "commit"
                 /\ \A a \in ReqFields \ {"pc"} : x[a] = req[c][a]
    BY <2>2, Goes
  <2>6. x.id = req[c].id /\ x.data = req[c].data
    BY <2>5 DEF ReqFields
  <2>7. ThreadOK(x, rows', fs', trail'.exposed, used'.ids) /\ ~Registering(x)
    BY <1>1, <1>2, <2>5, <2>6, PlainThread DEF ThreadOK
  <2>8. Stores' /\ used.ids <= used'.ids
    BY <1>1, <1>2, <2>2, <2>3, <2>4, DirsFilled
  <2>9. ThreadsApart(c, x, {})
    BY <2>6, <2>7, StaysApart
  <2>10. CASE ~Sole(c, i, dir)
    <3>1. PathsKept({})
      BY <2>2, <2>3, <2>10, PathFilled
    <3>2. RowsKept(-1, {}) /\ NewRow(c, -1)
      BY <1>1, RowsStay
    <3> QED BY <1>1, <1>2, <2>5, <2>7, <2>8, <2>9, <3>1, <3>2, ThreadStep
  <2>11. CASE Sole(c, i, dir)
    <3>1. /\ \A r \in DOMAIN rows \ {i} : rows[r].dir # dir
          /\ \A d \in Clients \ {c} : req[d].dir # dir
      BY <2>11 DEF Sole
    <3>2. PathsKept({dir}) /\ dir \in DOMAIN fs' /\ fs'[dir] = f
      BY <2>2, <2>3, <2>11 DEF PathsKept, Holds, Set
    <3>3. RowsKept(i, {dir})
      BY <1>1, <3>1 DEF RowsKept, SameRow
    <3>4. NewRow(c, i)
      <4>1. ASSUME i \in DOMAIN rows
            PROVE  i \in 0 .. used'.ids /\ RowOK(rows'[i], fs', trail'.exposed)
        BY <1>1, <2>4, <3>2, <4>1 DEF OwnInv, RowsOwn, RowOK, Holds
      <4>2. ASSUME i \in DOMAIN rows, NEW d \in Clients \ {c}
            PROVE  /\ Registering(req[d]) => req[d].id # i
                   /\ Saving(req[d]) /\ req[d].id = i => rows[i].dir = req[d].dir /\ rows[i].of = req[d].data.of
        <5>1. ThreadOK(req[d], rows, fs, trail.exposed, used.ids)
          BY Known
        <5> QED BY <4>2, <5>1 DEF ThreadOK
      <4> QED BY <1>1, <2>4, <3>1, <4>1, <4>2 DEF NewRow
    <3>5. ThreadsApart(c, x, {dir})
      BY <2>9, <3>1 DEF ThreadsApart
    <3> QED BY <1>1, <1>2, <2>5, <2>7, <2>8, <3>2, <3>3, <3>4, <3>5, ThreadStep
  <2> QED BY <2>10, <2>11
<1> QED BY <1>3, <1>4

(* The row takes its new name.                                             *)
LEMMA CommitStep ==
    ASSUME OwnInv, NEW c \in Clients, commit(c) PROVE OwnInv'
<1>1. req[c].pc = "commit" /\ UNCHANGED <<fs, bucket, boot, used>>
  BY DEF commit, At
<1>2. boot.phase = "up" /\ ThreadOK(req[c], rows, fs, trail.exposed, used.ids) /\ used.ids \in Nat
  BY <1>1, Awake, Known
<1>3. CASE req[c].id \notin DOMAIN rows
  <2>1. End(c) /\ UNCHANGED <<rows, trail>>
    BY <1>3 DEF commit
  <2>2. Stores'
    BY <1>1, <2>1 DEF OwnInv, Stores
  <2> QED BY <1>1, <2>1, <2>2, QuietEnd
<1>4. CASE req[c].id \in DOMAIN rows
  <2>1. PICK i, n : i = req[c].id /\ n = req[c].name
    OBVIOUS
  <2>2. rows' = [rows EXCEPT ![i].name = n] /\ Goto(c, "export")
    BY <1>4, <2>1 DEF commit
  <2>3. trail'.exposed = trail.exposed /\ DOMAIN trail' = DOMAIN trail
    BY <1>4 DEF commit, OwnInv, Stores
  <2>4. PICK x : /\ Moves(c, x) /\ DOMAIN x = ReqFields /\ x.pc = "export"
                 /\ \A a \in ReqFields \ {"pc"} : x[a] = req[c][a]
    BY <2>2, Goes
  <2>5. x.id = req[c].id /\ x.data = req[c].data
    BY <2>4 DEF ReqFields
  <2>6. ThreadOK(x, rows', fs', trail'.exposed, used'.ids) /\ ~Registering(x)
    BY <1>1, <1>2, <2>4, <2>5, PlainThread DEF ThreadOK
  <2>7. DOMAIN rows' = DOMAIN rows /\ -1 \notin DOMAIN rows
    BY <2>2, Known
  <2>8. \A r \in DOMAIN rows : SameRow(rows[r], rows'[r])
    <3>1. \A r \in DOMAIN rows : DOMAIN rows[r] = RowFields
      BY DEF OwnInv, RowsOwn, RowOK
    <3> QED BY <2>2, <3>1 DEF SameRow, RowFields
  <2>9. RowsKept(-1, {}) /\ NewRow(c, -1)
    BY <2>7, <2>8 DEF RowsKept, NewRow
  <2>10. PathsKept({}) /\ Stores' /\ used.ids <= used'.ids
    BY <1>1, <1>2, <2>3 DEF PathsKept, OwnInv, Stores
  <2>11. ThreadsApart(c, x, {})
    BY <2>5, <2>6, StaysApart
  <2> QED BY <1>1, <1>2, <2>4, <2>6, <2>9, <2>10, <2>11, ThreadStep
<1> QED BY <1>3, <1>4

(* A delete frees the directory ...                                        *)
LEMMA RemoveStep ==
    ASSUME OwnInv, NEW c \in Clients, remove_uploaded_pack_dir(c) PROVE OwnInv'
<1>1. /\ req[c].pc = "rmtree" /\ Goto(c, "drop") /\ UNCHANGED <<rows, bucket, boot, used>>
      /\ trail' = [trail EXCEPT !.exposed = @ \cup ({req[c].dir} \ {NoPath})]
      /\ fs' = Drop(fs, req[c].dir)
  BY DEF remove_uploaded_pack_dir, At
<1>2. boot.phase = "up" /\ ThreadOK(req[c], rows, fs, trail.exposed, used.ids) /\ used.ids \in Nat
  BY <1>1, Awake, Known
<1>3. /\ trail'.exposed = trail.exposed \cup ({req[c].dir} \ {NoPath})
      /\ DOMAIN trail' = DOMAIN trail
  BY <1>1 DEF OwnInv, Stores
<1>4. PICK x : /\ Moves(c, x) /\ DOMAIN x = ReqFields /\ x.pc = "drop"
               /\ \A a \in ReqFields \ {"pc"} : x[a] = req[c][a]
  BY <1>1, Goes
<1>5. x.id = req[c].id /\ x.data = req[c].data
  BY <1>4 DEF ReqFields
<1>6. ThreadOK(x, rows', fs', trail'.exposed, used'.ids) /\ ~Registering(x)
  BY <1>1, <1>2, <1>4, <1>5, PlainThread DEF ThreadOK
<1>7. PathsKept({}) /\ Stores' /\ used.ids <= used'.ids
  BY <1>1, <1>2, <1>3, PathFreed, DirsFreed
<1>8. ThreadsApart(c, x, {}) /\ RowsKept(-1, {}) /\ NewRow(c, -1)
  BY <1>1, <1>5, <1>6, StaysApart, RowsStay
<1> QED BY <1>1, <1>2, <1>4, <1>6, <1>7, <1>8, ThreadStep

(* ... and then the row, which may give the path back.                     *)
LEMMA DropStep ==
    ASSUME OwnInv, NEW c \in Clients, drop_row(c) PROVE OwnInv'
<1>1. req[c].pc = "drop" /\ End(c) /\ UNCHANGED <<fs, bucket, boot, used>>
  BY DEF drop_row, At
<1>2. boot.phase = "up" /\ used.ids \in Nat
  BY <1>1, Awake, Known
<1>3. CASE UNCHANGED <<rows, trail>>
  <2>1. Stores'
    BY <1>1, <1>3 DEF OwnInv, Stores
  <2> QED BY <1>1, <1>3, <2>1, QuietEnd
<1>4. CASE req[c].id \in DOMAIN rows /\ SpecsNaming(req[c].id) = {}
  <2>1. PICK dir, i : dir = req[c].dir /\ i = req[c].id
    OBVIOUS
  <2>2. PICK Gone : Gone = IF Sole(c, i, dir) THEN {dir} ELSE {}
    OBVIOUS
  <2>3. rows' = Drop(rows, i)
    BY <1>4, <2>1 DEF drop_row
  <2>4. trail'.exposed = trail.exposed \ Gone /\ DOMAIN trail' = DOMAIN trail
    BY <1>4, <2>1, <2>2 DEF drop_row, OwnInv, Stores
  <2>5. /\ \A r \in DOMAIN rows \ {i} : rows[r].dir \notin Gone
        /\ \A d \in Clients \ {c} : req[d].dir \notin Gone
    BY <2>2 DEF Sole
  <2>6. Moves(c, Idle) /\ Idle.id = 0 /\ ~Registering(Idle) /\ ThreadOK(Idle, rows', fs', trail'.exposed, used'.ids)
    BY <1>1, <1>2, Ends
  <2>7. PathsKept(Gone)
    BY <1>1, <2>4 DEF PathsKept, Holds
  <2>8. RowsKept(i, Gone) /\ NewRow(c, i)
    BY <2>3, <2>5 DEF RowsKept, NewRow, Drop, Restrict, SameRow
  <2>9. ThreadsApart(c, Idle, Gone)
    <3>1. ThreadsApart(c, Idle, {})
      BY <2>6, StaysApart
    <3> QED BY <2>5, <3>1 DEF ThreadsApart
  <2>10. Stores' /\ used.ids <= used'.ids
    BY <1>1, <1>2, <2>4 DEF OwnInv, Stores
  <2> QED BY <1>1, <1>2, <2>6, <2>7, <2>8, <2>9, <2>10, ThreadStep
<1> QED BY <1>3, <1>4 DEF drop_row

(* Rows without a directory of ours.                                       *)
LEMMA AddRowStep ==
    ASSUME OwnInv, NEW c \in Clients, NEW op, NEW n, NEW kind \in {"dir", "metric"}, AddRow(c, op, n, kind)
    PROVE  OwnInv'
<1>1. /\ boot.phase = "up" /\ req[c].op = "idle" /\ UNCHANGED <<fs, bucket, req, boot, trail>>
      /\ used' = [used EXCEPT !.ids = @ + 1, !.requests = @ + 1]
  BY DEF AddRow, Serving
<1>2. ThreadOK(req[c], rows, fs, trail.exposed, used.ids) /\ used.ids \in Nat /\ DOMAIN req = Clients
  BY Known DEF OwnInv, Threads
<1>3. PICK i : i = used.ids + 1
  OBVIOUS
<1>4. PICK row : row = [name |-> n, dir |-> NoPath, of |-> i, kind |-> kind]
  OBVIOUS
<1>5. rows' = Set(rows, i, row)
  BY <1>3, <1>4 DEF AddRow
<1>6. used'.ids = i /\ DOMAIN used' = DOMAIN used /\ i \in Nat /\ used.ids < i
  BY <1>1, <1>2, <1>3 DEF OwnInv, Stores
<1>7. Moves(c, req[c])
  BY <1>1, <1>2 DEF Moves
<1>8. ~Placing(req[c]) /\ ~Registering(req[c]) /\ ~Saving(req[c])
  BY <1>1 DEF Placing, Registering, Saving
<1>9. ThreadOK(req[c], rows', fs', trail'.exposed, used'.ids)
  BY <1>2, <1>6, <1>8 DEF ThreadOK
<1>10. RowsKept(i, {})
  BY <1>5 DEF RowsKept, SameRow, Set
<1>11. NewRow(c, i)
  <2>1. rows'[i] = row /\ row.kind # "local" /\ DOMAIN row = RowFields
    BY <1>4, <1>5 DEF Set, RowFields
  <2>2. ASSUME NEW d \in Clients \ {c} PROVE req[d].id # i
    <3>1. ThreadOK(req[d], rows, fs, trail.exposed, used.ids)
      BY Known
    <3> QED BY <1>2, <1>6, <3>1 DEF ThreadOK
  <2>3. i \in 0 .. used'.ids
    BY <1>6
  <2> QED BY <2>1, <2>2, <2>3 DEF NewRow, RowOK
<1>12. PathsKept({}) /\ Stores' /\ used.ids <= used'.ids
  BY <1>1, <1>2, <1>6 DEF PathsKept, OwnInv, Stores
<1>13. ThreadsApart(c, req[c], {})
  BY <1>8, StaysApart
<1> QED BY <1>1, <1>7, <1>9, <1>10, <1>11, <1>12, <1>13, ThreadStep

-----------------------------------------------------------------------------
(* The restart and the boot.                                               *)

(* Nothing changes that the invariant speaks of.                           *)
LEMMA Untouched ==
    ASSUME OwnInv, UNCHANGED <<rows, fs, bucket, req, boot, used, trail>>
    PROVE  OwnInv'
  BY DEF OwnInv, Stores, RowsOwn, BootOK, Threads

(* No request runs during the boot.                                        *)
LEMMA AllIdle ==
    ASSUME Stores', req' = [c \in Clients |-> Idle]
    PROVE  Threads'
<1>1. used'.ids \in Nat
  BY DEF Stores
<1>2. /\ ThreadOK(Idle, rows', fs', trail'.exposed, used'.ids)
      /\ Apart(Idle, Idle, trail'.exposed)
  BY <1>1, IdleThread DEF Apart
<1> HIDE DEF Idle
<1> QED BY <1>2 DEF Threads

(* Nor does one start while the boot goes on.                              *)
LEMMA BootIdle ==
    ASSUME OwnInv, boot.phase # "up", req' = req, Stores'
    PROVE  Threads' /\ \A c \in Clients : req'[c] = Idle
<1>1. DOMAIN req = Clients /\ \A c \in Clients : req[c] = Idle
  BY DEF OwnInv, Threads, BootOK
<1>2. used'.ids \in Nat
  BY DEF Stores
<1>3. /\ ThreadOK(Idle, rows', fs', trail'.exposed, used'.ids)
      /\ Apart(Idle, Idle, trail'.exposed)
  BY <1>2, IdleThread DEF Apart
<1> HIDE DEF Idle
<1> QED BY <1>1, <1>3 DEF Threads

(* The boot's first and last record.                                       *)
LEMMA BootShape ==
    DOMAIN Booting = {"phase", "todo", "known", "made"} /\ Booting.phase = "seeding" /\ DOMAIN Booting.made = {}
    /\ DOMAIN Up = {"phase", "todo", "known", "made"} /\ Up.phase = "up" /\ DOMAIN Up.made = {}
<1>1. DOMAIN NoRows = {}
  BY DEF NoRows
<1> HIDE DEF NoRows
<1> QED BY <1>1 DEF Booting, Up

(* The empty library.                                                      *)
LEMMA InitOwn == Init => OwnInv
<1> SUFFICES ASSUME Init PROVE OwnInv
  OBVIOUS
<1>1. DOMAIN rows = {} /\ DOMAIN fs = {} /\ DOMAIN bucket = {}
  BY DEF Init, NoRows
<1>2. Stores
  BY <1>1 DEF Init, Stores
<1>3. RowsOwn
  BY <1>1 DEF RowsOwn
<1>4. boot = Booting /\ DOMAIN req = Clients /\ \A c \in Clients : req[c] = Idle
  BY DEF Init
<1>5. BootOK
  <2> HIDE DEF Booting, Idle
  <2> QED BY <1>4, BootShape DEF BootOK
<1>6. Threads
  <2>1. /\ ThreadOK(Idle, rows, fs, trail.exposed, used.ids)
        /\ Apart(Idle, Idle, trail.exposed)
    BY <1>2, IdleThread DEF Apart, Stores
  <2> HIDE DEF Idle
  <2> QED BY <1>4, <2>1 DEF Threads
<1> QED BY <1>2, <1>3, <1>5, <1>6 DEF OwnInv

(* A crash ends every request where it stands.                             *)
LEMMA CrashStep ==
    ASSUME OwnInv, Crash PROVE OwnInv'
<1>1. /\ UNCHANGED <<rows, fs, bucket, trail>> /\ req' = [c \in Clients |-> Idle] /\ boot' = Booting
      /\ used' = [used EXCEPT !.crashes = @ + 1]
  BY DEF Crash
<1>2. used'.ids = used.ids /\ DOMAIN used' = DOMAIN used
  BY <1>1 DEF OwnInv, Stores
<1>3. Stores' /\ RowsOwn'
  BY <1>1, <1>2 DEF OwnInv, Stores, RowsOwn
<1>4. BootOK'
  <2>1. \A c \in Clients : req'[c] = Idle
    BY <1>1
  <2> HIDE DEF Booting, Idle
  <2> QED BY <1>1, <2>1, BootShape DEF BootOK
<1>5. Threads'
  BY <1>1, <1>3, AllIdle
<1> QED BY <1>3, <1>4, <1>5 DEF OwnInv

(* The image's packs are seeded: a new row, or one adopted, owns no path.  *)
LEMMA SeedStep ==
    ASSUME OwnInv, NEW b, seed_builtin_packs(b) PROVE OwnInv'
<1>1. /\ boot.phase = "seeding" /\ UNCHANGED <<fs, bucket, req, trail>>
      /\ boot' = [boot EXCEPT !.todo = @ \ {b}]
  BY DEF seed_builtin_packs
<1>2. used.ids \in Nat /\ \A p \in DOMAIN rows : p \in 0 .. used.ids /\ RowOK(rows[p], fs, trail.exposed)
  BY DEF OwnInv, Stores, RowsOwn
<1>3. /\ used'.ids \in Nat /\ DOMAIN used' = DOMAIN used /\ used.ids <= used'.ids
      /\ \A p \in DOMAIN rows' : p \in 0 .. used'.ids /\ RowOK(rows'[p], fs, trail.exposed)
  <2>1. CASE UNCHANGED <<rows, used>>
    BY <1>2, <2>1
  <2>2. CASE /\ used' = [used EXCEPT !.ids = @ + 1]
             /\ rows' = Set(rows, used.ids + 1, [name |-> b, dir |-> NoPath,
                                                 of |-> used.ids + 1, kind |-> "builtin"])
    <3>1. PICK i : i = used.ids + 1
      OBVIOUS
    <3>2. PICK row : row = [name |-> b, dir |-> NoPath, of |-> i, kind |-> "builtin"]
      OBVIOUS
    <3>3. used'.ids = i /\ DOMAIN used' = DOMAIN used /\ i \in Nat /\ used.ids < i
      BY <1>2, <2>2, <3>1 DEF OwnInv, Stores
    <3>4. RowOK(row, fs, trail.exposed)
      BY <3>2 DEF RowOK, RowFields
    <3>5. rows' = Set(rows, i, row)
      BY <2>2, <3>1, <3>2
    <3>6. \A p \in DOMAIN rows' : \/ p = i /\ rows'[p] = row
                                  \/ p \in DOMAIN rows /\ rows'[p] = rows[p]
      BY <3>5 DEF Set
    <3>7. \A p \in DOMAIN rows' : p \in 0 .. i /\ RowOK(rows'[p], fs, trail.exposed)
      BY <1>2, <3>3, <3>4, <3>6
    <3> QED BY <1>2, <3>3, <3>7
  <2>3. ASSUME NEW p \in DOMAIN rows, used' = used,
               rows' = [rows EXCEPT ![p].kind = "builtin", ![p].dir = NoPath]
        PROVE  \A q \in DOMAIN rows' : q \in 0 .. used'.ids /\ RowOK(rows'[q], fs, trail.exposed)
    <3>1. DOMAIN rows[p] = RowFields
      BY <1>2 DEF RowOK
    <3>2. RowOK([rows[p] EXCEPT !.kind = "builtin", !.dir = NoPath], fs, trail.exposed)
      BY <3>1 DEF RowOK, RowFields
    <3>3. PICK row : row = [rows[p] EXCEPT !.kind = "builtin", !.dir = NoPath]
      OBVIOUS
    <3>4. DOMAIN rows' = DOMAIN rows /\ rows'[p] = row /\ \A q \in DOMAIN rows \ {p} : rows'[q] = rows[q]
      BY <2>3, <3>3
    <3> QED BY <1>2, <2>3, <3>2, <3>3, <3>4
  <2>4. used.ids <= used.ids
    BY <1>2
  <2>5. \/ UNCHANGED <<rows, used>>
        \/ /\ used' = [used EXCEPT !.ids = @ + 1]
           /\ rows' = Set(rows, used.ids + 1, [name |-> b, dir |-> NoPath,
                                               of |-> used.ids + 1, kind |-> "builtin"])
        \/ \E p \in DOMAIN rows : /\ used' = used
              /\ rows' = [rows EXCEPT ![p].kind = "builtin", ![p].dir = NoPath]
    BY Zenon DEF seed_builtin_packs
  <2> QED BY <1>2, <2>1, <2>2, <2>3, <2>4, <2>5
<1>4. Stores' /\ RowsOwn'
  BY <1>1, <1>3 DEF OwnInv, Stores, RowsOwn
<1>5. Threads' /\ \A c \in Clients : req'[c] = Idle
  BY <1>1, <1>4, BootIdle
<1>6. DOMAIN boot' = DOMAIN boot /\ boot'.phase = "seeding" /\ boot'.made = boot.made
  BY <1>1 DEF OwnInv, BootOK
<1>7. BootOK'
  <2> HIDE DEF Idle
  <2> QED BY <1>1, <1>5, <1>6 DEF OwnInv, BootOK
<1> QED BY <1>4, <1>5, <1>7 DEF OwnInv

(* The bucket is listed.                                                   *)
LEMMA ListStep ==
    ASSUME OwnInv, NEW ok \in BOOLEAN, list_archives(ok) PROVE OwnInv'
<1>1. /\ boot.phase = "seeding" /\ UNCHANGED <<rows, fs, bucket, req, used, trail>>
      /\ boot' = [phase |-> "import", todo |-> IF ok THEN store_list ELSE {},
                  known |-> {rows[p].name : p \in DOMAIN rows}, made |-> NoRows]
  BY DEF list_archives
<1>2. Stores' /\ RowsOwn'
  BY <1>1 DEF OwnInv, Stores, RowsOwn
<1>3. Threads' /\ \A c \in Clients : req'[c] = Idle
  BY <1>1, <1>2, BootIdle
<1>4. DOMAIN NoRows = {}
  BY DEF NoRows
<1>5. /\ DOMAIN boot' = {"phase", "todo", "known", "made"} /\ boot'.phase = "import"
      /\ boot'.made = NoRows /\ boot'.todo \subseteq DOMAIN bucket
  <2> HIDE DEF NoRows
  <2> QED BY <1>1 DEF store_list
<1>6. BootOK'
  <2> HIDE DEF NoRows, Idle
  <2> QED BY <1>1, <1>3, <1>4, <1>5 DEF BootOK
<1> QED BY <1>2, <1>3, <1>6 DEF OwnInv

(* An archive is extracted into a free directory; its row waits for the    *)
(* commit at the end of the boot.                                          *)
LEMMA SyncStep ==
    ASSUME OwnInv, NEW k, NEW ok \in BOOLEAN, sync_from_store(k, ok) PROVE OwnInv'
<1>1. /\ boot.phase = "import" /\ k \in boot.todo /\ UNCHANGED <<rows, bucket, req, trail>>
  BY DEF sync_from_store
<1>2. /\ used.ids \in Nat /\ k \in DOMAIN bucket /\ "of" \in DOMAIN bucket[k]
      /\ \A p \in DOMAIN rows : p \in 0 .. used.ids /\ RowOK(rows[p], fs, trail.exposed)
      /\ \A p \in DOMAIN boot.made : p \in 0 .. used.ids /\ RowOK(boot.made[p], fs, trail.exposed)
      /\ DOMAIN boot = {"phase", "todo", "known", "made"} /\ boot.todo \subseteq DOMAIN bucket
  BY <1>1 DEF OwnInv, Stores, RowsOwn, BootOK
<1>3. CASE boot' = [boot EXCEPT !.todo = @ \ {k}] /\ UNCHANGED <<fs, used>>
  <2>1. Stores' /\ RowsOwn'
    BY <1>1, <1>3 DEF OwnInv, Stores, RowsOwn
  <2>2. Threads' /\ \A c \in Clients : req'[c] = Idle
    BY <1>1, <2>1, BootIdle
  <2>3. /\ DOMAIN boot' = DOMAIN boot /\ boot'.phase = "import" /\ boot'.made = boot.made
        /\ boot'.todo \subseteq DOMAIN bucket
    BY <1>1, <1>2, <1>3
  <2>4. BootOK'
    <3> HIDE DEF Idle
    <3> QED BY <1>1, <1>2, <1>3, <2>2, <2>3 DEF BootOK
  <2> QED BY <2>1, <2>2, <2>4 DEF OwnInv
<1>4. ASSUME NEW dir \in unique_pack_dir(k),
             used' = [used EXCEPT !.ids = @ + 1], fs' = Set(fs, dir, store_get(k)),
             boot' = [boot EXCEPT !.todo = @ \ {k},
                      !.made = Set(@, used.ids + 1, [name |-> store_get(k).name, dir |-> dir,
                                                     of |-> store_get(k).of, kind |-> "local"])]
      PROVE  OwnInv'
  <2>1. PICK i, f : i = used.ids + 1 /\ f = bucket[k]
    OBVIOUS
  <2>2. PICK row : row = [name |-> f.name, dir |-> dir, of |-> f.of, kind |-> "local"]
    OBVIOUS
  <2>3. /\ fs' = Set(fs, dir, f)
        /\ boot' = [boot EXCEPT !.todo = @ \ {k}, !.made = Set(@, i, row)]
    BY <1>4, <2>1, <2>2 DEF store_get
  <2>4. used'.ids = i /\ DOMAIN used' = DOMAIN used /\ i \in Nat /\ used.ids < i
    BY <1>2, <1>4, <2>1 DEF OwnInv, Stores
  <2>5. dir # NoPath /\ dir \notin DOMAIN fs
    BY FreePath
  <2>6. PathsKept({}) /\ dir \in DOMAIN fs' /\ fs'[dir] = f
    BY <1>1, <2>3, <2>5, PathFilled
  <2>7. Stores'
    BY <1>1, <1>2, <2>1, <2>3, <2>4, <2>5, DirsFilled
  <2>8. \A r : RowOK(r, fs, trail.exposed) => RowOK(r, fs', trail'.exposed)
    BY <2>6 DEF PathsKept, RowOK
  <2>9. RowsOwn'
    BY <1>1, <1>2, <2>4, <2>8 DEF RowsOwn
  <2>10. Threads' /\ \A c \in Clients : req'[c] = Idle
    BY <1>1, <2>7, BootIdle
  <2>11. RowOK(row, fs', trail'.exposed)
    BY <2>2, <2>6 DEF RowOK, RowFields, Holds
  <2>12. /\ DOMAIN boot' = DOMAIN boot /\ boot'.phase = "import" /\ boot'.made = Set(boot.made, i, row)
         /\ boot'.todo \subseteq DOMAIN bucket
    BY <1>1, <1>2, <2>3
  <2>13. \A p \in DOMAIN boot'.made : \/ p = i /\ boot'.made[p] = row
                                      \/ p \in DOMAIN boot.made /\ boot'.made[p] = boot.made[p]
    BY <2>12 DEF Set
  <2>14. \A p \in DOMAIN boot'.made : p \in 0 .. used'.ids /\ RowOK(boot'.made[p], fs', trail'.exposed)
    BY <1>2, <2>4, <2>8, <2>11, <2>13
  <2>15. BootOK'
    <3> HIDE DEF Idle
    <3> QED BY <1>1, <1>2, <2>10, <2>12, <2>14 DEF BootOK
  <2> QED BY <2>7, <2>9, <2>10, <2>15 DEF OwnInv
<1> QED BY <1>3, <1>4 DEF sync_from_store

(* The imported rows are committed together.                               *)
LEMMA LoadStep ==
    ASSUME OwnInv, load_from_env PROVE OwnInv'
<1>1. /\ boot.phase = "import" /\ UNCHANGED <<fs, bucket, req, used, trail>> /\ boot' = Up
      /\ rows' = [p \in DOMAIN rows \cup DOMAIN boot.made |->
                    IF p \in DOMAIN rows THEN rows[p] ELSE boot.made[p]]
  BY DEF load_from_env
<1>2. Stores'
  BY <1>1 DEF OwnInv, Stores
<1>3. RowsOwn'
  BY <1>1 DEF OwnInv, RowsOwn, BootOK
<1>4. Threads' /\ \A c \in Clients : req'[c] = Idle
  BY <1>1, <1>2, BootIdle
<1>5. BootOK'
  <2> HIDE DEF Up, Idle
  <2> QED BY <1>1, <1>4, BootShape DEF BootOK
<1> QED BY <1>2, <1>3, <1>4, <1>5 DEF OwnInv

(* Every step.                                                             *)
LEMMA StepOwn == OwnInv /\ [Next]_vars => OwnInv'
<1> SUFFICES ASSUME OwnInv, [Next]_vars PROVE OwnInv'
  OBVIOUS
<1>1. CASE UNCHANGED vars
  BY <1>1, Untouched DEF vars
<1>2. ASSUME NEW s \in specs, delete_spec(s) PROVE OwnInv'
  BY <1>2, Untouched DEF delete_spec
<1>3. ASSUME NEW c \in Clients, NEW n \in Names,
             create_pack(c, n) \/ register_pack(c, n) \/ create_metric_pack(c, n)
      PROVE  OwnInv'
  BY <1>3, CreateBegins, AddRowStep DEF register_pack, create_metric_pack
<1>4. ASSUME NEW c \in Clients, NEW p \in DOMAIN rows,
             \/ publish_pack_to_source(c, p)
             \/ \E n \in Names : rename_pack(c, p, n) \/ update_pack(c, p, n)
             \/ \E remote \in BOOLEAN : delete_pack(c, p, remote)
             \/ \E extra \in SUBSET DOMAIN rows : create_spec(c, p, extra)
      PROVE  OwnInv'
  BY <1>4, PlainBegins, SaveBegins
<1>5. ASSUME NEW c \in Clients,
             \/ place(c) \/ register(c) \/ export(c) \/ rewrite(c) \/ retire(c) \/ swap(c)
             \/ commit(c) \/ remove_uploaded_pack_dir(c) \/ drop_row(c) \/ insert_spec(c)
      PROVE  OwnInv'
  BY <1>5, PlaceStep, RegisterRow, RegisterRefused, ExportStep, RewriteStep, RetireStep, SwapStep,
     CommitStep, RemoveStep, DropStep, InsertSpecStep
<1> QED BY <1>1, <1>2, <1>3, <1>4, <1>5, UploadBegins, PutStep, CrashStep, SeedStep, ListStep,
           SyncStep, LoadStep DEF Next

(* The directory a pack row names holds that pack's own files, whatever    *)
(* uploads, saves, renames, deletes, crashes and imports do side by side,  *)
(* unless a save or a delete had freed the path under the row.             *)
THEOREM DirectoriesOwned == Spec => []OwnContent
<1>1. OwnInv => OwnContent
  BY DEF OwnInv, RowsOwn, RowOK, Holds, OwnContent, owns_directory
<1> QED BY <1>1, InitOwn, StepOwn, PTL DEF Spec

-----------------------------------------------------------------------------
(* The bucket.                                                             *)

(* What the record of contested packs knows, piece by piece.               *)
Noted(R, Q, B, F, C) ==
    /\ \A p \in DOMAIN R, q \in DOMAIN R : p # q /\ R[p].of = R[q].of => R[p].of \in C
    /\ \A c \in Clients, d \in Clients :
         c # d /\ Q[c].id = Q[d].id /\ Q[c].id \in DOMAIN R => R[Q[c].id].of \in C
    /\ \A p \in DOMAIN R, c \in Clients :
         Q[c].id # p /\ archive_name(R[p].name) \in KeysOf(Q[c]) => R[p].of \in C
    /\ \A k \in DOMAIN B, c \in Clients :
         k \in KeysOf(Q[c]) /\ PackOf(R, Q[c]) # B[k].of => B[k].of \in C
    /\ \A p \in DOMAIN R :
         R[p].dir \in DOMAIN F /\ R[p].of # F[R[p].dir].of => {R[p].of, F[R[p].dir].of} \subseteq C

(* Unless its pack is contested, a thread knows the name and the pack of   *)
(* the row it works on; one that has put its archive under the new key     *)
(* still finds it there; a delete that has removed the archive leaves only *)
(* such as were reported before; and no row or archive has an id that is   *)
(* about to be registered.                                                 *)
Follows(q, R, B, C, L, M, n) ==
    /\ q.pc # "idle" => q.op # "idle"
    /\ q.data.of \in 0 .. n
    /\ q.pc \in {"rewrite", "retire", "swap", "commit"} /\ q.id \in DOMAIN R =>
         R[q.id].of \in C \/ R[q.id].name = q.old
    /\ q.pc = "export" /\ q.id \in DOMAIN R => R[q.id].of \in C \/ R[q.id].name = q.name
    /\ q.pc \in {"put", "unput"} =>
         /\ \/ q.data.of \in C
            \/ q.id \in DOMAIN R /\ R[q.id].of = q.data.of /\ R[q.id].name = q.name
         /\ q.id \in DOMAIN R => R[q.id].of \in C \/ R[q.id].of = q.data.of
    /\ q.pc = "unput" =>
         /\ archive_name(q.old) # archive_name(q.name)
         /\ \/ q.data.of \in C
            \/ archive_name(q.name) \in DOMAIN B /\ B[archive_name(q.name)].of = q.data.of
    /\ q.pc \in {"unpublish", "rmtree", "drop"} /\ q.id \in DOMAIN R =>
         R[q.id].of = q.data.of /\ (q.data.of \in C \/ R[q.id].name = q.name)
    /\ q.pc \in {"rmtree", "drop"} /\ q.remote /\ q.id \in DOMAIN R =>
         \/ q.data.of \in C
         \/ \A k \in DOMAIN B : B[k].of = q.data.of => <<q.data.of, k>> \in L
    /\ Registering(q) => /\ q.id \in M => q.id \in C
                         /\ \A p \in DOMAIN R : R[p].of # q.id

(* Packs are numbered by the ids given out.                                *)
Numbered ==
    /\ trail.mirrored \subseteq 0 .. used.ids
    /\ \A k \in DOMAIN bucket : bucket[k].of \in 0 .. used.ids
    /\ \A d \in DOMAIN fs : fs[d].of \in 0 .. used.ids
    /\ \A p \in DOMAIN rows : rows[p].of \in 0 .. used.ids
    /\ \A p \in DOMAIN boot.made : \E k \in DOMAIN bucket : bucket[k].of = boot.made[p].of

Following ==
    \A c \in Clients :
        Follows(req[c], rows, bucket, contested, trail.left, trail.mirrored, used.ids)

MirrorInv ==
    Numbered /\ Noted(rows, req, bucket, fs, contested) /\ Following /\ MirrorTrue


-----------------------------------------------------------------------------
(* The clashes of a state are noted in it.                                 *)
LEMMA ClashNoted ==
    ASSUME NEW R, NEW Q, NEW B, NEW F, NEW C, Clash(R, Q, B, F) \subseteq C
    PROVE  Noted(R, Q, B, F, C)
<1>1. ASSUME NEW p \in DOMAIN R,
             \/ \E q \in DOMAIN R \ {p} : R[q].of = R[p].of
             \/ \E c, d \in Clients : c # d /\ Q[c].id = p /\ Q[d].id = p
             \/ \E c \in Clients : Q[c].id # p /\ archive_name(R[p].name) \in KeysOf(Q[c])
      PROVE  R[p].of \in C
  <2>1. R[p].of \in {R[r].of : r \in {r \in DOMAIN R :
        \/ \E q \in DOMAIN R \ {r} : \/ archive_name(R[q].name) = archive_name(R[r].name)
                                     \/ R[q].of = R[r].of
        \/ \E c, d \in Clients : c # d /\ Q[c].id = r /\ Q[d].id = r
        \/ \E c \in Clients : Q[c].id # r /\ archive_name(R[r].name) \in KeysOf(Q[c])}}
    BY <1>1
  <2> QED BY <2>1 DEF Clash
<1>2. ASSUME NEW k \in DOMAIN B, NEW c \in Clients, k \in KeysOf(Q[c]), PackOf(R, Q[c]) # B[k].of
      PROVE  B[k].of \in C
  <2>1. B[k].of \in {B[j].of : j \in {j \in DOMAIN B : \E d \in Clients :
            j \in KeysOf(Q[d]) /\ PackOf(R, Q[d]) # B[j].of}}
    BY <1>2
  <2> QED BY <2>1 DEF Clash
<1>3. ASSUME NEW p \in DOMAIN R, R[p].dir \in DOMAIN F, R[p].of # F[R[p].dir].of
      PROVE  {R[p].of, F[R[p].dir].of} \subseteq C
  <2>1. {R[p].of, F[R[p].dir].of} \in {{R[r].of, F[R[r].dir].of} : r \in {r \in DOMAIN R :
            R[r].dir \in DOMAIN F /\ R[r].of # F[R[r].dir].of}}
    BY <1>3
  <2> QED BY <2>1 DEF Clash
<1>4. \A p \in DOMAIN R, q \in DOMAIN R : p # q /\ R[p].of = R[q].of => R[p].of \in C
  BY <1>1
<1>5. \A c \in Clients, d \in Clients :
        c # d /\ Q[c].id = Q[d].id /\ Q[c].id \in DOMAIN R => R[Q[c].id].of \in C
  BY <1>1
<1>6. \A p \in DOMAIN R, c \in Clients :
        Q[c].id # p /\ archive_name(R[p].name) \in KeysOf(Q[c]) => R[p].of \in C
  BY <1>1
<1> QED BY <1>2, <1>3, <1>4, <1>5, <1>6 DEF Noted

(* Every step notes them.                                                  *)
LEMMA Tracked ==
    ASSUME Track
    PROVE  Noted(rows', req', bucket', fs', contested') /\ contested \subseteq contested'
<1>1. Clash(rows', req', bucket', fs') \subseteq contested' /\ contested \subseteq contested'
  BY DEF Track
<1> QED BY <1>1, ClashNoted

(* What thread c may do to the table and the bucket while the others wait: *)
(* row p comes, goes or is renamed, and the keys in T are its own.         *)
RowsBut(c, p) ==
    /\ \A r \in DOMAIN rows : r # p => r \in DOMAIN rows'
    /\ \A r \in DOMAIN rows' : r # p =>
         r \in DOMAIN rows /\ rows'[r].of = rows[r].of /\ rows'[r].name = rows[r].name
    /\ p \in DOMAIN rows =>
         p = req[c].id /\ (p \in DOMAIN rows' => rows'[p].of = rows[p].of)
    /\ p \in DOMAIN rows' /\ p \notin DOMAIN rows =>
         \A d \in Clients \ {c} :
             req[d].id # p /\ (Registering(req[d]) => rows'[p].of # req[d].id)

KeysBut(c, T) ==
    /\ T \subseteq KeysOf(req[c])
    /\ \A k \in DOMAIN bucket : k \notin T => k \in DOMAIN bucket' /\ bucket'[k] = bucket[k]
    /\ \A k \in DOMAIN bucket' :
         IF k \in T THEN req[c].pc = "put" /\ bucket'[k].of = req[c].data.of ELSE k \in DOMAIN bucket
    /\ \A o, k : k \notin T /\ <<o, k>> \in trail.left => <<o, k>> \in trail'.left
    /\ \A o \in trail'.mirrored :
         o \in trail.mirrored \/ (req[c].pc = "put" /\ o = req[c].data.of)

(* The others are not disturbed, or are known to be contested.             *)
LEMMA OthersFollow ==
    ASSUME OwnInv, MirrorInv, NEW c \in Clients, NEW d \in Clients \ {c}, NEW p, NEW T,
           RowsBut(c, p), KeysBut(c, T), contested \subseteq contested',
           used'.ids \in Nat, used.ids <= used'.ids
    PROVE  Follows(req[d], rows', bucket', contested', trail'.left, trail'.mirrored, used'.ids)
<1> DEFINE q == req[d]
<1>1. /\ Follows(q, rows, bucket, contested, trail.left, trail.mirrored, used.ids)
      /\ Follows(req[c], rows, bucket, contested, trail.left, trail.mirrored, used.ids)
      /\ used.ids \in Nat
  BY Known DEF MirrorInv, Following
<1>2. /\ q.id = req[c].id /\ q.id \in DOMAIN rows => rows[q.id].of \in contested
      /\ \A r \in DOMAIN rows : req[c].id # r /\ archive_name(rows[r].name) \in KeysOf(req[c]) => rows[r].of \in contested
      /\ \A r, s \in DOMAIN rows : r # s /\ rows[r].of = rows[s].of => rows[r].of \in contested
  BY DEF MirrorInv, Noted
<1>3. q.id \in DOMAIN rows' =>
        /\ q.id \in DOMAIN rows /\ rows'[q.id].of = rows[q.id].of
        /\ rows[q.id].of \in contested \/ rows'[q.id].name = rows[q.id].name
  BY <1>2 DEF RowsBut
<1>4. q.id \in DOMAIN rows /\ q.id \notin DOMAIN rows' => rows[q.id].of \in contested
  BY <1>2 DEF RowsBut
<1> HIDE DEF q
<1>5. /\ q.pc # "idle" => q.op # "idle"
      /\ q.data.of \in 0 .. used'.ids
      /\ q.pc \in {"rewrite", "retire", "swap", "commit"} /\ q.id \in DOMAIN rows' =>
           rows'[q.id].of \in contested' \/ rows'[q.id].name = q.old
      /\ q.pc = "export" /\ q.id \in DOMAIN rows' =>
           rows'[q.id].of \in contested' \/ rows'[q.id].name = q.name
      /\ q.pc \in {"unpublish", "rmtree", "drop"} /\ q.id \in DOMAIN rows' =>
           rows'[q.id].of = q.data.of /\ (q.data.of \in contested' \/ rows'[q.id].name = q.name)
  BY <1>1, <1>3 DEF Follows
<1>6. q.pc \in {"put", "unput"} =>
        /\ \/ q.data.of \in contested'
           \/ q.id \in DOMAIN rows' /\ rows'[q.id].of = q.data.of /\ rows'[q.id].name = q.name
        /\ q.id \in DOMAIN rows' => rows'[q.id].of \in contested' \/ rows'[q.id].of = q.data.of
  BY <1>1, <1>3, <1>4 DEF Follows
<1>7. ASSUME q.pc = "unput", q.data.of \notin contested'
      PROVE  archive_name(q.name) \in DOMAIN bucket' /\ bucket'[archive_name(q.name)].of = q.data.of
  <2>1. /\ archive_name(q.name) \in DOMAIN bucket /\ bucket[archive_name(q.name)].of = q.data.of
        /\ q.id \in DOMAIN rows /\ rows[q.id].of = q.data.of /\ rows[q.id].name = q.name
    BY <1>1, <1>7 DEF Follows
  <2>2. archive_name(q.name) \notin T
    BY <1>2, <1>7, <2>1 DEF KeysBut
  <2> QED BY <2>1, <2>2 DEF KeysBut
<1>8. ASSUME req[c].pc = "put", req[c].data.of \notin contested
      PROVE  req[c].id \in DOMAIN rows /\ rows[req[c].id].of = req[c].data.of
  BY <1>1, <1>8 DEF Follows
<1>9. ASSUME q.pc \in {"rmtree", "drop"}, q.remote, q.id \in DOMAIN rows', q.data.of \notin contested',
             NEW k \in DOMAIN bucket', bucket'[k].of = q.data.of
      PROVE  <<q.data.of, k>> \in trail'.left
  <2>1. /\ q.id \in DOMAIN rows /\ rows[q.id].of = q.data.of /\ q.data.of \notin contested
        /\ \A j \in DOMAIN bucket : bucket[j].of = q.data.of => <<q.data.of, j>> \in trail.left
    BY <1>1, <1>3, <1>9 DEF Follows
  <2>2. k \notin T
    BY <1>2, <1>8, <1>9, <2>1 DEF KeysBut
  <2> QED BY <1>9, <2>1, <2>2 DEF KeysBut
<1>10. ASSUME Registering(q)
       PROVE  /\ q.id \in trail'.mirrored => q.id \in contested'
              /\ \A r \in DOMAIN rows' : rows'[r].of # q.id
  <2>1. (q.id \in trail.mirrored => q.id \in contested) /\ \A r \in DOMAIN rows : rows[r].of # q.id
    BY <1>1, <1>10 DEF Follows
  <2>2. q.id \in trail'.mirrored => q.id \in contested'
    BY <1>8, <2>1 DEF KeysBut
  <2>3. \A r \in DOMAIN rows' : rows'[r].of # q.id
    BY <1>10, <2>1 DEF RowsBut, q
  <2> QED BY <2>2, <2>3
<1>11. q.pc = "unput" => archive_name(q.old) # archive_name(q.name)
  BY <1>1 DEF Follows
<1>12. Follows(q, rows', bucket', contested', trail'.left, trail'.mirrored, used'.ids)
  BY <1>5, <1>6, <1>7, <1>9, <1>10, <1>11 DEF Follows
<1> QED BY <1>12 DEF q

(* All threads, once c's own next step is known to follow.                 *)
LEMMA AllFollow ==
    ASSUME OwnInv, MirrorInv, NEW c \in Clients, NEW x, NEW p, NEW T, Moves(c, x),
           RowsBut(c, p), KeysBut(c, T), contested \subseteq contested',
           used'.ids \in Nat, used.ids <= used'.ids,
           Follows(x, rows', bucket', contested', trail'.left, trail'.mirrored, used'.ids)
    PROVE  Following'
<1>1. ASSUME NEW d \in Clients
      PROVE  Follows(req'[d], rows', bucket', contested', trail'.left, trail'.mirrored, used'.ids)
  <2>1. CASE d = c
    BY <2>1 DEF Moves
  <2>2. CASE d # c
    <3>1. req'[d] = req[d]
      BY <2>2 DEF Moves
    <3> QED BY <2>2, <3>1, OthersFollow
  <2> QED BY <2>1, <2>2
<1> QED BY <1>1 DEF Following

(* A step that leaves the bucket alone.                                    *)
RowCounted(p) ==
    p \in DOMAIN rows' /\ p \notin DOMAIN rows =>
        rows'[p].of \in 0 .. used'.ids /\ (rows'[p].of \in trail.mirrored => rows'[p].of \in contested')

ArchiveStays(p) ==
    \A k \in DOMAIN bucket : p \in DOMAIN rows /\ rows[p].of = bucket[k].of /\ archive_name(rows[p].name) = k =>
        \/ bucket[k].of \in contested' \/ <<bucket[k].of, k>> \in trail'.left
        \/ p \in DOMAIN rows' /\ archive_name(rows'[p].name) = k

(* Such a step keeps the mirror.                                           *)
LEMMA RowStep ==
    ASSUME OwnInv, MirrorInv, Track, NEW c \in Clients, NEW x, NEW p, Moves(c, x),
           boot' = boot, bucket' = bucket, trail'.mirrored = trail.mirrored,
           trail.left \subseteq trail'.left, used'.ids \in Nat, used.ids <= used'.ids,
           RowsBut(c, p), RowCounted(p), ArchiveStays(p),
           \A d \in DOMAIN fs' : fs'[d].of \in 0 .. used'.ids,
           Follows(x, rows', bucket', contested', trail'.left, trail'.mirrored, used'.ids)
    PROVE  MirrorInv'
<1>1. Noted(rows', req', bucket', fs', contested') /\ contested \subseteq contested'
  BY Tracked
<1>2. KeysBut(c, {})
  BY DEF KeysBut
<1>3. Following'
  BY <1>1, <1>2, AllFollow
<1>4. used.ids \in Nat /\ Numbered /\ MirrorTrue
  BY Known DEF MirrorInv
<1>5. \A r \in DOMAIN rows' : r \in DOMAIN rows => rows'[r].of = rows[r].of
  BY DEF RowsBut
<1>6. Numbered'
  <2>1. \A r \in DOMAIN rows' : rows'[r].of \in 0 .. used'.ids
    BY <1>4, <1>5 DEF Numbered, RowCounted, RowsBut
  <2>2. 0 .. used.ids \subseteq 0 .. used'.ids
    BY <1>4
  <2> QED BY <1>4, <2>1, <2>2 DEF Numbered
<1>7. MirrorKept'
  <2>1. ASSUME NEW r \in DOMAIN rows', rows'[r].of \in trail.mirrored, rows'[r].of \notin contested'
        PROVE  \E k \in DOMAIN bucket : bucket[k].of = rows'[r].of
    <3>1. r \in DOMAIN rows
      BY <2>1 DEF RowsBut, RowCounted
    <3> QED BY <1>1, <1>4, <1>5, <2>1, <3>1 DEF MirrorTrue, MirrorKept
  <2> QED BY <2>1 DEF MirrorKept
<1>8. ArchivesAccounted'
  <2>1. ASSUME NEW k \in DOMAIN bucket, bucket[k].of \notin contested', <<bucket[k].of, k>> \notin trail'.left
        PROVE  \E r \in DOMAIN rows' : rows'[r].of = bucket[k].of /\ archive_name(rows'[r].name) = k
    <3>1. PICK r \in DOMAIN rows : rows[r].of = bucket[k].of /\ archive_name(rows[r].name) = k
      BY <1>1, <1>4, <2>1 DEF MirrorTrue, ArchivesAccounted
    <3>2. r \in DOMAIN rows' /\ archive_name(rows'[r].name) = k
      BY <2>1, <3>1 DEF RowsBut, ArchiveStays
    <3> QED BY <1>5, <3>1, <3>2
  <2> QED BY <2>1 DEF ArchivesAccounted
<1> QED BY <1>1, <1>3, <1>6, <1>7, <1>8 DEF MirrorInv, MirrorTrue

(* A step on the bucket.                                                   *)
LEMMA KeyStep ==
    ASSUME OwnInv, MirrorInv, Track, NEW c \in Clients, NEW x, NEW T, Moves(c, x), boot.phase = "up",
           UNCHANGED <<rows, fs, boot, used>>, KeysBut(c, T), MirrorTrue',
           Follows(x, rows', bucket', contested', trail'.left, trail'.mirrored, used'.ids)
    PROVE  MirrorInv'
<1>1. Noted(rows', req', bucket', fs', contested') /\ contested \subseteq contested'
  BY Tracked
<1>2. RowsBut(c, -1)
  BY Known DEF RowsBut
<1>3. used'.ids \in Nat /\ used.ids <= used'.ids
  BY Known
<1>4. Following'
  BY <1>1, <1>2, <1>3, AllFollow
<1>5. DOMAIN boot.made = {} /\ req[c].data.of \in 0 .. used.ids /\ Numbered
  BY DEF OwnInv, BootOK, MirrorInv, Following, Follows
<1>6. Numbered'
  BY <1>5 DEF Numbered, KeysBut
<1> QED BY <1>1, <1>4, <1>6 DEF MirrorInv

(* Nothing about rows: what a step on threads or directories must show.    *)
LEMMA RowsAsBefore ==
    ASSUME OwnInv, NEW c \in Clients, rows' = rows
    PROVE  RowsBut(c, -1) /\ RowCounted(-1) /\ ArchiveStays(-1)
<1>1. -1 \notin DOMAIN rows
  BY Known
<1> QED BY <1>1 DEF RowsBut, RowCounted, ArchiveStays

(* A thread of which nothing is asked.                                     *)
LEMMA PlainFollows ==
    ASSUME NEW q, NEW R, NEW B, NEW C, NEW L, NEW M, NEW n, q.data.of \in 0 .. n,
           q.op # "idle" \/ q.pc = "idle",
           q.pc \in {"idle", "place", "insert"}
    PROVE  Follows(q, R, B, C, L, M, n)
  BY DEF Follows, Registering

(* An idle thread above all.                                               *)
LEMMA IdleFollows ==
    ASSUME NEW R, NEW B, NEW C, NEW L, NEW M, NEW n \in Nat
    PROVE  Follows(Idle, R, B, C, L, M, n)
<1>1. Idle.pc = "idle" /\ Idle.data.of = 0
  BY DEF Idle, NoFiles
<1> HIDE DEF Idle
<1> QED BY <1>1, PlainFollows

(* A request ends, rows and bucket as they were.                           *)
LEMMA EndsFollow ==
    ASSUME OwnInv, MirrorInv, Track, NEW c \in Clients, End(c), UNCHANGED <<rows, bucket, boot, used>>,
           trail'.mirrored = trail.mirrored, trail'.left = trail.left,
           \A d \in DOMAIN fs' : fs'[d].of \in 0 .. used.ids
    PROVE  MirrorInv'
<1>1. used.ids \in Nat /\ Moves(c, Idle)
  BY Known, Ends
<1>2. Follows(Idle, rows', bucket', contested', trail'.left, trail'.mirrored, used'.ids)
  BY <1>1, IdleFollows
<1>3. RowsBut(c, -1) /\ RowCounted(-1) /\ ArchiveStays(-1)
  BY RowsAsBefore
<1> HIDE DEF Idle
<1> QED BY <1>1, <1>2, <1>3, RowStep

(* A request begins.                                                       *)
LEMMA BeginsFollow ==
    ASSUME OwnInv, MirrorInv, Track, NEW c \in Clients, NEW op, NEW x, Begin(c, op, x),
           UNCHANGED <<rows, specs, fs, bucket, boot, trail>>,
           Follows(x, rows, bucket, contested, trail.left, trail.mirrored, used.ids)
    PROVE  MirrorInv'
<1>1. Moves(c, x) /\ used' = [used EXCEPT !.requests = @ + 1]
  BY DEF Begin, Moves, OwnInv, Threads
<1>2. used'.ids = used.ids /\ used.ids \in Nat
  BY <1>1, Known DEF OwnInv, Stores
<1>3. contested \subseteq contested'
  BY Tracked
<1>4. Follows(x, rows', bucket', contested', trail'.left, trail'.mirrored, used'.ids)
  BY <1>2, <1>3 DEF Follows
<1>5. RowsBut(c, -1) /\ RowCounted(-1) /\ ArchiveStays(-1)
  BY RowsAsBefore
<1>6. \A d \in DOMAIN fs' : fs'[d].of \in 0 .. used'.ids
  BY <1>2 DEF MirrorInv, Numbered
<1>7. used'.ids \in Nat /\ used.ids <= used'.ids
  BY <1>2
<1> QED BY <1>1, <1>4, <1>5, <1>6, <1>7, RowStep

-----------------------------------------------------------------------------
(* The requests begin.                                                     *)
LEMMA NewPackFollows ==
    ASSUME OwnInv, MirrorInv, NEW c \in Clients,
           \/ \E a \in Archives : upload_pack(c, a)
           \/ \E n \in Names : create_pack(c, n)
    PROVE  MirrorInv'
<1>1. ASSUME NEW op, NEW x, Begin(c, op, x), x.op # "idle", x.pc = "place", x.data.of = 0, Track,
             UNCHANGED <<rows, specs, fs, bucket, boot, trail>>
      PROVE  MirrorInv'
  <2>1. x.data.of \in 0 .. used.ids
    BY <1>1, Known
  <2>2. Follows(x, rows, bucket, contested, trail.left, trail.mirrored, used.ids)
    BY <1>1, <2>1, PlainFollows
  <2> QED BY <1>1, <2>2, BeginsFollow
<1>2. ASSUME NEW a \in Archives, upload_pack(c, a) PROVE MirrorInv'
  <2>1. PICK dir \in unique_pack_dir(a.name) :
          Begin(c, "upload", [Idle EXCEPT !.op = "upload", !.pc = "place", !.dir = dir,
                  !.name = a.name, !.readable = a.readable,
                  !.data = [of |-> 0, name |-> a.name, edits |-> a.edits]])
    BY <1>2 DEF upload_pack
  <2> DEFINE x == [Idle EXCEPT !.op = "upload", !.pc = "place", !.dir = dir,
                  !.name = a.name, !.readable = a.readable,
                  !.data = [of |-> 0, name |-> a.name, edits |-> a.edits]]
  <2>2. x.op # "idle" /\ x.pc = "place" /\ x.data.of = 0
    BY DEF Idle
  <2>3. Track /\ UNCHANGED <<rows, specs, fs, bucket, boot, trail>>
    BY <1>2 DEF upload_pack
  <2> HIDE DEF x
  <2> QED BY <1>1, <2>1, <2>2, <2>3 DEF x
<1>3. ASSUME NEW n \in Names, create_pack(c, n) PROVE MirrorInv'
  <2>1. PICK dir \in unique_pack_dir(n) :
          Begin(c, "create", [Idle EXCEPT !.op = "create", !.pc = "place", !.dir = dir, !.name = n,
                  !.data = [of |-> 0, name |-> n, edits |-> TRUE]])
    BY <1>3 DEF create_pack
  <2> DEFINE x == [Idle EXCEPT !.op = "create", !.pc = "place", !.dir = dir, !.name = n,
                  !.data = [of |-> 0, name |-> n, edits |-> TRUE]]
  <2>2. x.op # "idle" /\ x.pc = "place" /\ x.data.of = 0
    BY DEF Idle
  <2>3. Track /\ UNCHANGED <<rows, specs, fs, bucket, boot, trail>>
    BY <1>3 DEF create_pack
  <2> HIDE DEF x
  <2> QED BY <1>1, <2>1, <2>2, <2>3 DEF x
<1> QED BY <1>2, <1>3

(* Requests about a pack find its row's name and pack.                     *)
LEMMA PackRequestFollows ==
    ASSUME OwnInv, MirrorInv, NEW c \in Clients, NEW p \in DOMAIN rows,
           \/ publish_pack_to_source(c, p)
           \/ \E n \in Names : rename_pack(c, p, n) \/ update_pack(c, p, n)
           \/ \E remote \in BOOLEAN : delete_pack(c, p, remote)
           \/ \E extra \in SUBSET DOMAIN rows : create_spec(c, p, extra)
    PROVE  MirrorInv'
<1>0. NoFiles.of = 0 /\ DOMAIN NoFiles = {"of", "name", "edits"} /\ Idle.data = NoFiles /\ rows[p].of \in 0 .. used.ids /\ 0 \in 0 .. used.ids
  BY Known DEF NoFiles, Idle, MirrorInv, Numbered
<1>1. ASSUME NEW op, NEW x, Begin(c, op, x), x.op # "idle", x.id = p, x.data.of \in 0 .. used.ids, Track,
             \/ x.pc \in {"insert", "export"} /\ (x.pc = "export" => x.name = rows[p].name)
             \/ x.pc \in {"rewrite", "retire"} /\ x.old = rows[p].name
             \/ x.pc = "unpublish" /\ x.data.of = rows[p].of /\ x.name = rows[p].name
             \/ x.pc = "rmtree" /\ x.data.of = rows[p].of /\ x.name = rows[p].name /\ ~x.remote,
             UNCHANGED <<rows, specs, fs, bucket, boot, trail>>
      PROVE  MirrorInv'
  <2>1. Follows(x, rows, bucket, contested, trail.left, trail.mirrored, used.ids)
    BY <1>1 DEF Follows, Registering
  <2> QED BY <1>1, <2>1, BeginsFollow
<1>2. CASE publish_pack_to_source(c, p)
  <2> DEFINE x == [Idle EXCEPT !.op = "publish", !.pc = "export", !.id = p,
                             !.name = rows[p].name, !.old = rows[p].name]
  <2>1. x.op # "idle" /\ x.id = p /\ x.data = Idle.data /\ x.pc = "export" /\ x.name = rows[p].name
    BY DEF Idle
  <2>2. Track /\ Begin(c, "publish", x) /\ UNCHANGED <<rows, specs, fs, bucket, boot, trail>>
    BY <1>2 DEF publish_pack_to_source
  <2> HIDE DEF x
  <2> QED BY <1>0, <1>1, <2>1, <2>2
<1>3. ASSUME NEW n \in Names, rename_pack(c, p, n) PROVE MirrorInv'
  <2> DEFINE x == [Idle EXCEPT !.op = "rename", !.pc = "rewrite", !.id = p,
                            !.dir = rows[p].dir, !.name = n, !.old = rows[p].name]
  <2>1. x.op # "idle" /\ x.id = p /\ x.data = Idle.data /\ x.pc = "rewrite" /\ x.old = rows[p].name
    BY DEF Idle
  <2>2. Track /\ Begin(c, "rename", x) /\ UNCHANGED <<rows, specs, fs, bucket, boot, trail>>
    BY <1>3 DEF rename_pack
  <2> HIDE DEF x
  <2> QED BY <1>0, <1>1, <2>1, <2>2
<1>4. ASSUME NEW n \in Names, update_pack(c, p, n) PROVE MirrorInv'
  <2> DEFINE x == [Idle EXCEPT !.op = "save", !.pc = "retire", !.id = p,
                          !.dir = rows[p].dir, !.name = n, !.old = rows[p].name,
                          !.data = [of |-> rows[p].of, name |-> n, edits |-> TRUE]]
  <2>1. x.op # "idle" /\ x.id = p /\ x.data.of = rows[p].of /\ x.pc = "retire" /\ x.old = rows[p].name
    BY DEF Idle
  <2>2. Track /\ Begin(c, "save", x) /\ UNCHANGED <<rows, specs, fs, bucket, boot, trail>>
    BY <1>4 DEF update_pack
  <2> HIDE DEF x
  <2> QED BY <1>0, <1>1, <2>1, <2>2
<1>5. ASSUME NEW remote \in BOOLEAN, delete_pack(c, p, remote) PROVE MirrorInv'
  <2> DEFINE x == [Idle EXCEPT !.op = "delete", !.id = p, !.dir = rows[p].dir,
                            !.name = rows[p].name, !.old = rows[p].name, !.remote = remote,
                            !.data = [NoFiles EXCEPT !.of = rows[p].of],
                            !.pc = IF remote THEN "unpublish" ELSE "rmtree"]
  <2>1. /\ x.op # "idle" /\ x.id = p /\ x.data = [NoFiles EXCEPT !.of = rows[p].of]
        /\ x.name = rows[p].name /\ x.remote = remote
        /\ x.pc = IF remote THEN "unpublish" ELSE "rmtree"
    BY DEF Idle
  <2>2. Track /\ Begin(c, "delete", x) /\ UNCHANGED <<rows, specs, fs, bucket, boot, trail>>
    BY <1>5 DEF delete_pack
  <2> HIDE DEF x
  <2>3. x.data.of = rows[p].of
    BY <1>0, <2>1
  <2> QED BY <1>0, <1>1, <2>1, <2>2, <2>3
<1>6. ASSUME NEW extra \in SUBSET DOMAIN rows, create_spec(c, p, extra) PROVE MirrorInv'
  <2> DEFINE x == [Idle EXCEPT !.op = "spec", !.pc = "insert", !.id = p, !.extra = extra]
  <2>1. x.op # "idle" /\ x.id = p /\ x.data = Idle.data /\ x.pc = "insert"
    BY DEF Idle
  <2>2. Track /\ Begin(c, "spec", x) /\ UNCHANGED <<rows, specs, fs, bucket, boot, trail>>
    BY <1>6 DEF create_spec
  <2> HIDE DEF x
  <2> QED BY <1>0, <1>1, <2>1, <2>2
<1> QED BY <1>2, <1>3, <1>4, <1>5, <1>6

-----------------------------------------------------------------------------
(* Steps of threads that leave the bucket alone.                           *)

(* The numbers of the directories after one is filled or freed.            *)
LEMMA NumbersFilled ==
    ASSUME MirrorInv, used.ids \in Nat, used'.ids \in Nat, used.ids <= used'.ids, NEW dir, NEW f,
           fs' = Set(fs, dir, f), f.of \in 0 .. used'.ids
    PROVE  \A d \in DOMAIN fs' : fs'[d].of \in 0 .. used'.ids
  BY DEF MirrorInv, Numbered, Set

(* Likewise when a path is emptied.                                        *)
LEMMA NumbersFreed ==
    ASSUME MirrorInv, NEW dir, fs' = Drop(fs, dir)
    PROVE  \A d \in DOMAIN fs' : fs'[d].of \in 0 .. used.ids
  BY DEF MirrorInv, Numbered, Drop, Restrict

(* What is known of a thread.                                              *)
LEMMA ThreadKnown ==
    ASSUME OwnInv, MirrorInv, NEW c \in Clients
    PROVE  /\ ThreadOK(req[c], rows, fs, trail.exposed, used.ids)
           /\ Follows(req[c], rows, bucket, contested, trail.left, trail.mirrored, used.ids)
           /\ used.ids \in Nat /\ DOMAIN req = Clients /\ DOMAIN req[c] = ReqFields
           /\ \A d \in DOMAIN fs : fs[d].of \in 0 .. used.ids
           /\ \A r \in DOMAIN rows : rows[r].of \in 0 .. used.ids
<1>1. ThreadOK(req[c], rows, fs, trail.exposed, used.ids) /\ used.ids \in Nat
  BY Known
<1> QED BY <1>1 DEF MirrorInv, Following, Numbered, OwnInv, Threads, ThreadOK

(* The next step of a request, rows and bucket as they were.               *)
LEMMA GoesFollow ==
    ASSUME OwnInv, MirrorInv, Track, NEW c \in Clients, NEW pc, Goto(c, pc), req[c].op # "idle",
           UNCHANGED <<rows, bucket, boot, used>>,
           trail'.mirrored = trail.mirrored, trail'.left = trail.left,
           \A d \in DOMAIN fs' : fs'[d].of \in 0 .. used.ids,
           \/ pc \in {"swap", "commit"} /\ req[c].pc \in {"rewrite", "retire", "swap"}
           \/ pc = "drop" /\ req[c].pc = "rmtree"
    PROVE  MirrorInv'
<1>1. /\ Follows(req[c], rows, bucket, contested, trail.left, trail.mirrored, used.ids)
      /\ used.ids \in Nat
  BY ThreadKnown
<1>2. PICK x : /\ Moves(c, x) /\ DOMAIN x = ReqFields /\ x.pc = pc
               /\ \A a \in ReqFields \ {"pc"} : x[a] = req[c][a]
  BY Goes
<1>3. /\ x.op = req[c].op /\ x.id = req[c].id /\ x.data = req[c].data /\ x.old = req[c].old
      /\ x.name = req[c].name /\ x.remote = req[c].remote
  BY <1>2 DEF ReqFields
<1>4. contested \subseteq contested'
  BY Tracked
<1>5. Follows(x, rows', bucket', contested', trail'.left, trail'.mirrored, used'.ids)
  BY <1>1, <1>2, <1>3, <1>4 DEF Follows, Registering
<1>6. RowsBut(c, -1) /\ RowCounted(-1) /\ ArchiveStays(-1)
  BY RowsAsBefore
<1>7. used'.ids \in Nat /\ used.ids <= used'.ids /\ \A d \in DOMAIN fs' : fs'[d].of \in 0 .. used'.ids
  BY <1>1
<1> QED BY <1>2, <1>5, <1>6, <1>7, RowStep

(* A new directory gets a number nobody has.                               *)
LEMMA PlaceFollows ==
    ASSUME OwnInv, MirrorInv, NEW c \in Clients, place(c) PROVE MirrorInv'
<1>1. /\ req[c].op \in {"upload", "create"} /\ req[c].pc = "place" /\ Track
      /\ UNCHANGED <<rows, bucket, boot, trail>>
  BY DEF place, At
<1>2. /\ ThreadOK(req[c], rows, fs, trail.exposed, used.ids)
      /\ Follows(req[c], rows, bucket, contested, trail.left, trail.mirrored, used.ids)
      /\ used.ids \in Nat /\ DOMAIN req = Clients /\ DOMAIN req[c] = ReqFields
      /\ \A d \in DOMAIN fs : fs[d].of \in 0 .. used.ids
      /\ \A r \in DOMAIN rows : rows[r].of \in 0 .. used.ids
  BY ThreadKnown
<1>3. CASE ~CanPlace(req[c].dir)
  <2>1. End(c) /\ UNCHANGED <<fs, used>>
    BY <1>3 DEF place
  <2> QED BY <1>1, <1>2, <2>1, EndsFollow
<1>4. CASE CanPlace(req[c].dir)
  <2>1. PICK i : i = used.ids + 1
    OBVIOUS
  <2>2. PICK f : f = [req[c].data EXCEPT !.of = i]
    OBVIOUS
  <2>3. PICK x : x = [req[c] EXCEPT !.pc = "register", !.id = i]
    OBVIOUS
  <2>4. /\ fs' = Set(fs, req[c].dir, f) /\ used' = [used EXCEPT !.ids = i]
        /\ req' = [req EXCEPT ![c].pc = "register", ![c].id = i]
    BY <1>4, <2>1, <2>2 DEF place
  <2>5. Moves(c, x)
    BY <1>2, <2>3, <2>4 DEF Moves
  <2>6. x.op = req[c].op /\ x.pc = "register" /\ x.id = i /\ x.data = req[c].data
    BY <1>2, <2>3 DEF ReqFields
  <2>7. f.of = i
    BY <1>2, <2>2 DEF ThreadOK
  <2>8. i \in Nat /\ used'.ids = i /\ used.ids < i
    BY <1>2, <2>1, <2>4 DEF OwnInv, Stores
  <2>9. i \notin trail.mirrored /\ \A r \in DOMAIN rows : rows[r].of # i
    BY <1>2, <2>8 DEF MirrorInv, Numbered
  <2>10. Follows(x, rows', bucket', contested', trail'.left, trail'.mirrored, used'.ids)
    BY <1>1, <1>2, <2>6, <2>8, <2>9 DEF Follows
  <2>11. RowsBut(c, -1) /\ RowCounted(-1) /\ ArchiveStays(-1)
    BY <1>1, RowsAsBefore
  <2>12. used'.ids \in Nat /\ used.ids <= used'.ids /\ \A d \in DOMAIN fs' : fs'[d].of \in 0 .. used'.ids
    BY <1>2, <2>4, <2>7, <2>8, NumbersFilled
  <2> QED BY <1>1, <2>5, <2>10, <2>11, <2>12, RowStep
<1> QED BY <1>3, <1>4

(* The new row is of a pack that no archive and no row had.                *)
LEMMA RegisterFollows ==
    ASSUME OwnInv, MirrorInv, NEW c \in Clients, register(c) PROVE MirrorInv'
<1>1. /\ req[c].op \in {"upload", "create"} /\ req[c].pc = "register" /\ Track
      /\ UNCHANGED <<bucket, boot, used, trail>>
  BY DEF register, At
<1>2. /\ ThreadOK(req[c], rows, fs, trail.exposed, used.ids)
      /\ Follows(req[c], rows, bucket, contested, trail.left, trail.mirrored, used.ids)
      /\ used.ids \in Nat /\ DOMAIN req = Clients /\ DOMAIN req[c] = ReqFields
      /\ \A d \in DOMAIN fs : fs[d].of \in 0 .. used.ids
  BY ThreadKnown
<1>3. CASE ~req[c].readable
  <2>1. fs' = Drop(fs, req[c].dir) /\ End(c) /\ UNCHANGED rows
    BY <1>3 DEF register
  <2>2. \A d \in DOMAIN fs' : fs'[d].of \in 0 .. used.ids
    BY <2>1, NumbersFreed
  <2> QED BY <1>1, <2>1, <2>2, EndsFollow
<1>4. CASE req[c].readable
  <2>1. PICK i, n : i = req[c].id /\ n = req[c].name
    OBVIOUS
  <2>2. PICK row : row = [name |-> n, dir |-> req[c].dir, of |-> i, kind |-> "local"]
    OBVIOUS
  <2>3. PICK x : x = [req[c] EXCEPT !.pc = "export", !.old = n]
    OBVIOUS
  <2>4. rows' = Set(rows, i, row) /\ req' = [req EXCEPT ![c].pc = "export", ![c].old = n] /\ fs' = fs
    BY <1>4, <2>1, <2>2 DEF register
  <2>5. Moves(c, x)
    BY <1>2, <2>3, <2>4 DEF Moves
  <2>6. x.op = req[c].op /\ x.pc = "export" /\ x.id = i /\ x.data = req[c].data /\ x.name = n
    BY <1>2, <2>1, <2>3 DEF ReqFields
  <2>7. /\ i \notin DOMAIN rows /\ i \in 0 .. used.ids /\ Registering(req[c])
        /\ i \in trail.mirrored => i \in contested
    BY <1>1, <1>2, <2>1 DEF ThreadOK, Registering, Follows
  <2>8. contested \subseteq contested'
    BY <1>1, Tracked
  <2>9. rows'[i] = row /\ row.of = i /\ row.name = n
    BY <2>2, <2>4 DEF Set
  <2>10. Follows(x, rows', bucket', contested', trail'.left, trail'.mirrored, used'.ids)
    BY <1>1, <1>2, <2>6, <2>9 DEF Follows, Registering
  <2>11. RowsBut(c, i)
    <3>1. \A d \in Clients \ {c} : req[d].id # i
      BY <2>1, <2>7, Known DEF Apart
    <3>2. /\ \A r \in DOMAIN rows : r # i => r \in DOMAIN rows'
          /\ \A r \in DOMAIN rows' : r # i => r \in DOMAIN rows /\ rows'[r] = rows[r]
      BY <2>4 DEF Set
    <3> QED BY <2>7, <2>9, <3>1, <3>2 DEF RowsBut
  <2>12. RowCounted(i) /\ ArchiveStays(i)
    BY <1>1, <2>7, <2>8, <2>9 DEF RowCounted, ArchiveStays
  <2>13. used'.ids \in Nat /\ used.ids <= used'.ids /\ \A d \in DOMAIN fs' : fs'[d].of \in 0 .. used'.ids
    BY <1>1, <1>2, <2>4
  <2> QED BY <1>1, <2>5, <2>10, <2>11, <2>12, <2>13, RowStep
<1> QED BY <1>3, <1>4

(* The export reads the row and the files; if they are of two packs both   *)
(* are known to be contested.                                              *)
LEMMA ExportFollows ==
    ASSUME OwnInv, MirrorInv, NEW c \in Clients, export(c) PROVE MirrorInv'
<1>1. req[c].pc = "export" /\ Track /\ UNCHANGED <<rows, fs, bucket, boot, used, trail>>
  BY DEF export
<1>2. /\ Follows(req[c], rows, bucket, contested, trail.left, trail.mirrored, used.ids)
      /\ used.ids \in Nat /\ DOMAIN req = Clients /\ DOMAIN req[c] = ReqFields
      /\ \A d \in DOMAIN fs : fs[d].of \in 0 .. used.ids
      /\ \A r \in DOMAIN rows : rows[r].of \in 0 .. used.ids
  BY ThreadKnown
<1>3. CASE ~(Writable /\ req[c].id \in DOMAIN rows /\ Exportable(rows[req[c].id]))
  <2>1. End(c)
    BY <1>3 DEF export
  <2> QED BY <1>1, <1>2, <2>1, EndsFollow
<1>4. CASE Writable /\ req[c].id \in DOMAIN rows /\ Exportable(rows[req[c].id])
  <2>1. PICK i \in DOMAIN rows : i = req[c].id
    BY <1>4
  <2>2. PICK f : f = export_pack_bytes(rows[i])
    OBVIOUS
  <2>3. req' = [req EXCEPT ![c].pc = "put", ![c].data = f]
    BY <1>4, <2>1, <2>2 DEF export
  <2>4. PICK x : x = [req[c] EXCEPT !.pc = "put", !.data = f]
    OBVIOUS
  <2>5. Moves(c, x)
    BY <1>2, <2>3, <2>4 DEF Moves
  <2>6. x.op = req[c].op /\ x.pc = "put" /\ x.data = f /\ x.id = i /\ x.name = req[c].name
    BY <1>2, <2>1, <2>4 DEF ReqFields
  <2>7. f.of \in 0 .. used.ids /\ (f.of # rows[i].of => {f.of, rows[i].of} \subseteq contested)
    <3>1. CASE rows[i].kind = "local"
      <4>1. rows[i].dir \in DOMAIN fs /\ f = fs[rows[i].dir]
        BY <1>4, <2>1, <2>2, <3>1 DEF Exportable, export_pack_bytes
      <4> QED BY <1>2, <4>1 DEF MirrorInv, Noted
    <3>2. CASE rows[i].kind # "local"
      BY <1>2, <2>2, <3>2 DEF export_pack_bytes
    <3> QED BY <3>1, <3>2
  <2>8. contested \subseteq contested'
    BY <1>1, Tracked
  <2>9. rows[i].of \in contested \/ rows[i].name = req[c].name
    BY <1>1, <1>2, <2>1 DEF Follows
  <2>10. req[c].op # "idle"
    BY <1>1, <1>2 DEF Follows
  <2>11. Follows(x, rows', bucket', contested', trail'.left, trail'.mirrored, used'.ids)
    BY <1>1, <2>6, <2>7, <2>8, <2>9, <2>10 DEF Follows, Registering
  <2>12. RowsBut(c, -1) /\ RowCounted(-1) /\ ArchiveStays(-1)
    BY <1>1, RowsAsBefore
  <2>13. used'.ids \in Nat /\ used.ids <= used'.ids /\ \A d \in DOMAIN fs' : fs'[d].of \in 0 .. used'.ids
    BY <1>1, <1>2
  <2> QED BY <1>1, <2>5, <2>11, <2>12, <2>13, RowStep
<1> QED BY <1>3, <1>4

(* The steps on directories: rewrite, retire, swap, rmtree.                *)
LEMMA DirectoryFollows ==
    ASSUME OwnInv, MirrorInv, NEW c \in Clients,
           rewrite(c) \/ retire(c) \/ swap(c) \/ remove_uploaded_pack_dir(c) \/ insert_spec(c)
    PROVE  MirrorInv'
<1>1. /\ Follows(req[c], rows, bucket, contested, trail.left, trail.mirrored, used.ids)
      /\ used.ids \in Nat /\ ThreadOK(req[c], rows, fs, trail.exposed, used.ids)
      /\ \A d \in DOMAIN fs : fs[d].of \in 0 .. used.ids
  BY ThreadKnown
<1>2. Track /\ UNCHANGED <<rows, bucket, boot, used>> /\ req[c].op # "idle"
  BY DEF rewrite, retire, swap, remove_uploaded_pack_dir, insert_spec, At
<1>3. trail'.mirrored = trail.mirrored /\ trail'.left = trail.left
  BY DEF rewrite, retire, swap, remove_uploaded_pack_dir, insert_spec, OwnInv, Stores
<1>4. \A d \in DOMAIN fs' : fs'[d].of \in 0 .. used.ids
  <2>1. CASE fs' = fs
    BY <1>1, <2>1
  <2>2. CASE rewrite(c)
    <3>1. PICK n, dir : n = req[c].name /\ dir = req[c].dir
      OBVIOUS
    <3>2. fs' = IF dir \in DOMAIN fs THEN [fs EXCEPT ![dir].name = n] ELSE fs
      BY <2>2, <3>1 DEF rewrite
    <3>3. \A d \in DOMAIN fs : "of" \in DOMAIN fs[d]
      BY DEF OwnInv, Stores
    <3> QED BY <1>1, <3>2, <3>3
  <2>3. ASSUME NEW dir, fs' = Drop(fs, dir) PROVE \A d \in DOMAIN fs' : fs'[d].of \in 0 .. used.ids
    BY <2>3, NumbersFreed
  <2>4. CASE fs' = Set(fs, req[c].dir, req[c].data)
    <3>1. req[c].data.of \in 0 .. used.ids
      BY <1>1 DEF Follows
    <3> QED BY <1>1, <2>4, <3>1 DEF Set
  <2> QED BY <2>1, <2>2, <2>3, <2>4 DEF retire, swap, remove_uploaded_pack_dir, insert_spec
<1>5. \/ End(c)
      \/ Goto(c, "commit") /\ req[c].pc \in {"rewrite", "swap"}
      \/ Goto(c, "swap") /\ req[c].pc = "retire"
      \/ Goto(c, "drop") /\ req[c].pc = "rmtree"
  BY DEF rewrite, retire, swap, remove_uploaded_pack_dir, insert_spec, At
<1>6. CASE End(c)
  BY <1>2, <1>3, <1>4, <1>6, EndsFollow
<1> QED BY <1>2, <1>3, <1>4, <1>5, <1>6, GoesFollow

(* The row is renamed: from here the archive under the old key is noted as *)
(* left, and the row answers for the new one.                              *)
LEMMA CommitFollows ==
    ASSUME OwnInv, MirrorInv, NEW c \in Clients, commit(c) PROVE MirrorInv'
<1>1. req[c].pc = "commit" /\ Track /\ UNCHANGED <<fs, bucket, boot, used>>
  BY DEF commit, At
<1>2. /\ Follows(req[c], rows, bucket, contested, trail.left, trail.mirrored, used.ids)
      /\ used.ids \in Nat /\ \A d \in DOMAIN fs : fs[d].of \in 0 .. used.ids
  BY ThreadKnown
<1>3. CASE req[c].id \notin DOMAIN rows
  <2>1. End(c) /\ UNCHANGED <<rows, trail>>
    BY <1>3 DEF commit
  <2> QED BY <1>1, <1>2, <2>1, EndsFollow
<1>4. CASE req[c].id \in DOMAIN rows
  <2>1. PICK i \in DOMAIN rows : i = req[c].id
    BY <1>4
  <2>2. PICK n, m : n = req[c].name /\ m = req[c].old
    OBVIOUS
  <2>3. /\ rows' = [rows EXCEPT ![i].name = n] /\ Goto(c, "export")
        /\ trail' = IF archive_name(m) = archive_name(n) THEN trail
                    ELSE [trail EXCEPT !.left = @ \cup {<<rows[i].of, archive_name(m)>>}]
    BY <1>4, <2>1, <2>2 DEF commit
  <2>4. /\ trail'.mirrored = trail.mirrored /\ trail.left \subseteq trail'.left
        /\ archive_name(m) # archive_name(n) => <<rows[i].of, archive_name(m)>> \in trail'.left
    BY <2>3 DEF OwnInv, Stores
  <2>5. /\ DOMAIN rows' = DOMAIN rows /\ rows'[i].name = n /\ rows'[i].of = rows[i].of
        /\ \A r \in DOMAIN rows : r # i => rows'[r] = rows[r]
    <3>1. DOMAIN rows[i] = RowFields
      BY DEF OwnInv, RowsOwn, RowOK
    <3> QED BY <2>3, <3>1 DEF RowFields
  <2>6. PICK x : /\ Moves(c, x) /\ DOMAIN x = ReqFields /\ x.pc = "export"
                 /\ \A a \in ReqFields \ {"pc"} : x[a] = req[c][a]
    BY <2>3, Goes
  <2>7. x.op = req[c].op /\ x.id = i /\ x.data = req[c].data /\ x.name = n
    BY <2>1, <2>2, <2>6 DEF ReqFields
  <2>8. contested \subseteq contested'
    BY <1>1, Tracked
  <2>9. rows[i].of \in contested \/ rows[i].name = m
    BY <1>1, <1>2, <2>1, <2>2 DEF Follows
  <2>10. Follows(x, rows', bucket', contested', trail'.left, trail'.mirrored, used'.ids)
    BY <1>1, <1>2, <2>5, <2>6, <2>7 DEF Follows, Registering
  <2>11. RowsBut(c, i) /\ RowCounted(i)
    BY <2>1, <2>5 DEF RowsBut, RowCounted
  <2>12. ArchiveStays(i)
    BY <2>4, <2>5, <2>8, <2>9 DEF ArchiveStays
  <2>13. used'.ids \in Nat /\ used.ids <= used'.ids /\ \A d \in DOMAIN fs' : fs'[d].of \in 0 .. used'.ids
    BY <1>1, <1>2
  <2> QED BY <1>1, <2>4, <2>6, <2>10, <2>11, <2>12, <2>13, RowStep
<1> QED BY <1>3, <1>4

(* The row is dropped: its archive was removed before, or is noted.        *)
LEMMA DropFollows ==
    ASSUME OwnInv, MirrorInv, NEW c \in Clients, drop_row(c) PROVE MirrorInv'
<1>1. req[c].pc = "drop" /\ Track /\ End(c) /\ UNCHANGED <<fs, bucket, boot, used>>
  BY DEF drop_row, At
<1>2. /\ Follows(req[c], rows, bucket, contested, trail.left, trail.mirrored, used.ids)
      /\ used.ids \in Nat /\ \A d \in DOMAIN fs : fs[d].of \in 0 .. used.ids
  BY ThreadKnown
<1>3. CASE UNCHANGED <<rows, trail>>
  BY <1>1, <1>2, <1>3, EndsFollow
<1>4. CASE req[c].id \in DOMAIN rows /\ SpecsNaming(req[c].id) = {}
  <2>1. PICK i \in DOMAIN rows : i = req[c].id
    BY <1>4
  <2>2. PICK o, key : o = req[c].data.of /\ key = archive_name(req[c].name)
    OBVIOUS
  <2>3. rows' = Drop(rows, i)
    BY <1>4, <2>1 DEF drop_row
  <2>4. trail'.mirrored = trail.mirrored /\ trail'.left = IF req[c].remote THEN trail.left ELSE trail.left \cup {<<o, key>>}
    BY <1>4, <2>2 DEF drop_row, OwnInv, Stores
  <2>5. rows[i].of = o /\ (o \in contested \/ rows[i].name = req[c].name)
    BY <1>1, <1>2, <2>1, <2>2 DEF Follows
  <2>6. req[c].remote => o \in contested \/ \A k \in DOMAIN bucket : bucket[k].of = o => <<o, k>> \in trail.left
    BY <1>1, <1>2, <2>1, <2>2 DEF Follows
  <2>7. contested \subseteq contested'
    BY <1>1, Tracked
  <2>8. /\ i \notin DOMAIN rows'
        /\ \A r \in DOMAIN rows : r # i => r \in DOMAIN rows' /\ rows'[r] = rows[r]
        /\ \A r \in DOMAIN rows' : r \in DOMAIN rows
    BY <2>3 DEF Drop, Restrict
  <2>9. RowsBut(c, i) /\ RowCounted(i)
    BY <2>1, <2>8 DEF RowsBut, RowCounted
  <2>10. ArchiveStays(i)
    BY <2>2, <2>4, <2>5, <2>6, <2>7 DEF ArchiveStays
  <2>11. Moves(c, Idle) /\ Follows(Idle, rows', bucket', contested', trail'.left, trail'.mirrored, used'.ids)
    BY <1>1, <1>2, Ends, IdleFollows
  <2>12. /\ used'.ids \in Nat /\ used.ids <= used'.ids /\ \A d \in DOMAIN fs' : fs'[d].of \in 0 .. used'.ids
         /\ trail.left \subseteq trail'.left
    BY <1>1, <1>2, <2>4
  <2> HIDE DEF Idle
  <2> QED BY <1>1, <2>4, <2>9, <2>10, <2>11, <2>12, RowStep
<1> QED BY <1>3, <1>4 DEF drop_row

(* A row without a directory has a fresh number too.                       *)
LEMMA AddRowFollows ==
    ASSUME OwnInv, MirrorInv, NEW c \in Clients, NEW op, NEW n, NEW kind, AddRow(c, op, n, kind)
    PROVE  MirrorInv'
<1>1. /\ Track /\ req[c].op = "idle" /\ UNCHANGED <<fs, bucket, req, boot, trail>>
      /\ used' = [used EXCEPT !.ids = @ + 1, !.requests = @ + 1]
  BY DEF AddRow
<1>2. /\ Follows(req[c], rows, bucket, contested, trail.left, trail.mirrored, used.ids)
      /\ used.ids \in Nat /\ DOMAIN req = Clients
      /\ \A d \in DOMAIN fs : fs[d].of \in 0 .. used.ids
  BY ThreadKnown
<1>3. PICK i : i = used.ids + 1
  OBVIOUS
<1>4. PICK row : row = [name |-> n, dir |-> NoPath, of |-> i, kind |-> kind]
  OBVIOUS
<1>5. rows' = Set(rows, i, row) /\ row.of = i
  BY <1>3, <1>4 DEF AddRow
<1>6. used'.ids = i /\ i \in Nat /\ used.ids < i
  BY <1>1, <1>2, <1>3 DEF OwnInv, Stores
<1>7. i \notin DOMAIN rows /\ i \notin trail.mirrored
  BY <1>2, <1>6 DEF OwnInv, RowsOwn, MirrorInv, Numbered
<1>8. Moves(c, req[c])
  BY <1>1, <1>2 DEF Moves
<1>9. Follows(req[c], rows', bucket', contested', trail'.left, trail'.mirrored, used'.ids)
  <2>1. req[c].pc = "idle" /\ req[c].data.of \in 0 .. used'.ids
    BY <1>1, <1>2, <1>6 DEF Follows
  <2> QED BY <2>1, PlainFollows
<1>10. RowsBut(c, i)
  <2>1. ASSUME NEW d \in Clients \ {c} PROVE req[d].id # i
    <3>1. ThreadOK(req[d], rows, fs, trail.exposed, used.ids)
      BY Known
    <3> QED BY <1>2, <1>6, <3>1 DEF ThreadOK
  <2>2. /\ \A r \in DOMAIN rows : r # i => r \in DOMAIN rows'
        /\ \A r \in DOMAIN rows' : r # i => r \in DOMAIN rows /\ rows'[r] = rows[r]
        /\ rows'[i] = row
    BY <1>5 DEF Set
  <2> QED BY <1>5, <1>7, <2>1, <2>2 DEF RowsBut
<1>11. RowCounted(i) /\ ArchiveStays(i)
  <2>1. rows'[i].of = i
    BY <1>5 DEF Set
  <2> QED BY <1>6, <1>7, <2>1 DEF RowCounted, ArchiveStays
<1>12. used'.ids \in Nat /\ used.ids <= used'.ids /\ \A d \in DOMAIN fs' : fs'[d].of \in 0 .. used'.ids
  BY <1>1, <1>2, <1>6
<1> QED BY <1>1, <1>8, <1>9, <1>10, <1>11, <1>12, RowStep

-----------------------------------------------------------------------------
(* Steps on the bucket.                                                    *)

(* A thread's keys are the names it works with; an archive of another pack *)
(* under one of them is contested.                                         *)
LEMMA OwnKeys ==
    ASSUME OwnInv, MirrorInv, NEW c \in Clients, req[c].op # "idle",
           NEW key \in {archive_name(req[c].name), archive_name(req[c].old)}
    PROVE  /\ key \in KeysOf(req[c])
           /\ key \in DOMAIN bucket /\ bucket[key].of # PackOf(rows, req[c]) => bucket[key].of \in contested
<1>1. key \in KeysOf(req[c])
  BY DEF KeysOf
<1> QED BY <1>1 DEF MirrorInv, Noted

(* The archive is put.                                                     *)
LEMMA PutFollows ==
    ASSUME OwnInv, MirrorInv, NEW c \in Clients, NEW ok \in BOOLEAN, put(c, ok) PROVE MirrorInv'
<1>1. req[c].pc = "put" /\ Track /\ UNCHANGED <<rows, fs, boot, used>>
  BY DEF put
<1>2. /\ Follows(req[c], rows, bucket, contested, trail.left, trail.mirrored, used.ids)
      /\ used.ids \in Nat /\ \A d \in DOMAIN fs : fs[d].of \in 0 .. used.ids
  BY ThreadKnown
<1>3. CASE ~ok
  <2>1. End(c) /\ UNCHANGED <<bucket, trail>>
    BY <1>3 DEF put
  <2> QED BY <1>1, <1>2, <2>1, EndsFollow
<1>4. CASE ok
  <2>1. PICK o, key, i : o = req[c].data.of /\ key = archive_name(req[c].name) /\ i = req[c].id
    OBVIOUS
  <2>2. /\ bucket' = Set(bucket, key, req[c].data)
        /\ trail' = [trail EXCEPT !.mirrored = @ \cup {req[c].data.of},
                                  !.left = @ \ {<<req[c].data.of, key>>}]
        /\ IF archive_name(req[c].old) = key THEN End(c) ELSE Goto(c, "unput")
    BY <1>4, <2>1 DEF put, store_put
  <2>3. trail'.mirrored = trail.mirrored \cup {o} /\ trail'.left = trail.left \ {<<o, key>>}
    BY <2>1, <2>2 DEF OwnInv, Stores
  <2>4. /\ DOMAIN bucket' = DOMAIN bucket \cup {key} /\ bucket'[key] = req[c].data
        /\ \A k \in DOMAIN bucket : k # key => bucket'[k] = bucket[k]
    BY <2>2 DEF Set
  <2>5. /\ req[c].op # "idle" /\ o \in 0 .. used.ids
        /\ o \in contested \/ (i \in DOMAIN rows /\ rows[i].of = o /\ rows[i].name = req[c].name)
        /\ i \in DOMAIN rows => rows[i].of \in contested \/ rows[i].of = o
    BY <1>1, <1>2, <2>1 DEF Follows
  <2>6. key \in KeysOf(req[c]) /\ (key \in DOMAIN bucket /\ bucket[key].of # PackOf(rows, req[c]) => bucket[key].of \in contested)
    BY <2>1, <2>5, OwnKeys
  <2>7. key \in DOMAIN bucket => bucket[key].of \in contested \cup {o}
    BY <2>1, <2>5, <2>6 DEF PackOf
  <2>8. contested \subseteq contested'
    BY <1>1, Tracked
  <2>9. KeysBut(c, {key})
    BY <1>1, <2>1, <2>3, <2>4, <2>6 DEF KeysBut
  <2>10. MirrorKept'
    <3>1. ASSUME NEW r \in DOMAIN rows, rows[r].of \in trail'.mirrored, rows[r].of \notin contested'
          PROVE  \E k \in DOMAIN bucket' : bucket'[k].of = rows[r].of
      <4>1. CASE rows[r].of = o
        BY <2>1, <2>4, <4>1
      <4>2. CASE rows[r].of # o
        <5>1. PICK k \in DOMAIN bucket : bucket[k].of = rows[r].of
          BY <2>3, <2>8, <3>1, <4>2 DEF MirrorInv, MirrorTrue, MirrorKept
        <5> QED BY <2>4, <2>7, <2>8, <3>1, <4>2, <5>1
      <4> QED BY <4>1, <4>2
    <3> QED BY <1>1, <3>1 DEF MirrorKept
  <2>11. ArchivesAccounted'
    <3>1. ASSUME NEW k \in DOMAIN bucket', bucket'[k].of \notin contested', <<bucket'[k].of, k>> \notin trail'.left
          PROVE  \E r \in DOMAIN rows : rows[r].of = bucket'[k].of /\ archive_name(rows[r].name) = k
      <4>1. CASE k = key
        BY <2>1, <2>4, <2>5, <2>8, <3>1, <4>1
      <4>2. CASE k # key
        <5>1. k \in DOMAIN bucket /\ bucket'[k] = bucket[k]
          BY <2>4, <4>2
        <5>2. <<bucket[k].of, k>> \notin trail.left
          BY <2>3, <3>1, <4>2, <5>1
        <5> QED BY <2>8, <3>1, <5>1, <5>2 DEF MirrorInv, MirrorTrue, ArchivesAccounted
      <4> QED BY <4>1, <4>2
    <3> QED BY <1>1, <3>1 DEF ArchivesAccounted
  <2>12. boot.phase = "up" /\ MirrorTrue'
    BY <1>1, <2>10, <2>11, Awake DEF MirrorTrue
  <2>13. CASE archive_name(req[c].old) = key
    <3>1. End(c)
      BY <2>2, <2>13
    <3>2. Moves(c, Idle) /\ Follows(Idle, rows', bucket', contested', trail'.left, trail'.mirrored, used'.ids)
      BY <1>1, <1>2, <3>1, Ends, IdleFollows
    <3> HIDE DEF Idle
    <3> QED BY <1>1, <2>9, <2>12, <3>2, KeyStep
  <2>14. CASE archive_name(req[c].old) # key
    <3>1. PICK x : /\ Moves(c, x) /\ DOMAIN x = ReqFields /\ x.pc = "unput"
                   /\ \A a \in ReqFields \ {"pc"} : x[a] = req[c][a]
      BY <2>2, <2>14, Goes
    <3>2. x.op = req[c].op /\ x.id = i /\ x.data = req[c].data /\ x.name = req[c].name /\ x.old = req[c].old
      BY <2>1, <3>1 DEF ReqFields
    <3>3. Follows(x, rows', bucket', contested', trail'.left, trail'.mirrored, used'.ids)
      BY <1>1, <2>1, <2>4, <2>5, <2>8, <2>14, <3>1, <3>2 DEF Follows, Registering
    <3> QED BY <1>1, <2>9, <2>12, <3>1, <3>3, KeyStep
  <2> QED BY <2>13, <2>14
<1> QED BY <1>3, <1>4

(* The old key goes: the archive under the new one is still there.         *)
LEMMA UnputFollows ==
    ASSUME OwnInv, MirrorInv, NEW c \in Clients, NEW ok \in BOOLEAN, unput(c, ok) PROVE MirrorInv'
<1>1. req[c].pc = "unput" /\ Track /\ End(c) /\ UNCHANGED <<rows, fs, boot, used>>
  BY DEF unput
<1>2. /\ Follows(req[c], rows, bucket, contested, trail.left, trail.mirrored, used.ids)
      /\ used.ids \in Nat /\ \A d \in DOMAIN fs : fs[d].of \in 0 .. used.ids
  BY ThreadKnown
<1>3. CASE ~ok
  <2>1. UNCHANGED <<bucket, trail>>
    BY <1>3 DEF unput
  <2> QED BY <1>1, <1>2, <2>1, EndsFollow
<1>4. CASE ok
  <2>1. PICK o, key, i : o = req[c].data.of /\ key = archive_name(req[c].old) /\ i = req[c].id
    OBVIOUS
  <2>2. bucket' = Drop(bucket, key) /\ trail' = [trail EXCEPT !.left = @ \ {<<req[c].data.of, key>>}]
    BY <1>4, <2>1 DEF unput, store_delete
  <2>3. trail'.mirrored = trail.mirrored /\ trail'.left = trail.left \ {<<o, key>>}
    BY <2>1, <2>2 DEF OwnInv, Stores
  <2>4. DOMAIN bucket' = DOMAIN bucket \ {key} /\ \A k \in DOMAIN bucket' : bucket'[k] = bucket[k]
    BY <2>2 DEF Drop, Restrict
  <2>5. /\ req[c].op # "idle"
        /\ \/ o \in contested
           \/ \E k \in DOMAIN bucket : k # key /\ bucket[k].of = o
        /\ i \in DOMAIN rows => rows[i].of \in contested \/ rows[i].of = o
    BY <1>1, <1>2, <2>1 DEF Follows
  <2>6. key \in KeysOf(req[c]) /\ (key \in DOMAIN bucket /\ bucket[key].of # PackOf(rows, req[c]) => bucket[key].of \in contested)
    BY <2>1, <2>5, OwnKeys
  <2>7. key \in DOMAIN bucket => bucket[key].of \in contested \cup {o}
    BY <2>1, <2>5, <2>6 DEF PackOf
  <2>8. contested \subseteq contested'
    BY <1>1, Tracked
  <2>9. KeysBut(c, {key})
    BY <2>3, <2>4, <2>6 DEF KeysBut
  <2>10. MirrorKept'
    <3>1. ASSUME NEW r \in DOMAIN rows, rows[r].of \in trail.mirrored, rows[r].of \notin contested'
          PROVE  \E k \in DOMAIN bucket' : bucket'[k].of = rows[r].of
      <4>1. PICK k \in DOMAIN bucket : bucket[k].of = rows[r].of
        BY <2>8, <3>1 DEF MirrorInv, MirrorTrue, MirrorKept
      <4>2. PICK j \in DOMAIN bucket : j # key /\ bucket[j].of = rows[r].of
        BY <2>5, <2>7, <2>8, <3>1, <4>1
      <4> QED BY <2>4, <4>2
    <3> QED BY <1>1, <2>3, <3>1 DEF MirrorKept
  <2>11. ArchivesAccounted'
    <3>1. ASSUME NEW k \in DOMAIN bucket', bucket'[k].of \notin contested', <<bucket'[k].of, k>> \notin trail'.left
          PROVE  \E r \in DOMAIN rows : rows[r].of = bucket'[k].of /\ archive_name(rows[r].name) = k
      <4>1. k \in DOMAIN bucket /\ k # key /\ bucket'[k] = bucket[k]
        BY <2>4
      <4>2. <<bucket[k].of, k>> \notin trail.left
        BY <2>3, <3>1, <4>1
      <4> QED BY <2>8, <3>1, <4>1, <4>2 DEF MirrorInv, MirrorTrue, ArchivesAccounted
    <3> QED BY <1>1, <3>1 DEF ArchivesAccounted
  <2>12. boot.phase = "up" /\ MirrorTrue'
    BY <1>1, <2>10, <2>11, Awake DEF MirrorTrue
  <2>13. Moves(c, Idle) /\ Follows(Idle, rows', bucket', contested', trail'.left, trail'.mirrored, used'.ids)
    BY <1>1, <1>2, Ends, IdleFollows
  <2> HIDE DEF Idle
  <2> QED BY <1>1, <2>9, <2>12, <2>13, KeyStep
<1> QED BY <1>3, <1>4

(* A delete removes the archive first: of its pack only archives noted as  *)
(* left remain.                                                            *)
LEMMA UnpublishFollows ==
    ASSUME OwnInv, MirrorInv, NEW c \in Clients, NEW ok \in BOOLEAN, unpublish_pack(c, ok) PROVE MirrorInv'
<1>1. req[c].pc = "unpublish" /\ Track /\ UNCHANGED <<rows, fs, boot, used>>
  BY DEF unpublish_pack, At
<1>2. /\ Follows(req[c], rows, bucket, contested, trail.left, trail.mirrored, used.ids)
      /\ used.ids \in Nat /\ \A d \in DOMAIN fs : fs[d].of \in 0 .. used.ids
  BY ThreadKnown
<1>3. CASE ~ok
  <2>1. End(c) /\ UNCHANGED <<bucket, trail>>
    BY <1>3 DEF unpublish_pack
  <2> QED BY <1>1, <1>2, <2>1, EndsFollow
<1>4. CASE ok
  <2>1. PICK o, key, i : o = req[c].data.of /\ key = archive_name(req[c].name) /\ i = req[c].id
    OBVIOUS
  <2>2. /\ bucket' = Drop(bucket, key) /\ trail' = [trail EXCEPT !.mirrored = @ \ {req[c].data.of}]
        /\ Goto(c, "rmtree")
    BY <1>4, <2>1 DEF unpublish_pack, store_delete
  <2>3. trail'.mirrored = trail.mirrored \ {o} /\ trail'.left = trail.left
    BY <2>1, <2>2 DEF OwnInv, Stores
  <2>4. DOMAIN bucket' = DOMAIN bucket \ {key} /\ \A k \in DOMAIN bucket' : bucket'[k] = bucket[k]
    BY <2>2 DEF Drop, Restrict
  <2>5. /\ req[c].op # "idle" /\ o \in 0 .. used.ids
        /\ i \in DOMAIN rows => rows[i].of = o /\ (o \in contested \/ archive_name(rows[i].name) = key)
    BY <1>1, <1>2, <2>1 DEF Follows
  <2>6. key \in KeysOf(req[c]) /\ (key \in DOMAIN bucket /\ bucket[key].of # PackOf(rows, req[c]) => bucket[key].of \in contested)
    BY <2>1, <2>5, OwnKeys
  <2>7. key \in DOMAIN bucket => bucket[key].of \in contested \cup {o}
    BY <2>1, <2>5, <2>6 DEF PackOf
  <2>8. contested \subseteq contested'
    BY <1>1, Tracked
  <2>9. KeysBut(c, {key})
    BY <2>3, <2>4, <2>6 DEF KeysBut
  <2>10. MirrorKept'
    <3>1. ASSUME NEW r \in DOMAIN rows, rows[r].of \in trail'.mirrored, rows[r].of \notin contested'
          PROVE  \E k \in DOMAIN bucket' : bucket'[k].of = rows[r].of
      <4>1. PICK k \in DOMAIN bucket : bucket[k].of = rows[r].of
        BY <2>3, <2>8, <3>1 DEF MirrorInv, MirrorTrue, MirrorKept
      <4> QED BY <2>3, <2>4, <2>7, <2>8, <3>1, <4>1
    <3> QED BY <1>1, <3>1 DEF MirrorKept
  <2>11. \A k \in DOMAIN bucket' : bucket'[k].of \notin contested' /\ <<bucket'[k].of, k>> \notin trail.left =>
            \E r \in DOMAIN rows : rows[r].of = bucket'[k].of /\ archive_name(rows[r].name) = k
    BY <2>4, <2>8 DEF MirrorInv, MirrorTrue, ArchivesAccounted
  <2>12. boot.phase = "up" /\ MirrorTrue'
    BY <1>1, <2>3, <2>10, <2>11, Awake DEF MirrorTrue, ArchivesAccounted
  <2>13. PICK x : /\ Moves(c, x) /\ DOMAIN x = ReqFields /\ x.pc = "rmtree"
                  /\ \A a \in ReqFields \ {"pc"} : x[a] = req[c][a]
    BY <2>2, Goes
  <2>14. x.op = req[c].op /\ x.id = i /\ x.data = req[c].data /\ x.name = req[c].name
    BY <2>1, <2>13 DEF ReqFields
  <2>15. ASSUME i \in DOMAIN rows, o \notin contested', NEW k \in DOMAIN bucket', bucket'[k].of = o
         PROVE  <<o, k>> \in trail.left
    <3>1. SUFFICES ASSUME <<o, k>> \notin trail.left PROVE FALSE
      OBVIOUS
    <3>2. PICK r \in DOMAIN rows : rows[r].of = o /\ archive_name(rows[r].name) = k
      BY <2>11, <2>15, <3>1
    <3>3. r = i
      BY <2>5, <2>8, <2>15, <3>2 DEF MirrorInv, Noted
    <3> QED BY <2>4, <2>5, <2>8, <2>15, <3>2, <3>3
  <2>16. Follows(x, rows', bucket', contested', trail'.left, trail'.mirrored, used'.ids)
    <3>1. x.pc = "rmtree" /\ x.op # "idle" /\ x.data.of = o /\ o \in 0 .. used'.ids
      BY <1>1, <2>1, <2>5, <2>13, <2>14
    <3>2. i \in DOMAIN rows => rows[i].of = o /\ (o \in contested' \/ rows[i].name = x.name)
      BY <1>1, <1>2, <2>1, <2>8, <2>14 DEF Follows
    <3> QED BY <1>1, <2>3, <2>14, <2>15, <3>1, <3>2 DEF Follows, Registering
  <2> QED BY <1>1, <2>9, <2>12, <2>13, <2>16, KeyStep
<1> QED BY <1>3, <1>4

-----------------------------------------------------------------------------
(* The restart and the boot, when no request runs.                         *)
LEMMA StandFollows ==
    ASSUME OwnInv, MirrorInv, Track, UNCHANGED <<rows, fs, bucket, req, boot, used, trail>>
    PROVE  MirrorInv'
<1>1. Noted(rows', req', bucket', fs', contested') /\ contested \subseteq contested'
  BY Tracked
<1>2. Following'
  <2>1. ASSUME NEW c \in Clients
        PROVE  Follows(req[c], rows, bucket, contested', trail.left, trail.mirrored, used.ids)
    BY <1>1, ThreadKnown DEF Follows
  <2> QED BY <2>1 DEF Following
<1>3. Numbered' /\ MirrorTrue'
  BY <1>1 DEF MirrorInv, Numbered, MirrorTrue, MirrorKept, ArchivesAccounted
<1> QED BY <1>1, <1>2, <1>3 DEF MirrorInv

(* Rows come, or are adopted; none goes.                                   *)
LEMMA BootFollows ==
    ASSUME OwnInv, MirrorInv, Track, \A c \in Clients : req'[c] = Idle, bucket' = bucket, trail' = trail,
           used'.ids \in Nat, used.ids <= used'.ids,
           \A d \in DOMAIN fs' : fs'[d].of \in 0 .. used'.ids,
           \A r \in DOMAIN rows : r \in DOMAIN rows' /\ rows'[r].of = rows[r].of /\ rows'[r].name = rows[r].name,
           \A r \in DOMAIN rows' : r \notin DOMAIN rows =>
               /\ rows'[r].of \in 0 .. used'.ids
               /\ rows'[r].of \notin trail.mirrored \/ \E k \in DOMAIN bucket : bucket[k].of = rows'[r].of,
           \A p \in DOMAIN boot'.made : \E k \in DOMAIN bucket : bucket[k].of = boot'.made[p].of
    PROVE  MirrorInv'
<1>1. Noted(rows', req', bucket', fs', contested') /\ contested \subseteq contested'
  BY Tracked
<1>2. used.ids \in Nat /\ 0 .. used.ids \subseteq 0 .. used'.ids /\ Numbered /\ MirrorTrue
  BY DEF OwnInv, Stores, MirrorInv
<1>3. Following'
  <2>1. Follows(Idle, rows', bucket', contested', trail'.left, trail'.mirrored, used'.ids)
    BY IdleFollows
  <2> HIDE DEF Idle
  <2> QED BY <2>1 DEF Following
<1>4. Numbered'
  <2>1. \A r \in DOMAIN rows' : rows'[r].of \in 0 .. used'.ids
    BY <1>2 DEF Numbered
  <2> QED BY <1>2, <2>1 DEF Numbered
<1>5. MirrorKept'
  BY <1>1, <1>2 DEF MirrorTrue, MirrorKept
<1>6. ArchivesAccounted'
  <2>1. ASSUME NEW k \in DOMAIN bucket, bucket[k].of \notin contested', <<bucket[k].of, k>> \notin trail.left
        PROVE  \E r \in DOMAIN rows' : rows'[r].of = bucket[k].of /\ archive_name(rows'[r].name) = k
    <3>1. PICK r \in DOMAIN rows : rows[r].of = bucket[k].of /\ archive_name(rows[r].name) = k
      BY <1>1, <1>2, <2>1 DEF MirrorTrue, ArchivesAccounted
    <3> QED BY <3>1
  <2> QED BY <2>1 DEF ArchivesAccounted
<1> QED BY <1>1, <1>3, <1>4, <1>5, <1>6 DEF MirrorInv, MirrorTrue

(* A crash: the archives stay as they are.                                 *)
LEMMA CrashFollows ==
    ASSUME OwnInv, MirrorInv, Crash PROVE MirrorInv'
<1>1. /\ UNCHANGED <<rows, fs, bucket, trail>> /\ req' = [c \in Clients |-> Idle] /\ boot' = Booting
      /\ used' = [used EXCEPT !.crashes = @ + 1] /\ Track
  BY DEF Crash
<1>2. used'.ids = used.ids /\ used.ids \in Nat /\ \A d \in DOMAIN fs : fs[d].of \in 0 .. used.ids
  BY <1>1 DEF OwnInv, Stores, MirrorInv, Numbered
<1>3. DOMAIN boot'.made = {} /\ \A c \in Clients : req'[c] = Idle
  BY <1>1, BootShape
<1>4. used'.ids \in Nat /\ used.ids <= used'.ids /\ \A d \in DOMAIN fs' : fs'[d].of \in 0 .. used'.ids
  BY <1>1, <1>2
<1> HIDE DEF Idle, Booting
<1> QED BY <1>1, <1>3, <1>4, BootFollows

(* Seeding adds rows of fresh packs, or adopts one.                        *)
LEMMA SeedFollows ==
    ASSUME OwnInv, MirrorInv, NEW b, seed_builtin_packs(b) PROVE MirrorInv'
<1>1. /\ boot.phase = "seeding" /\ UNCHANGED <<fs, bucket, req, trail>> /\ Track
      /\ boot' = [boot EXCEPT !.todo = @ \ {b}]
  BY DEF seed_builtin_packs
<1>2. /\ used.ids \in Nat /\ trail.mirrored \subseteq 0 .. used.ids
      /\ \A d \in DOMAIN fs : fs[d].of \in 0 .. used.ids
      /\ \A r \in DOMAIN rows : r \in 0 .. used.ids /\ DOMAIN rows[r] = RowFields
      /\ DOMAIN boot.made = {} /\ \A c \in Clients : req[c] = Idle
  BY <1>1 DEF OwnInv, Stores, RowsOwn, RowOK, BootOK, MirrorInv, Numbered
<1>3. boot'.made = boot.made
  BY <1>1 DEF OwnInv, BootOK
<1>4. /\ used'.ids \in Nat /\ used.ids <= used'.ids
      /\ \A r \in DOMAIN rows : r \in DOMAIN rows' /\ rows'[r].of = rows[r].of /\ rows'[r].name = rows[r].name
      /\ \A r \in DOMAIN rows' : r \notin DOMAIN rows =>
           rows'[r].of \in 0 .. used'.ids /\ rows'[r].of \notin trail.mirrored
  <2>1. CASE UNCHANGED <<rows, used>>
    BY <1>2, <2>1
  <2>2. CASE /\ used' = [used EXCEPT !.ids = @ + 1]
             /\ rows' = Set(rows, used.ids + 1, [name |-> b, dir |-> NoPath,
                                                 of |-> used.ids + 1, kind |-> "builtin"])
    <3>1. PICK i : i = used.ids + 1
      OBVIOUS
    <3>2. PICK row : row = [name |-> b, dir |-> NoPath, of |-> i, kind |-> "builtin"]
      OBVIOUS
    <3>3. used'.ids = i /\ i \in Nat /\ used.ids < i
      BY <1>2, <2>2, <3>1 DEF OwnInv, Stores
    <3>4. i \notin DOMAIN rows /\ i \notin trail.mirrored /\ row.of = i
      BY <1>2, <3>2, <3>3
    <3>5. rows' = Set(rows, i, row)
      BY <2>2, <3>1, <3>2
    <3>6. /\ \A r \in DOMAIN rows : r \in DOMAIN rows' /\ rows'[r] = rows[r]
          /\ \A r \in DOMAIN rows' : r \notin DOMAIN rows => rows'[r] = row
      BY <3>4, <3>5 DEF Set
    <3> QED BY <1>2, <3>3, <3>4, <3>6
  <2>3. ASSUME NEW p \in DOMAIN rows, used' = used,
               rows' = [rows EXCEPT ![p].kind = "builtin", ![p].dir = NoPath]
        PROVE  /\ DOMAIN rows' = DOMAIN rows
               /\ \A r \in DOMAIN rows : rows'[r].of = rows[r].of /\ rows'[r].name = rows[r].name
    BY <1>2, <2>3 DEF RowFields
  <2>4. used.ids <= used.ids
    BY <1>2
  <2>5. \/ UNCHANGED <<rows, used>>
        \/ /\ used' = [used EXCEPT !.ids = @ + 1]
           /\ rows' = Set(rows, used.ids + 1, [name |-> b, dir |-> NoPath,
                                               of |-> used.ids + 1, kind |-> "builtin"])
        \/ \E p \in DOMAIN rows : /\ used' = used
              /\ rows' = [rows EXCEPT ![p].kind = "builtin", ![p].dir = NoPath]
    BY Zenon DEF seed_builtin_packs
  <2> QED BY <1>2, <2>1, <2>2, <2>3, <2>4, <2>5
<1>5. \A d \in DOMAIN fs' : fs'[d].of \in 0 .. used'.ids
  BY <1>1, <1>2, <1>4
<1>6. \A c \in Clients : req'[c] = Idle
  BY <1>1, <1>2
<1> HIDE DEF Idle
<1> QED BY <1>1, <1>2, <1>3, <1>4, <1>5, <1>6, BootFollows

(* The listing changes no store.                                           *)
LEMMA ListFollows ==
    ASSUME OwnInv, MirrorInv, NEW ok \in BOOLEAN, list_archives(ok) PROVE MirrorInv'
<1>1. /\ boot.phase = "seeding" /\ UNCHANGED <<rows, fs, bucket, req, used, trail>> /\ Track
      /\ boot'.made = NoRows
  BY DEF list_archives
<1>2. /\ used.ids \in Nat /\ \A d \in DOMAIN fs : fs[d].of \in 0 .. used.ids
      /\ \A c \in Clients : req[c] = Idle
  BY <1>1 DEF OwnInv, Stores, BootOK, MirrorInv, Numbered
<1>3. DOMAIN NoRows = {} /\ used.ids <= used.ids
  BY <1>2 DEF NoRows
<1> HIDE DEF Idle, NoRows
<1> QED BY <1>1, <1>2, <1>3, BootFollows

(* An imported row is of a pack in the bucket.                             *)
LEMMA SyncFollows ==
    ASSUME OwnInv, MirrorInv, NEW k, NEW ok \in BOOLEAN, sync_from_store(k, ok) PROVE MirrorInv'
<1>1. boot.phase = "import" /\ k \in boot.todo /\ UNCHANGED <<rows, bucket, req, trail>> /\ Track
  BY DEF sync_from_store
<1>2. /\ used.ids \in Nat /\ k \in DOMAIN bucket
      /\ \A d \in DOMAIN fs : fs[d].of \in 0 .. used.ids
      /\ \A j \in DOMAIN bucket : bucket[j].of \in 0 .. used.ids
      /\ \A p \in DOMAIN boot.made : \E j \in DOMAIN bucket : bucket[j].of = boot.made[p].of
      /\ DOMAIN boot = {"phase", "todo", "known", "made"} /\ \A c \in Clients : req[c] = Idle
  BY <1>1 DEF OwnInv, Stores, BootOK, MirrorInv, Numbered
<1>3. /\ used'.ids \in Nat /\ used.ids <= used'.ids
      /\ \A d \in DOMAIN fs' : fs'[d].of \in 0 .. used'.ids
      /\ \A p \in DOMAIN boot'.made : \E j \in DOMAIN bucket : bucket[j].of = boot'.made[p].of
  <2>1. CASE boot' = [boot EXCEPT !.todo = @ \ {k}] /\ UNCHANGED <<fs, used>>
    BY <1>2, <2>1
  <2>2. ASSUME NEW dir \in unique_pack_dir(k),
               used' = [used EXCEPT !.ids = @ + 1], fs' = Set(fs, dir, store_get(k)),
               boot' = [boot EXCEPT !.todo = @ \ {k},
                        !.made = Set(@, used.ids + 1, [name |-> store_get(k).name, dir |-> dir,
                                                       of |-> store_get(k).of, kind |-> "local"])]
        PROVE  /\ used'.ids \in Nat /\ used.ids <= used'.ids
               /\ \A d \in DOMAIN fs' : fs'[d].of \in 0 .. used'.ids
               /\ \A p \in DOMAIN boot'.made : \E j \in DOMAIN bucket : bucket[j].of = boot'.made[p].of
    <3>1. PICK i, f : i = used.ids + 1 /\ f = bucket[k]
      OBVIOUS
    <3>2. PICK row : row = [name |-> f.name, dir |-> dir, of |-> f.of, kind |-> "local"]
      OBVIOUS
    <3>3. /\ fs' = Set(fs, dir, f)
          /\ boot' = [boot EXCEPT !.todo = @ \ {k}, !.made = Set(@, i, row)]
      BY <2>2, <3>1, <3>2 DEF store_get
    <3>4. used'.ids = i /\ i \in Nat /\ used.ids < i
      BY <1>2, <2>2, <3>1 DEF OwnInv, Stores
    <3>5. f.of \in 0 .. used'.ids /\ row.of = bucket[k].of
      BY <1>2, <3>1, <3>2, <3>4
    <3>6. used'.ids \in Nat /\ used.ids <= used'.ids
      BY <1>2, <3>4
    <3>7. \A d \in DOMAIN fs' : fs'[d].of \in 0 .. used'.ids
      BY <1>2, <3>3, <3>5, <3>6, NumbersFilled
    <3>8. boot'.made = Set(boot.made, i, row)
      BY <1>2, <3>3
    <3>9. \A p \in DOMAIN boot'.made : \/ boot'.made[p] = row
                                       \/ p \in DOMAIN boot.made /\ boot'.made[p] = boot.made[p]
      BY <3>8 DEF Set
    <3>10. \A p \in DOMAIN boot'.made : \E j \in DOMAIN bucket : bucket[j].of = boot'.made[p].of
      BY <1>2, <3>5, <3>9
    <3> QED BY <3>6, <3>7, <3>10
  <2> QED BY <2>1, <2>2 DEF sync_from_store
<1>4. /\ \A c \in Clients : req'[c] = Idle
      /\ \A r \in DOMAIN rows : r \in DOMAIN rows' /\ rows'[r].of = rows[r].of /\ rows'[r].name = rows[r].name
      /\ \A r \in DOMAIN rows' : r \in DOMAIN rows
  BY <1>1, <1>2
<1> HIDE DEF Idle
<1> QED BY <1>1, <1>3, <1>4, BootFollows

(* The imported rows are committed.                                        *)
LEMMA LoadFollows ==
    ASSUME OwnInv, MirrorInv, load_from_env PROVE MirrorInv'
<1>1. /\ boot.phase = "import" /\ UNCHANGED <<fs, bucket, req, used, trail>> /\ boot' = Up /\ Track
      /\ rows' = [p \in DOMAIN rows \cup DOMAIN boot.made |->
                    IF p \in DOMAIN rows THEN rows[p] ELSE boot.made[p]]
  BY DEF load_from_env
<1>2. /\ used.ids \in Nat /\ used.ids <= used.ids
      /\ \A d \in DOMAIN fs : fs[d].of \in 0 .. used.ids
      /\ \A j \in DOMAIN bucket : bucket[j].of \in 0 .. used.ids
      /\ \A p \in DOMAIN boot.made : \E j \in DOMAIN bucket : bucket[j].of = boot.made[p].of
      /\ \A c \in Clients : req[c] = Idle
  BY <1>1 DEF OwnInv, Stores, BootOK, MirrorInv, Numbered
<1>3. DOMAIN boot'.made = {}
  BY <1>1, BootShape
<1>4. /\ \A r \in DOMAIN rows : r \in DOMAIN rows' /\ rows'[r].of = rows[r].of /\ rows'[r].name = rows[r].name
      /\ \A r \in DOMAIN rows' : r \notin DOMAIN rows =>
           /\ rows'[r].of \in 0 .. used'.ids
           /\ \E j \in DOMAIN bucket : bucket[j].of = rows'[r].of
  BY <1>1, <1>2
<1>5. /\ \A c \in Clients : req'[c] = Idle
      /\ used'.ids \in Nat /\ used.ids <= used'.ids /\ \A d \in DOMAIN fs' : fs'[d].of \in 0 .. used'.ids
  BY <1>1, <1>2
<1> HIDE DEF Idle, Up
<1> QED BY <1>1, <1>3, <1>4, <1>5, BootFollows

(* The empty bucket.                                                       *)
LEMMA InitMirror == Init => MirrorInv
<1> SUFFICES ASSUME Init PROVE MirrorInv
  OBVIOUS
<1>1. /\ DOMAIN rows = {} /\ DOMAIN fs = {} /\ DOMAIN bucket = {} /\ used.ids = 0
      /\ trail.mirrored = {} /\ trail.left = {} /\ \A c \in Clients : req[c] = Idle
  BY DEF Init, NoRows
<1>2. DOMAIN boot.made = {}
  BY BootShape DEF Init
<1>3. Noted(rows, req, bucket, fs, contested)
  <2> HIDE DEF Idle
  <2> QED BY <1>1 DEF Noted
<1>4. Following
  <2>1. Follows(Idle, rows, bucket, contested, trail.left, trail.mirrored, used.ids)
    BY <1>1, IdleFollows
  <2> HIDE DEF Idle
  <2> QED BY <1>1, <2>1 DEF Following
<1>5. Numbered /\ MirrorTrue
  BY <1>1, <1>2 DEF Numbered, MirrorTrue, MirrorKept, ArchivesAccounted
<1> QED BY <1>3, <1>4, <1>5 DEF MirrorInv

(* Every step.                                                             *)
LEMMA StepMirror == OwnInv /\ MirrorInv /\ [Next]_vars => MirrorInv'
<1> SUFFICES ASSUME OwnInv, MirrorInv, [Next]_vars PROVE MirrorInv'
  OBVIOUS
<1>1. CASE UNCHANGED vars
  BY <1>1 DEF vars, MirrorInv, Numbered, Following, MirrorTrue, MirrorKept, ArchivesAccounted
<1>2. ASSUME NEW s \in specs, delete_spec(s) PROVE MirrorInv'
  BY <1>2, StandFollows DEF delete_spec
<1>3. ASSUME NEW c \in Clients, NEW n \in Names,
             create_pack(c, n) \/ register_pack(c, n) \/ create_metric_pack(c, n)
      PROVE  MirrorInv'
  BY <1>3, NewPackFollows, AddRowFollows DEF register_pack, create_metric_pack
<1>4. ASSUME NEW c \in Clients,
             \/ place(c) \/ register(c) \/ export(c) \/ rewrite(c) \/ retire(c) \/ swap(c)
             \/ commit(c) \/ remove_uploaded_pack_dir(c) \/ drop_row(c) \/ insert_spec(c)
      PROVE  MirrorInv'
  BY <1>4, PlaceFollows, RegisterFollows, ExportFollows, DirectoryFollows, CommitFollows, DropFollows
<1> QED BY <1>1, <1>2, <1>3, <1>4, NewPackFollows, PackRequestFollows, PutFollows, UnputFollows,
           UnpublishFollows, CrashFollows, SeedFollows, ListFollows, SyncFollows, LoadFollows DEF Next

(* The bucket mirrors the library: through renames, refused writes and     *)
(* crashes a published pack keeps an archive, and every archive belongs to *)
(* a row or was reported as left behind, so long as no two requests, rows  *)
(* or like names worked on the pack at once.                               *)
THEOREM BucketMirrors == Spec => []MirrorTrue
<1>1. MirrorInv => MirrorTrue
  BY DEF MirrorInv
<1> QED BY <1>1, InitOwn, StepOwn, InitMirror, StepMirror, PTL DEF Spec
=============================================================================
