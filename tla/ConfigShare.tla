---------------------------- MODULE ConfigShare ----------------------------
(***************************************************************************)
(* The configuration of several instances and the one shared copy of it   *)
(* (server/configio.py, server/configsource.py, routes/config.py and the   *)
(* target and spec endpoints of routes/api.py).                            *)
(*                                                                         *)
(* An instance has rows in its database: targets, each with a connection   *)
(* and a secret that is ciphertext under some master key, and specs that   *)
(* name a target and a pack.  Repos are treated by the code like targets   *)
(* and are not told apart from them.  A document is what export_config     *)
(* writes.  The copy is one document in a bucket.  An instance pulls it at *)
(* boot and on demand; an instance in Writers compares its configuration   *)
(* every few seconds with the document it last pulled or pushed and pushes *)
(* when they differ.  `synced' and `carried' live in the process: a        *)
(* restart forgets both.                                                   *)
(*                                                                         *)
(* Health of a target, names of rows without a name and the report of an   *)
(* import are left out.  Spec names are taken as unique per instance.      *)
(***************************************************************************)
EXTENDS Naturals, FiniteSets, Functions

CONSTANTS
    Instances,       \* control planes that share one copy
    Writers,         \* the ones with STOKER_CONFIG_SOURCE_WRITE on
    KeyOf,           \* KeyOf[i] is the master key of instance i
    Targets, Specs, Packs,
    Values,          \* what an operator may put in a row
    FirstCopy,       \* the document in the bucket at the start, or Nothing
    Indexed,         \* Indexed[i]: the packs instance i has from the start
    Overlap,         \* may the pulls and pushes of one instance overlap
    BootFailures,    \* may the bucket be unreachable at boot
    MaxEdits, MaxRestarts,
    Nothing

ASSUME ConfigAssumption == Writers \subseteq Instances /\ Overlap \in BOOLEAN

VARIABLES
    target,          \* target[i]: name -> [conn, secret], the targets table
    spec,            \* spec[i]: name -> [target, pack, rate], the specs table
    packs,           \* packs[i]: names of the packs table
    synced,          \* _state["synced"]: a document, or Nothing
    carried,         \* _state["carried"]["specs"]: name -> row
    copy,            \* the object stoker-config.json, or Nothing
    pusher,          \* pusher[i][th]: a push in progress, [pc, doc, rows]
    puller,          \* the pull in progress: [pc, doc]
    edits, restarts,
    unseen           \* specs this process has pulled and never held

ConfigVars == <<target, spec, packs, synced, carried, copy, pusher, puller, edits,
                restarts, unseen>>

Rows == <<target, spec>>
Memory == <<synced, carried, unseen>>

\* A function without some of its arguments.
Without(f, names) == Restrict(f, DOMAIN f \ names)

\* f overridden by g.
Over(g, f) == [x \in DOMAIN f \cup DOMAIN g |-> IF x \in DOMAIN g THEN g[x] ELSE f[x]]

Row(name, row) == [x \in {name} |-> row]
NoRows == [x \in {} |-> Nothing]

\* The background loop, and a request to push.
Threads == {"loop", "request"}

IdlePush == [pc |-> "idle", doc |-> Nothing, rows |-> NoRows]
IdlePull == [pc |-> "idle", doc |-> Nothing]

ConfigInit ==
    /\ target = [i \in Instances |-> NoRows]
    /\ spec = [i \in Instances |-> NoRows]
    /\ packs = Indexed
    /\ synced = [i \in Instances |-> Nothing]
    /\ carried = [i \in Instances |-> NoRows]
    /\ copy = FirstCopy
    /\ pusher = [i \in Instances |-> [th \in Threads |-> IdlePush]]
    /\ puller = [i \in Instances |-> [IdlePull EXCEPT !.pc = "boot"]]
    /\ edits = 0 /\ restarts = 0
    /\ unseen = [i \in Instances |-> {}]

(***************************************************************************)
(* Documents                                                               *)
(***************************************************************************)

\* export_config: the rows, whether the stored secrets are in it, and the
\* fingerprint of this instance's key.
export_config(i, secrets) ==
    [key |-> KeyOf[i], secrets |-> secrets, targets |-> target[i], specs |-> spec[i]]

\* The secret an import leaves in a target: one under another key does not
\* replace what is here, and a document without secrets leaves it alone.
imported_secret(i, doc, t) ==
    CASE t \in DOMAIN target[i] /\ (doc.key # KeyOf[i] \/ ~doc.secrets) -> target[i][t].secret
      [] t \notin DOMAIN target[i] /\ ~doc.secrets -> Nothing
      [] OTHER -> doc.targets[t].secret

imported_targets(i, doc) ==
    Over([t \in DOMAIN doc.targets |->
              [conn |-> doc.targets[t].conn, secret |-> imported_secret(i, doc, t)]],
         target[i])

\* A spec whose target or pack this instance does not have is skipped.
Applies(i, doc, s) ==
    /\ doc.specs[s].target \in DOMAIN imported_targets(i, doc)
    /\ doc.specs[s].pack \in packs[i]

imported_specs(i, doc) ==
    Over(Restrict(doc.specs, {s \in DOMAIN doc.specs : Applies(i, doc, s)}), spec[i])

\* import_config with the commit of its caller.
import_config(i, doc) ==
    /\ target' = [target EXCEPT ![i] = imported_targets(i, doc)]
    /\ spec' = [spec EXCEPT ![i] = imported_specs(i, doc)]

(***************************************************************************)
(* Pull                                                                    *)
(***************************************************************************)

Quiet(i) == puller[i].pc = "idle" /\ \A th \in Threads : pusher[i][th].pc = "idle"
Serving(i) == puller[i].pc # "boot" /\ (Overlap \/ Quiet(i))

\* POST /source/pull reads the object.
pull(i) ==
    /\ Serving(i) /\ puller[i].pc = "idle"
    /\ copy # Nothing
    /\ puller' = [puller EXCEPT ![i] = [pc |-> "apply", doc |-> copy]]
    /\ UNCHANGED <<Rows, packs, Memory, copy, pusher, edits, restarts>>

\* The rows of a document that are not here once it has been imported.
not_applied(i, doc) == Without(doc.specs, DOMAIN imported_specs(i, doc))

\* The rest of pull(): the import, the note of what could not be applied, and
\* the commit of the caller.
absorb(i, doc) ==
    /\ import_config(i, doc)
    /\ carried' = [carried EXCEPT ![i] = not_applied(i, doc)]
    /\ synced' = [synced EXCEPT ![i] = doc]
    /\ unseen' = [unseen EXCEPT ![i] = DOMAIN not_applied(i, doc)]

apply(i) ==
    /\ puller[i].pc = "apply"
    /\ absorb(i, puller[i].doc)
    /\ puller' = [puller EXCEPT ![i] = IdlePull]
    /\ UNCHANGED <<packs, copy, pusher, edits, restarts>>

\* load_from_env pulls before requests are served and loops started; nothing
\* there yet, or a bucket that cannot be reached, leaves all as it is.
load_from_env(i, reachable) ==
    /\ puller[i].pc = "boot"
    /\ IF reachable /\ copy # Nothing THEN absorb(i, copy)
       ELSE (reachable \/ BootFailures) /\ UNCHANGED <<Rows, Memory>>
    /\ puller' = [puller EXCEPT ![i] = IdlePull]
    /\ UNCHANGED <<packs, copy, pusher, edits, restarts>>

(***************************************************************************)
(* Push                                                                    *)
(***************************************************************************)

\* document(): the export, then a copy of the carried rows.
read(i, pc) == [pc |-> pc, doc |-> export_config(i, TRUE), rows |-> carried[i]]

\* The loop looks first (maybe_push), a request pushes without looking.
start_push(i, th) ==
    /\ i \in Writers /\ Serving(i)
    /\ pusher[i][th].pc = "idle"
    /\ pusher' = [pusher EXCEPT ![i][th] = read(i, IF th = "loop" THEN "look" ELSE "settle")]
    /\ UNCHANGED <<Rows, packs, Memory, copy, puller, edits, restarts>>

\* Mutant: the document is only what this instance has.
kept_None(p) == NoRows

\* The carried rows that the export does not have.
kept(p) == Without(p.rows, DOMAIN p.doc.specs)

\* The rest of document(): carried rows are appended, and the ones this
\* instance has by now are forgotten.
settle(i, th) ==
    LET p == pusher[i][th] IN
    /\ p.pc \in {"look", "settle"}
    /\ carried' = [carried EXCEPT ![i] = IF p.rows = NoRows THEN @ ELSE kept(p)]
    /\ pusher' = [pusher EXCEPT
           ![i][th] = [pc |-> IF p.pc = "look" THEN "compare" ELSE "put",
                       doc |-> [p.doc EXCEPT !.specs = Over(kept(p), @)],
                       rows |-> NoRows]]
    /\ UNCHANGED <<Rows, packs, synced, unseen, copy, puller, edits, restarts>>

\* Unchanged since the last pull or push: done.  Otherwise push() takes the
\* document once more.
compare(i, th) ==
    /\ pusher[i][th].pc = "compare"
    /\ pusher' = [pusher EXCEPT ![i][th] =
                      IF synced[i] = @.doc THEN IdlePush ELSE read(i, "settle")]
    /\ UNCHANGED <<Rows, packs, Memory, copy, puller, edits, restarts>>

put_object(i, th, accepted) ==
    /\ pusher[i][th].pc = "put"
    /\ copy' = IF accepted THEN pusher[i][th].doc ELSE copy
    /\ pusher' = [pusher EXCEPT ![i][th] =
                      IF accepted THEN [@ EXCEPT !.pc = "mark"] ELSE IdlePush]
    /\ UNCHANGED <<Rows, packs, Memory, puller, edits, restarts>>

\* What the copy of a writer should say.
Document(i) == [export_config(i, TRUE) EXCEPT !.specs = Over(spec[i], carried[i])]

\* Mutant: the configuration of now is noted, not the one that was written.
pushed_Now(i, th) == Document(i)

\* What push() notes as synced: the document it wrote, whatever the rows are
\* by now.
pushed(i, th) == pusher[i][th].doc

mark(i, th) ==
    /\ pusher[i][th].pc = "mark"
    /\ synced' = [synced EXCEPT ![i] = pushed(i, th)]
    /\ pusher' = [pusher EXCEPT ![i][th] = IdlePush]
    /\ UNCHANGED <<Rows, packs, carried, unseen, copy, puller, edits, restarts>>

(***************************************************************************)
(* Operators, packs and restarts                                           *)
(***************************************************************************)

\* What every edit has in common.  A spec the instance holds is seen.
Edit(i) ==
    /\ puller[i].pc # "boot" /\ edits < MaxEdits
    /\ edits' = edits + 1
    /\ unseen' = [unseen EXCEPT ![i] = @ \ DOMAIN spec'[i]]
    /\ UNCHANGED <<packs, synced, carried, copy, pusher, puller, restarts>>

\* The secret is encrypted under this instance's key.
create_target(i, t, v) ==
    /\ t \notin DOMAIN target[i]
    /\ target' = [target EXCEPT ![i] = Over(Row(t, [conn |-> v, secret |-> KeyOf[i]]), @)]
    /\ UNCHANGED spec
    /\ Edit(i)

\* A partial update: a new name unless another row has it, a new
\* connection, a new token or none.  Specs refer to the row, not the name.
update_target(i, t, n, v, rotate) ==
    /\ t \in DOMAIN target[i] /\ (n = t \/ n \notin DOMAIN target[i])
    /\ LET row == [conn |-> v, secret |-> IF rotate THEN KeyOf[i] ELSE target[i][t].secret]
       IN target' = [target EXCEPT ![i] = Over(Row(n, row), Without(@, {t}))]
    /\ spec' = [spec EXCEPT ![i] =
                    [s \in DOMAIN @ |-> IF @[s].target = t THEN [@[s] EXCEPT !.target = n]
                                        ELSE @[s]]]
    /\ Edit(i)

delete_target(i, t) ==
    /\ t \in DOMAIN target[i]
    /\ \A s \in DOMAIN spec[i] : spec[i][s].target # t
    /\ target' = [target EXCEPT ![i] = Without(@, {t})]
    /\ UNCHANGED spec
    /\ Edit(i)

\* create_spec and update_spec: the target and the pack must exist.
write_spec(i, s, t, p, v) ==
    /\ t \in DOMAIN target[i] /\ p \in packs[i]
    /\ spec' = [spec EXCEPT ![i] = Over(Row(s, [target |-> t, pack |-> p, rate |-> v]), @)]
    /\ UNCHANGED target
    /\ Edit(i)

delete_spec(i, s) ==
    /\ s \in DOMAIN spec[i]
    /\ spec' = [spec EXCEPT ![i] = Without(@, {s})]
    /\ UNCHANGED target
    /\ Edit(i)

\* POST /import of what another instance exports, with or without secrets.
import_export(i, j, secrets) ==
    /\ i # j
    /\ import_config(i, export_config(j, secrets))
    /\ Edit(i)

\* A pack of a repo or of the pack source is indexed.
index_pack(i, p) ==
    /\ p \notin packs[i]
    /\ packs' = [packs EXCEPT ![i] = @ \cup {p}]
    /\ UNCHANGED <<Rows, Memory, copy, pusher, puller, edits, restarts>>

restart(i) ==
    /\ restarts < MaxRestarts
    /\ restarts' = restarts + 1
    /\ synced' = [synced EXCEPT ![i] = Nothing]
    /\ carried' = [carried EXCEPT ![i] = NoRows]
    /\ unseen' = [unseen EXCEPT ![i] = {}]
    /\ pusher' = [pusher EXCEPT ![i] = [th \in Threads |-> IdlePush]]
    /\ puller' = [puller EXCEPT ![i] = [IdlePull EXCEPT !.pc = "boot"]]
    /\ UNCHANGED <<Rows, packs, copy, edits>>

Operator(i) ==
    \/ \E t \in Targets, v \in Values : create_target(i, t, v)
    \/ \E t, n \in Targets, v \in Values, rotate \in BOOLEAN : update_target(i, t, n, v, rotate)
    \/ \E t \in Targets : delete_target(i, t)
    \/ \E s \in Specs, t \in Targets, p \in Packs, v \in Values : write_spec(i, s, t, p, v)
    \/ \E s \in Specs : delete_spec(i, s)
    \/ \E j \in Instances, secrets \in BOOLEAN : import_export(i, j, secrets)

ConfigNext ==
    \E i \in Instances :
        \/ pull(i) \/ apply(i)
        \/ \E reachable \in BOOLEAN : load_from_env(i, reachable)
        \/ \E th \in Threads : start_push(i, th) \/ settle(i, th) \/ compare(i, th)
                                \/ mark(i, th)
        \/ \E th \in Threads, accepted \in BOOLEAN : put_object(i, th, accepted)
        \/ Operator(i)
        \/ \E p \in Packs : index_pack(i, p)
        \/ restart(i)

ConfigSpec == ConfigInit /\ [][ConfigNext]_ConfigVars

(***************************************************************************)
(* Properties                                                              *)
(***************************************************************************)

\* A spec that a pull skipped, because its pack was not indexed here, stays in
\* every copy this process writes until the instance has had the spec itself.
CarriedKept ==
    [][\A i \in Instances, th \in Threads :
           pusher[i][th].pc = "put" /\ pusher'[i][th].pc = "mark"
               => unseen[i] \subseteq DOMAIN copy'.specs]_ConfigVars

\* The loop never rests while the copy is behind: when nothing is in progress
\* and the only writer takes its configuration for synced, the copy says what
\* the writer has, whatever was edited while a push or a pull was under way.
NeverRestsBehind ==
    \A i \in Writers :
        Quiet(i) /\ synced[i] = Document(i) => copy = Document(i)

\* A secret that can be read here is not replaced by ciphertext of another key
\* (the comment in import_config).
ReadableStays ==
    [][\A i \in Instances : \A t \in DOMAIN target[i] :
           target[i][t].secret = KeyOf[i] /\ t \in DOMAIN target'[i]
               => target'[i][t].secret \in {KeyOf[i], Nothing}]_ConfigVars
=============================================================================
