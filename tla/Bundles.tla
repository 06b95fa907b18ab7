------------------------------- MODULE Bundles -------------------------------
(***************************************************************************)
(* Bundle building and delivery: the linters, the reproducible tarball,     *)
(* the multi-pack merge, the content-addressed store and the worker's       *)
(* download (server/bundles.py, lifecycle._resolve_bundle and               *)
(* worker/stoker_agent/bundle.py).                                          *)
(*                                                                          *)
(* Launches run in the threads of one process, so they share the temporary  *)
(* file of a digest.  A pack directory may be replaced while a build reads   *)
(* it.  Three conversions are kept:                                         *)
(*   - a word is a run of [A-Za-z0-9_]; a pack name is a sequence of words  *)
(*     and of "." for any run of other characters;                          *)
(*   - a file or stanza name is a sequence of atoms, the pieces between two *)
(*     "--"; an atom is a sequence of words joined by "-".  A name without  *)
(*     separator is a one-atom sequence;                                    *)
(*   - a path is a sequence of names, so flattening "sub/f" to "sub--f" is  *)
(*     the concatenation of its names and meets a file called "sub--f".     *)
(* A digest is the built content itself: sha256 is taken to be injective.   *)
(***************************************************************************)
EXTENDS Integers, FiniteSets, SequencesExt, TLC

CONSTANTS
    Launches,       \* threads provisioning a run
    Packs,          \* pack rows
    NameOf,         \* NameOf[p]: the pack's name, a sequence of words and "."
    IdOf,           \* IdOf[p]: the word its id prints as
    Contents,       \* Contents[p]: the contents its directory may hold
    Requests,       \* the pack lists (primary first) a spec may name
    Answers,        \* what a dataset_url may answer: sequences of hops
    MaxRedirects, MaxBytes,             \* _MAX_FETCH_REDIRECTS, the dataset cap
    MaxSeries, MaxMetrics, MaxPoints,   \* the metric pack caps
    MaxEdits        \* bound on directory replacements

ASSUME BundleAssumption == Requests \subseteq Seq(Packs) \ {<<>>}

\* A directory has one file at a path; a conf parses to stanzas of these keys.
FileName == Seq(Seq(STRING))
ASSUME ContentsAssumption ==
    \A p \in Packs : \A c \in Contents[p] :
        /\ \A f, g \in c.files : f.path \in Seq(FileName) \ {<<>>} /\ (f.path = g.path => f = g)
        /\ \A s \in DOMAIN c.stanzas :
              /\ s \in FileName
              /\ {"count", "sampleFile", "token", "mode"} \subseteq DOMAIN c.stanzas[s]

\* An absent reference, dataset or namespace is the empty sequence.
None == <<>>
NoReplay == [dataset |-> None, mode |-> "none"]
NoMetrics == [metrics |-> <<>>]

VARIABLES
    dir,        \* dir[p]: the content of the pack's directory
    edits,
    launch,     \* launch[l]: the provisioning thread's local state
    inode,      \* inode[i]: the bytes behind a file, Partial or a content
    tmp, path,  \* tmp[d], path[d]: the inode of the two names of a digest
    bundleRows, \* digests with a committed bundles row
    worker      \* worker[l]: what the run's worker loaded

BundleVars == <<dir, edits, launch, inode, tmp, path, bundleRows, worker>>

-----------------------------------------------------------------------------
(* Names and references *)

Samples == << <<"samples">> >>                \* a name of one atom
Conf    == << << <<"default">> >>, << <<"eventgen.conf">> >> >>
PackYaml == << << <<"pack.yaml">> >> >>
Fetched == << << <<"dataset">> >>, << <<"replay.dat">> >> >>

\* The file of a pack tree at a path; links are followed.
At(files, p) == {f \in files : f.path = p}
IsFile(files, p) == At(files, p) # {}
DataAt(files, p) == IF IsFile(files, p) THEN (CHOOSE f \in At(files, p) : TRUE).data ELSE "missing"

\* merge_namespace: the words of the name, "pack" when there is none.
merge_namespace(name) ==
    LET words == SelectSeq(name, LAMBDA w : w # ".")
    IN  IF words = <<>> THEN <<"pack">> ELSE words

\* merge_pack_namespaces: a clashing namespace takes the pack's id.
merge_pack_namespaces(ps) ==
    LET base == [i \in DOMAIN ps |-> merge_namespace(NameOf[ps[i]])]
    IN  [i \in DOMAIN ps |->
           IF \E j \in DOMAIN ps : j # i /\ base[j] = base[i]
           THEN Append(base[i], IdOf[ps[i]]) ELSE base[i]]

-----------------------------------------------------------------------------
(* Linting *)

\* sampleFile or the stanza name, under samples/ or at the pack root.
SampleFound(c, s) ==
    LET rel == IF c.stanzas[s].sampleFile = None THEN <<s>> ELSE c.stanzas[s].sampleFile
    IN  IsFile(c.files, <<Samples>> \o rel) \/ IsFile(c.files, rel)

lint_eventgen(c) ==
    /\ IsFile(c.files, Conf)
    /\ DOMAIN c.stanzas # {}
    /\ \A s \in DOMAIN c.stanzas :
          /\ c.stanzas[s].mode \in {"sample", "replay"}
          /\ SampleFound(c, s)
          /\ c.stanzas[s].regex = "ok"

\* _safe_join_pack, parse_replay_config: a local dataset wins, and is there.
parse_replay_config(c) ==
    /\ c.replay.dataset # None \/ c.replay.url # "none"
    /\ c.replay.dataset # None => IsFile(c.files, c.replay.dataset)
    /\ c.replay.dataset = None => c.replay.url = "https"
    /\ c.replay.mode \in {"rate", "cadence"}
    /\ c.replay.time_multiple > 0

metrics_series_count(g) == FoldLeft(LAMBDA n, v : IF v = 0 THEN n ELSE n * v, 1, g.dims)

lint_metrics_config(g) ==
    /\ g.resolution > 0
    /\ \A i \in DOMAIN g.dims : g.dims[i] > 0
    /\ metrics_series_count(g) <= MaxSeries
    /\ g.metrics # <<>>
    /\ Len(g.metrics) <= MaxMetrics
    /\ metrics_series_count(g) * Len(g.metrics) <= MaxPoints
    /\ \A i, j \in DOMAIN g.metrics : i # j => g.metrics[i].name # g.metrics[j].name
    /\ \A i \in DOMAIN g.metrics :
          LET x == g.metrics[i]
          IN  x.kind = "gauge" /\ x.min <= x.p95 /\ x.p95 <= x.max /\ x.noise >= 0
              /\ x.pattern = "constant" /\ x.scale \subseteq DOMAIN g.dims

lint_pack(c) ==
    CASE c.engine = "rawreplay" -> parse_replay_config(c)
      [] c.engine = "metrics"   -> lint_metrics_config(c.metricgen)
      [] OTHER                  -> lint_eventgen(c)


-----------------------------------------------------------------------------
(* Building: a bundle is its manifest, its conf and its files *)

\* _iter_pack_files: the pack's own files (its conf and pack.yaml), everything
\* under samples/ and a rawreplay dataset; a link is skipped, and nothing else
\* of the root is shipped.
OwnFiles == {Conf, PackYaml}
UnderSamples(p) == Len(p) > 1 /\ p[1] = Samples
_iter_pack_files(c, extra) ==
    {f \in c.files : ~f.link /\ (f.path \in OwnFiles \cup extra \/ UnderSamples(f.path))}
Members(files) == {[path |-> f.path, data |-> f.data] : f \in files}

NoConf  == <<>>
Bundle(name, engine, conf, files, replay, metricgen) ==
    [name |-> name, engine |-> engine, conf |-> conf, files |-> files,
     replay |-> replay, metricgen |-> metricgen]

\* _fetch_dataset_url and _maybe_gunzip: every hop is checked, the served and
\* the unpacked bytes are capped, the declared sha256 is of the bytes served.
_fetch_dataset_url(hops) ==
    LET last == hops[Len(hops)]
    IN  /\ Len(hops) <= MaxRedirects + 1
        /\ \A i \in DOMAIN hops : hops[i].public
        /\ last.status = 200
        /\ last.size \in 1..MaxBytes /\ last.sha = "ok"
        /\ last.unpacked <= MaxBytes

\* _rawreplay_dataset_members: where the dataset lies in the bundle.
DatasetPath(c) == IF c.replay.dataset # None THEN c.replay.dataset ELSE Fetched

\* build_stoker_manifest and build_tarball_bytes for the pack's own directory;
\* lint is the content the linter saw, c the content the tarball reads.
SingleBundle(p, lint, c) ==
    LET raw   == lint.engine = "rawreplay"
        extra == IF raw THEN {DatasetPath(lint)} ELSE {}
        fetched == IF raw /\ lint.replay.dataset = None
                   THEN {[path |-> Fetched, data |-> "fetched"]} ELSE {}
        files == Members(_iter_pack_files(c, extra)) \cup fetched
    IN  Bundle(<<merge_namespace(NameOf[p])>>, lint.engine,
               IF IsFile(files, Conf)
               THEN [s \in DOMAIN c.stanzas |-> [own |-> c.stanzas[s], globals |-> c.globals]]
               ELSE NoConf,
               files,
               IF raw THEN [dataset |-> DatasetPath(lint), mode |-> lint.replay.mode] ELSE NoReplay,
               NoMetrics)

\* build_from_metrics_config: a stub conf and the metricgen block.
build_from_metrics_config(p, c) ==
    Bundle(<<merge_namespace(NameOf[p])>>, "metrics", NoConf,
           {[path |-> Conf, data |-> "stub"]}, NoReplay, c.metricgen)

-----------------------------------------------------------------------------
(* The merge *)

\* _parse_eventgen_pack_for_merge: a clean eventgen pack without replay stanzas.
Mergeable(c) ==
    /\ c.engine = "eventgen" /\ lint_pack(c)
    /\ \A s \in DOMAIN c.stanzas : c.stanzas[s].mode # "replay"

\* _pack_sample_map: the flat name of a sample.
MergedName(ns, p) == <<ns>> \o FlattenSeq(Tail(p))
_pack_sample_map(c, ns) ==
    {[from |-> f.path, to |-> MergedName(ns, f.path)] :
        f \in {g \in _iter_pack_files(c, {}) : UnderSamples(g.path)}}

\* Mutant: only plain sample names are renamed.
_rewrite_sample_ref_PlainOnly(ref, map) ==
    LET hits == {m \in map : Len(ref) = 1 /\ m.from = <<Samples>> \o ref}
    IN  IF hits = {} THEN ref ELSE <<Samples, (CHOOSE m \in hits : TRUE).to>>
\* _rewrite_sample_ref: "samples/..." and a plain name under samples/ are
\* renamed; anything else passes through.
_rewrite_sample_ref(ref, map) ==
    LET full == IF ref # None /\ ref[1] = Samples THEN ref
                ELSE IF ref # None /\ Len(ref) = 1 THEN <<Samples>> \o ref ELSE <<>>
        hits == {m \in map : m.from = full}
    IN  IF hits = {} THEN ref ELSE <<Samples, (CHOOSE m \in hits : TRUE).to>>

\* The pack's globals under the stanza's own keys (eventgen's rule too).
Effective(o, g) ==
    [o EXCEPT !.count = IF @ = 0 THEN g.count ELSE @,
              !.token = IF @ = None THEN g.token ELSE @]
_merged_stanza_options(o, g, map) ==
    LET e == Effective(o, g)
    IN  [e EXCEPT !.sampleFile = _rewrite_sample_ref(@, map),
                  !.token      = _rewrite_sample_ref(@, map)]

\* build_from_packs sorts by namespace: any function of the SET will do.
ordered(inputs) == SetToSeq(ToSet(inputs))

\* The flattened names of all packs must be distinct.
Collides(inputs, cs) ==
    \E i, j \in DOMAIN inputs :
        \E m \in _pack_sample_map(cs[i], inputs[i].ns), n \in _pack_sample_map(cs[j], inputs[j].ns) :
            m.to = n.to /\ (i # j \/ m.from # n.from)

\* The merged conf and samples; cs is the content parsed, now the content at
\* the copy.  Missing: a sample parsed is no longer there to copy.
MergedConf(inputs, cs) ==
    LET Of(i) == {<< <<inputs[i].ns>> \o s, i, s>> : s \in DOMAIN cs[i].stanzas}
        all   == UNION {Of(i) : i \in DOMAIN inputs}
    IN  [n \in {t[1] : t \in all} |->
            LET t == CHOOSE u \in all : u[1] = n
            IN  [own |-> _merged_stanza_options(cs[t[2]].stanzas[t[3]], cs[t[2]].globals,
                                                _pack_sample_map(cs[t[2]], inputs[t[2]].ns)),
                 globals |-> [count |-> 0, token |-> None]]]
Missing(inputs, cs, now) ==
    \E i \in DOMAIN inputs : \E m \in _pack_sample_map(cs[i], inputs[i].ns) : ~IsFile(now[i].files, m.from)
MergedFiles(inputs, cs, now) ==
    {[path |-> Conf, data |-> "merged"]} \cup
    UNION {{[path |-> <<Samples, m.to>>, data |-> DataAt(now[i].files, m.from)] :
               m \in _pack_sample_map(cs[i], inputs[i].ns)} : i \in DOMAIN inputs}

\* The belt-and-braces lint of the merged pack.
MergedLints(conf, files) ==
    \A s \in DOMAIN conf :
        LET ref == IF conf[s].own.sampleFile = None THEN <<s>> ELSE conf[s].own.sampleFile
        IN  IsFile(files, <<Samples>> \o ref) \/ IsFile(files, ref)

\* The bytes/event of a list of stanzas as num/den: undeclared counts take the
\* mean of the declared ones (_fill_weights), a stanza's bytes are the pack's
\* declaration or its sample's (_stanza_bytes_per_event).
SampleBytes(c, s) ==
    LET rel  == IF c.stanzas[s].sampleFile = None THEN <<s>> ELSE c.stanzas[s].sampleFile
        hits == At(c.files, <<Samples>> \o rel) \cup At(c.files, rel)
    IN  IF c.declared > 0 THEN c.declared
        ELSE IF hits = {} THEN 0 ELSE (CHOOSE f \in hits : TRUE).bytes
Estimate(counts, bytes) ==
    LET declared == {i \in DOMAIN counts : counts[i] > 0}
        total    == FoldSeq(LAMBDA x, y : x + y, 0, counts)
        weight(i) == IF declared = {} THEN 1
                     ELSE IF counts[i] > 0 THEN counts[i] * Cardinality(declared) ELSE total
        Sum(f(_)) == FoldSeq(LAMBDA i, y : f(i) + y, 0, [i \in DOMAIN counts |-> i])
    IN  [num |-> Sum(LAMBDA i : weight(i) * bytes[i]),
         den |-> Sum(LAMBDA i : IF bytes[i] = 0 THEN 0 ELSE weight(i))]
StanzaList(cs) == FlattenSeq([i \in DOMAIN cs |->
    [j \in 1..Cardinality(DOMAIN cs[i].stanzas) |-> <<i, SetToSeq(DOMAIN cs[i].stanzas)[j]>>]])
\* merged_est_bytes_per_event: the gate's estimate, from the stanza's own keys.
merged_est_bytes_per_event(cs) ==
    LET st == StanzaList(cs)
    IN  Estimate([k \in DOMAIN st |-> cs[st[k][1]].stanzas[st[k][2]].count],
                 [k \in DOMAIN st |-> SampleBytes(cs[st[k][1]], st[k][2])])
\* build_from_packs: the manifest's estimate, from the merged options.
ManifestEstimate(cs) ==
    LET st == StanzaList(cs)
    IN  Estimate([k \in DOMAIN st |-> Effective(cs[st[k][1]].stanzas[st[k][2]], cs[st[k][1]].globals).count],
                 [k \in DOMAIN st |-> SampleBytes(cs[st[k][1]], st[k][2])])

-----------------------------------------------------------------------------
(* Provisioning threads *)

\* The bytes of a file: <<d>> whole, <<>> being written.
Partial == <<>>
Waiting == [state |-> "waiting"]
Idle == [pc |-> "idle"]

BundleInit ==
    /\ dir \in [Packs -> UNION {Contents[p] : p \in Packs}]
    /\ \A p \in Packs : dir[p] \in Contents[p]
    /\ edits = 0
    /\ launch = [l \in Launches |-> Idle]
    /\ inode = <<>> /\ tmp = <<>> /\ path = <<>>
    /\ bundleRows = {}
    /\ worker = [l \in Launches |-> Waiting]

\* A thread's record with what the step has found out.
With(f, g) == [a \in DOMAIN f \cup DOMAIN g |-> IF a \in DOMAIN f THEN f[a] ELSE g[a]]
Goto(l, rec) == launch' = [launch EXCEPT ![l] = rec]
Fail(l) == Goto(l, [pc |-> "failed"]) /\ UNCHANGED <<inode, tmp, path, bundleRows>>
Now(ps) == [i \in DOMAIN ps |-> dir[ps[i]]]
Inputs(ps) == [i \in DOMAIN ps |-> [ns |-> merge_pack_namespaces(ps)[i], pack |-> ps[i]]]
Distinct(inputs) == Cardinality({inputs[i].ns : i \in DOMAIN inputs}) = Len(inputs)
Order(ps) == [i \in DOMAIN ps |-> ordered(Inputs(ps))[i].pack]

\* run_spec's gate: the multi-pack guard and the estimate the ceilings use.
gate(l, ps) ==
    /\ launch[l].pc = "idle"
    /\ IF Len(ps) > 1 /\ \E i \in DOMAIN ps : ~Mergeable(dir[ps[i]])
       THEN Fail(l)
       ELSE /\ Goto(l, [pc |-> "gated", packs |-> ps,
                        est |-> merged_est_bytes_per_event(Now(Order(ps)))])
            /\ UNCHANGED <<inode, tmp, path, bundleRows>>
    /\ UNCHANGED <<dir, edits, worker>>

\* _resolve_bundle lints and parses the directories.
parse(l) ==
    /\ launch[l].pc = "gated"
    /\ LET ps == Order(launch[l].packs)
           cs == Now(ps)
       IN  IF \/ Len(ps) = 1 /\ ~lint_pack(cs[1])
              \/ Len(ps) > 1 /\ \/ ~Distinct(Inputs(launch[l].packs))
                                \/ \E i \in DOMAIN cs : ~Mergeable(cs[i])
                                \/ Collides(ordered(Inputs(launch[l].packs)), cs)
           THEN Fail(l)
           ELSE /\ Goto(l, With([launch[l] EXCEPT !.pc = "parsed"], [order |-> ps, parsed |-> cs]))
                /\ UNCHANGED <<inode, tmp, path, bundleRows>>
    /\ UNCHANGED <<dir, edits, worker>>

\* What the thread's tarball holds: Built(l) is the content addressed.
Built(l) ==
    LET ps  == launch[l].order
        cs  == launch[l].parsed
        now == Now(ps)
        ins == ordered(Inputs(launch[l].packs))
    IN  IF Len(ps) > 1
        THEN Bundle([i \in DOMAIN ins |-> ins[i].ns], "eventgen", MergedConf(ins, cs),
                    MergedFiles(ins, cs, now), NoReplay, NoMetrics)
        ELSE IF cs[1].engine = "metrics" THEN build_from_metrics_config(ps[1], cs[1])
        ELSE SingleBundle(ps[1], cs[1], now[1])
Buildable(l) ==
    LET cs  == launch[l].parsed
        now == Now(launch[l].order)
        ins == ordered(Inputs(launch[l].packs))
    IN  IF Len(cs) > 1
        THEN ~Missing(ins, cs, now) /\ MergedLints(Built(l).conf, Built(l).files)
        ELSE cs[1].engine = "rawreplay" =>
                IF cs[1].replay.dataset # None THEN IsFile(now[1].files, cs[1].replay.dataset) ELSE TRUE
Fetches(l) == launch[l].parsed[1].engine = "rawreplay" /\ launch[l].parsed[1].replay.dataset = None

\* build_tarball_bytes, the digest and the dedup: an entry of the full size is
\* reused, anything else is written again.
tar(l, hops) ==
    /\ launch[l].pc = "parsed"
    /\ IF ~Buildable(l) \/ (Fetches(l) /\ ~_fetch_dataset_url(hops)) THEN Fail(l)
       ELSE LET d == Built(l)
                present == d \in DOMAIN path /\ inode[path[d]] = <<d>>
            IN  /\ Goto(l, With([launch[l] EXCEPT !.pc = IF present THEN "stored" ELSE "tarred"],
                             [digest |-> d, read |-> Now(launch[l].order),
                              manifest_est |-> ManifestEstimate(launch[l].parsed)]))
                /\ UNCHANGED <<inode, tmp, path, bundleRows>>
    /\ UNCHANGED <<dir, edits, worker>>

\* A name of digest d in the store now leads to inode i.
Link(names, d, i) == [e \in DOMAIN names \cup {d} |-> IF e = d THEN i ELSE names[e]]
\* open(tmp, "wb"): creates the file or truncates the one a second thread of
\* this process is filling.
open_tmp(l) ==
    /\ launch[l].pc = "tarred"
    /\ LET d == launch[l].digest
           i == IF d \in DOMAIN tmp THEN tmp[d] ELSE Len(inode) + 1
       IN  /\ inode' = IF d \in DOMAIN tmp THEN [inode EXCEPT ![i] = Partial] ELSE Append(inode, Partial)
           /\ tmp' = Link(tmp, d, i)
           /\ Goto(l, With([launch[l] EXCEPT !.pc = "writing"], [handle |-> i]))
    /\ UNCHANGED <<dir, edits, path, bundleRows, worker>>
write_tmp(l) ==
    /\ launch[l].pc = "writing"
    /\ inode' = [inode EXCEPT ![launch[l].handle] = <<launch[l].digest>>]
    /\ Goto(l, [launch[l] EXCEPT !.pc = "written"])
    /\ UNCHANGED <<dir, edits, tmp, path, bundleRows, worker>>
\* os.replace: the name moves, or is already gone (FileNotFoundError).
replace_tmp(l) ==
    /\ launch[l].pc = "written"
    /\ LET d == launch[l].digest
       IN  IF d \notin DOMAIN tmp THEN Fail(l)
           ELSE /\ path' = Link(path, d, tmp[d])
                /\ tmp' = [e \in DOMAIN tmp \ {d} |-> tmp[e]]
                /\ Goto(l, [launch[l] EXCEPT !.pc = "stored"])
                /\ UNCHANGED <<inode, bundleRows>>
    /\ UNCHANGED <<dir, edits, worker>>

\* The bundles row: reused, or inserted; a digest inserted meanwhile by
\* another session breaks the unique key at the flush.
find_row(l) ==
    /\ launch[l].pc = "stored"
    /\ Goto(l, [launch[l] EXCEPT !.pc = IF launch[l].digest \in bundleRows THEN "launched" ELSE "insert"])
    /\ UNCHANGED <<dir, edits, inode, tmp, path, bundleRows, worker>>
insert_row(l) ==
    /\ launch[l].pc = "insert"
    /\ IF launch[l].digest \in bundleRows THEN Fail(l)
       ELSE /\ bundleRows' = bundleRows \cup {launch[l].digest}
            /\ Goto(l, [launch[l] EXCEPT !.pc = "launched"])
            /\ UNCHANGED <<inode, tmp, path>>
    /\ UNCHANGED <<dir, edits, worker>>

-----------------------------------------------------------------------------
(* The worker *)

\* _find_pack_root, _load_pack, resolve_replay_config, resolve_metrics_config.
_load_pack(b) ==
    /\ IsFile(b.files, Conf)
    /\ b.replay # NoReplay => IsFile(b.files, b.replay.dataset)
    /\ b.engine = "metrics" => b.metricgen.metrics # <<>>

\* Mutant: the digest is not checked.
Verified_Skipped(bytes, d) == TRUE
\* download_bundle and fetch_bundle: the served bytes must hash to the digest.
Verified(bytes, d) == bytes = <<d>>
download(l) ==
    /\ launch[l].pc = "launched" /\ worker[l] = Waiting
    /\ LET d == launch[l].digest
           bytes == inode[path[d]]
       IN  worker' = [worker EXCEPT ![l] =
              [state  |-> IF ~Verified(bytes, d) THEN "refused"
                          ELSE IF bytes # Partial /\ _load_pack(d) THEN "loaded" ELSE "unloadable",
               bundle |-> bytes]]
    /\ UNCHANGED <<dir, edits, launch, inode, tmp, path, bundleRows>>

\* A local pack's directory is replaced (upload, builder save, clone reset).
edit(p) ==
    /\ edits < MaxEdits /\ edits' = edits + 1
    /\ \E c \in Contents[p] \ {dir[p]} : dir' = [dir EXCEPT ![p] = c]
    /\ UNCHANGED <<launch, inode, tmp, path, bundleRows, worker>>

BundleNext ==
    \/ \E l \in Launches :
          \/ \E ps \in Requests : gate(l, ps)
          \/ parse(l)
          \/ \E hops \in Answers : tar(l, hops)
          \/ open_tmp(l) \/ write_tmp(l) \/ replace_tmp(l)
          \/ find_row(l) \/ insert_row(l) \/ download(l)
    \/ \E p \in Packs : edit(p)

BundleSpec == BundleInit /\ [][BundleNext]_BundleVars

-----------------------------------------------------------------------------
(* Properties *)

Done(l) == launch[l].pc \in {"tarred", "writing", "written", "stored", "insert", "launched"}
Steady(l) == Done(l) /\ launch[l].read = launch[l].parsed

\* eventgen takes the sample from the flat sampleDir by the stanza's name and
\* a token file from the pack root (worker/stoker_agent/confrewrite.py).
Sample(files, s) == DataAt(files, <<Samples, s>>)
Token(files, o)  == DataAt(files, o.token)

\* A stanza means in a merged bundle what it means in its pack's own bundle:
\* the same effective rate and mode, and every sample and token file that
\* resolves alone resolves to the same data, never to another pack's.  Excused:
\* a token file that is the pack's own conf or pack.yaml, which a merge does
\* not carry (build_from_packs, _pack_sample_map, _rewrite_sample_ref).
MergeKeepsMeaning ==
    \A l \in Launches : Steady(l) /\ Len(launch[l].packs) > 1 =>
        \A i \in DOMAIN launch[l].order :
            LET c     == launch[l].parsed[i]
                ns    == ordered(Inputs(launch[l].packs))[i].ns
                alone == SingleBundle(launch[l].order[i], c, c)
                b     == launch[l].digest
            IN  \A s \in DOMAIN c.stanzas :
                  LET e == Effective(c.stanzas[s], c.globals)
                      m == b.conf[<<ns>> \o s]
                      o == Effective(m.own, m.globals)
                  IN  /\ o.count = e.count /\ o.mode = e.mode
                      /\ Sample(alone.files, s) # "missing" =>
                            Sample(b.files, <<ns>> \o s) = Sample(alone.files, s)
                      /\ Token(alone.files, e) # "missing" /\ e.token \notin OwnFiles =>
                            Token(b.files, o) = Token(alone.files, e)

\* The same set of packs, with the same contents, gives the same digest in
\* whatever order the specs list them (build_from_packs).
SameSetSameDigest ==
    \A l, k \in Launches :
        /\ Steady(l) /\ Steady(k)
        /\ ToSet(launch[l].packs) = ToSet(launch[k].packs)
        /\ \A i \in DOMAIN launch[l].order, j \in DOMAIN launch[k].order :
              launch[l].order[i] = launch[k].order[j] => launch[l].parsed[i] = launch[k].parsed[j]
        => launch[l].digest = launch[k].digest

\* Merging is a function of the set of packs that keeps each one's meaning.
MergeSound == MergeKeepsMeaning /\ SameSetSameDigest

\* Whatever two builders do to the file of a digest, a worker unpacks the
\* bytes its lease names or nothing (_download, _verify_sha256).
UnpacksTheDigest ==
    \A l \in Launches : worker[l].state \in {"loaded", "unloadable"} =>
        worker[l].bundle = <<launch[l].digest>>

\* A bundle built from a directory that did not change under the build loads
\* on the worker, but for two packs that lint: a rawreplay pack without
\* eventgen.conf, and one whose conf or dataset is a symlink, which the lint
\* follows and _iter_pack_files skips (build_from_metrics_config's stub,
\* build_stoker_manifest's dataset path).
LoadsOnWorker ==
    \A l \in Launches : worker[l].state = "unloadable" /\ Steady(l) =>
        LET c == launch[l].parsed[1]
        IN  \/ c.engine = "rawreplay" /\ ~IsFile(c.files, Conf)
            \/ \E f \in c.files : f.link /\ f.path \in {Conf, c.replay.dataset}

\* A launched run has its bundles row and a file; and although two builders of
\* a digest share the temporary file, and one may truncate what the other has
\* renamed, the file is whole again once nobody is writing it
\* (build_from_pack, _resolve_bundle).
RestsWhole ==
    /\ \A l \in Launches : launch[l].pc = "launched" => launch[l].digest \in bundleRows \cap DOMAIN path
    /\ \A d \in DOMAIN path :
          \/ inode[path[d]] = <<d>>
          \/ \E l \in Launches : launch[l].pc = "writing" /\ launch[l].handle = path[d]

\* The bundle of a run is there, its worker gets that one, and can use it.
DeliveredWhole == UnpacksTheDigest /\ LoadsOnWorker /\ RestsWhole

\* "a concurrent reader never sees a partial" (build_from_pack).
NeverPartial == \A d \in DOMAIN path : inode[path[d]] = <<d>>

=============================================================================
