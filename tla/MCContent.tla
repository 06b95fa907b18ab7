----------------------------- MODULE MCContent -----------------------------
(* How the content of packs comes to a worker, for TLC: from a repository  *)
(* into the library and out of it at a pinned commit (GitSync), and from   *)
(* pack directories into a bundle that a worker unpacks (Bundles).  They   *)
(* share no state, so a behaviour is one of either.                        *)
EXTENDS GitSync, Bundles

VARIABLE half

(* The half that stays put starts in one state only.                       *)
Init ==
    /\ GitInit /\ BundleInit
    /\ \/ half = "git" /\ \A p \in Packs : dir[p] = CHOOSE c \in Contents[p] : TRUE
       \/ half = "bundle" /\ commits = <<CHOOSE t \in Trees : TRUE>> /\ ~repo.trusted
Next ==
    \/ half = "git" /\ GitNext /\ UNCHANGED <<BundleVars, half>>
    \/ half = "bundle" /\ BundleNext /\ UNCHANGED <<GitVars, half>>
Spec == Init /\ [][Next]_<<GitVars, BundleVars, half>>

(* A repository-root pack and one under packs/: two trees, so that a push  *)
(* can add the author's pack.yaml and custom code, or a root.              *)
P(yaml, name, lint, code) == [yaml |-> yaml, name |-> name, lint |-> lint, code |-> code, metric |-> FALSE]
TwoRoots == {"root", "a"}
SomeTrees ==
    {("a" :> P(FALSE, "none", TRUE, FALSE)) @@ ("root" :> P(FALSE, "none", FALSE, FALSE)),
     "a" :> P(TRUE, "named", TRUE, TRUE)}

Threads == Permutations(Syncs) \cup Permutations(Builds)

(* Two launches and four packs, each directory holding one of a few        *)
(* contents that reach every branch of the linters and of the merge.       *)
Two == {"l1", "l2"}
FourPacks == {"web", "web2", "rep", "met"}
\* "web" and "web." sanitise alike; their ids tell them apart.
PackNames == [p \in FourPacks |-> CASE p = "web" -> <<"web">> [] p = "web2" -> <<"web", ".">>
                                [] p = "rep" -> <<"rep">> [] OTHER -> <<".">>]
Ids == [p \in FourPacks |-> CASE p = "web" -> "7" [] p = "web2" -> "8" [] p = "rep" -> "9" [] OTHER -> "10"]

N(w) == << <<w>> >>
F(p, d, b) == [path |-> p, link |-> FALSE, data |-> d, bytes |-> b]
L(p, d, b) == [path |-> p, link |-> TRUE, data |-> d, bytes |-> b]
O(n, sf, t, mode) == [count |-> n, sampleFile |-> sf, token |-> t, mode |-> mode, regex |-> "ok"]
G(n, t) == [count |-> n, token |-> t]
NoUrl == [dataset |-> None, url |-> "none", mode |-> "rate", time_multiple |-> 1]
Pack(engine, files, st, g, replay, metricgen) ==
    [engine |-> engine, files |-> files, stanzas |-> st, globals |-> g,
     declared |-> 0, replay |-> replay, metricgen |-> metricgen]
ConfFile == F(Conf, "conf", 0)
In(w) == <<Samples, N(w)>>
Nested == <<Samples, N("sub"), N("f")>>

\* A stanza named after its sample, a file token and a global count; then one
\* whose nested file meets a flat name; then a symlinked
\* conf and sample.
WebContents ==
    {Pack("eventgen", {ConfFile, F(In("log"), "w1", 1), F(In("tok"), "t1", 1)},
          N("log") :> O(0, None, In("tok"), "sample"), G(2, None), NoUrl, NoMetrics),
     Pack("eventgen", {ConfFile, F(In("log"), "w2", 2), F(Nested, "n", 1), F(<<Samples, <<<<"sub">>, <<"f">>>> >>, "m", 1)},
          N("log") :> O(1, None, Nested, "sample"), G(0, None), NoUrl, NoMetrics),
     Pack("eventgen", {L(Conf, "conf", 0), L(In("log"), "w3", 1)},
          N("log") :> O(1, None, None, "sample"), G(0, None), NoUrl, NoMetrics)}
\* The same stanza and file names as pack "web", and a token that names the
\* pack's pack.yaml; a replay stanza.
Web2Contents ==
    {Pack("eventgen", {ConfFile, F(In("log"), "v1", 3), F(In("tok"), "u1", 1), F(Nested, "k", 1), F(PackYaml, "y", 1)},
          (N("log") :> O(1, <<N("tok")>>, Nested, "sample")) @@ (N("tok") :> O(0, None, In("log"), "sample"))
              @@ (N("yaml") :> O(1, <<N("tok")>>, PackYaml, "sample")),
          G(0, None), NoUrl, NoMetrics),
     Pack("eventgen", {ConfFile, F(In("log"), "v2", 1)},
          N("log") :> O(1, None, None, "replay"), G(0, None), NoUrl, NoMetrics)}
RepContents ==
    {Pack("rawreplay", {ConfFile, F(<<N("capture")>>, "c", 1)}, <<>>, G(0, None),
          [NoUrl EXCEPT !.dataset = <<N("capture")>>], NoMetrics),
     Pack("rawreplay", {}, <<>>, G(0, None), [NoUrl EXCEPT !.url = "https"], NoMetrics)}
Metric(lo, hi) == [name |-> "m", kind |-> "gauge", min |-> lo, p95 |-> hi, max |-> hi,
                   noise |-> 0, pattern |-> "constant", scale |-> {}]
MetricGen(dims, ms) == [resolution |-> 1, dims |-> dims, metrics |-> ms]
MetContents ==
    {Pack("metrics", {}, <<>>, G(0, None), NoUrl, MetricGen(<<2>>, <<Metric(0, 1)>>)),
     Pack("metrics", {}, <<>>, G(0, None), NoUrl, MetricGen(<<2, 2>>, <<Metric(0, 1)>>))}
AllContents == [p \in FourPacks |-> CASE p = "web" -> WebContents [] p = "web2" -> Web2Contents
                                      [] p = "rep" -> RepContents [] OTHER -> MetContents]

SomeRequests == {<<"web">>, <<"rep">>, <<"met">>, <<"web", "web2">>, <<"web2", "web">>, <<"web", "rep">>}
Hop(pub, status, size, unpacked) ==
    [public |-> pub, status |-> status, size |-> size, unpacked |-> unpacked, sha |-> "ok"]
SomeAnswers == {<<Hop(TRUE, 302, 0, 0), Hop(TRUE, 200, 1, 2)>>, <<Hop(TRUE, 200, 2, 3)>>}
=============================================================================
