------------------------- MODULE CompiledArtifacts -------------------------
(***************************************************************************)
(* The driver's compiled artifacts: a directory holds the traced graphs     *)
(* (model.pt) and one weight shard per rank, written at the tail of a       *)
(* compile that may be killed anywhere.  The next invocation reuses what it *)
(* finds, re-shards what is incomplete, loads and serves.                   *)
(*                                                                          *)
(* A build is what decides the graphs and the layout of the shards: the     *)
(* resolved flags and the TP degree.  A file is None, the build it was      *)
(* written for, or Torn: opened and not yet written to its end.  A process  *)
(* that dies there leaves it so, and os.path.exists cannot tell.            *)
(***************************************************************************)
EXTENDS Naturals

CONSTANTS
    Paths,      \* artifact directories
    SpecPath,   \* default directory with --mtp-spec-decode
    PlainPath,  \* default directory without it
    NoPath,     \* --compiled-path not given
    None,       \* no such file
    Torn,       \* a file whose writer has not finished, or died
    MaxTp,      \* bound on the TP degree
    Requests    \* invocations considered

Flags == {"spec", "tkg", "moe", "verify", "draft", "round"}
Request == [flags : SUBSET Flags, path : Paths \cup {NoPath},
            tp : 1 .. MaxTp, skip : BOOLEAN]

ASSUME PathsAssumption == {SpecPath, PlainPath} \subseteq Paths /\ NoPath \notin Paths
ASSUME MaxTpAssumption == MaxTp \in Nat \ {0}
ASSUME RequestsAssumption == Requests \subseteq Request
ASSUME NoneAssumption ==
    None # Torn /\ {None, Torn} \cap [flags : SUBSET Flags, tp : 1 .. MaxTp] = {}

VARIABLES
    graphs,     \* model.pt of a directory
    weights,    \* weights/tp{rank}_sharded_checkpoint of a directory
    phase,      \* off, check, trace, save, shard, write, load, serving, failed
    req,        \* the running invocation
    rank        \* next rank to shard

artifactVars == <<graphs, weights, phase, req, rank>>

AllRanks == 0 .. MaxTp - 1
Build == [flags : SUBSET Flags, tp : 1 .. MaxTp]

(***************************************************************************)
(* What an invocation asks for.                                             *)
(***************************************************************************)
\* A kernel flag brings those it is built from.
Implied(flags) ==
    LET f == flags \cup IF "round" \in flags THEN {"verify", "draft"} ELSE {}
    IN  f \cup IF f \cap {"verify", "draft"} # {} THEN {"tkg", "moe"} ELSE {}

BuildOf(r) == [flags |-> Implied(r.flags), tp |-> r.tp]

\* Mutant: one default directory for every build.
OneDefaultPath(r) == IF r.path = NoPath THEN PlainPath ELSE r.path

PathOf(r) ==
    CASE r.path # NoPath -> r.path
      [] r.path = NoPath /\ "spec" \in r.flags -> SpecPath
      [] OTHER -> PlainPath

\* The assertions of main that arguments alone can fail.
Accepted(r) == r.flags \cap {"draft", "round"} # {} => "spec" \in r.flags

(***************************************************************************)
(* maybe_compile.                                                           *)
(***************************************************************************)
Path == PathOf(req)
Files(p) == {k \in AllRanks : weights[p][k] # None}

\* What a reader can read to its end.
Whole(file) == file \notin {None, Torn}

\* Mutant: the first rank's shard stands for all.
FirstRankPresent(p, tp) == 0 \in Files(p)

PresentForAll(p, tp) == 0 .. tp - 1 \subseteq Files(p)

NeedsCompile(p) == graphs[p] = None

ArtifactsInit ==
    /\ graphs = [p \in Paths |-> None]
    /\ weights = [p \in Paths |-> [k \in AllRanks |-> None]]
    /\ phase = "off"
    /\ req \in Requests
    /\ rank = 0

\* main: parse, build the configuration, assert.
Invoke(r) ==
    /\ phase = "off"
    /\ Accepted(r)
    /\ phase' = "check"
    /\ req' = r
    /\ rank' = 0
    /\ UNCHANGED <<graphs, weights>>

MaybeCompile ==
    /\ phase = "check"
    /\ phase' = IF NeedsCompile(Path) THEN "trace"
                ELSE IF ~req.skip /\ ~PresentForAll(Path, req.tp) THEN "shard"
                ELSE "load"
    /\ UNCHANGED <<graphs, weights, req, rank>>

\* compile(): the graphs first, and model.pt is opened once they are traced ...
Trace ==
    /\ phase = "trace"
    /\ graphs' = [graphs EXCEPT ![Path] = Torn]
    /\ phase' = "save"
    /\ UNCHANGED <<weights, req, rank>>

\* ... written; the shards follow unless they are skipped.
SaveGraphs ==
    /\ phase = "save"
    /\ graphs' = [graphs EXCEPT ![Path] = BuildOf(req)]
    /\ phase' = IF req.skip THEN "load" ELSE "shard"
    /\ UNCHANGED <<weights, req, rank>>

\* Mutant: the loop over ranks stops one short.
ForgetsLastRank(k) == IF k + 2 >= req.tp THEN "load" ELSE "shard"

AfterRank(k) == IF k + 1 = req.tp THEN "load" ELSE "shard"

NextRank(k) == IF k + 1 = req.tp THEN 0 ELSE k + 1

\* shard_weights(), and the tail of compile(): rank after rank a file is opened,
\* over the one that may be there ...
OpenShard ==
    /\ phase = "shard"
    /\ weights' = [weights EXCEPT ![Path][rank] = Torn]
    /\ phase' = "write"
    /\ UNCHANGED <<graphs, req, rank>>

\* ... and written to its end.
WriteShard ==
    /\ phase = "write"
    /\ weights' = [weights EXCEPT ![Path][rank] = BuildOf(req)]
    /\ rank' = NextRank(rank)
    /\ phase' = AfterRank(rank)
    /\ UNCHANGED <<graphs, req>>

\* load(): the traced build decides which shards are read; a torn file fails it.
ShardsFound == 0 .. graphs[Path].tp - 1 \subseteq Files(Path)
ShardsWhole == \A k \in 0 .. graphs[Path].tp - 1 : Whole(weights[Path][k])

Load ==
    /\ phase = "load"
    /\ phase' = IF Whole(graphs[Path]) /\ ShardsWhole THEN "serving" ELSE "failed"
    /\ UNCHANGED <<graphs, weights, req, rank>>

Exit ==
    /\ phase \in {"serving", "failed"}
    /\ phase' = "off"
    /\ UNCHANGED <<graphs, weights, req, rank>>

\* The process dies before it serves, between two steps or inside a write; the
\* files stay as they are.
Kill ==
    /\ phase \in {"check", "trace", "save", "shard", "write", "load"}
    /\ phase' = "off"
    /\ UNCHANGED <<graphs, weights, req, rank>>

\* "Delete weights/ to force a re-shard": the operator, between invocations.
DeleteWeights(p) ==
    /\ phase = "off"
    /\ weights' = [weights EXCEPT ![p] = [k \in AllRanks |-> None]]
    /\ UNCHANGED <<graphs, phase, req, rank>>

Work ==
    MaybeCompile \/ Trace \/ SaveGraphs \/ OpenShard \/ WriteShard \/ Load \/ Exit

ArtifactsNext ==
    \/ \E r \in Requests : Invoke(r)
    \/ Work
    \/ Kill
    \/ \E p \in Paths : DeleteWeights(p)

\* A running process goes on; nobody has to start one.
ArtifactsSpec == ArtifactsInit /\ [][ArtifactsNext]_artifactVars /\ WF_artifactVars(Work)

(***************************************************************************)
(* Properties.                                                              *)
(***************************************************************************)
\* Type correctness of the files and of the process (maybe_compile, main).
FilesTypeOK ==
    /\ graphs \in [Paths -> Build \cup {None, Torn}]
    /\ weights \in [Paths -> [AllRanks -> Build \cup {None, Torn}]]
    /\ phase \in {"off", "check", "trace", "save", "shard", "write", "load", "serving", "failed"}
    /\ req \in Requests
    /\ rank \in 0 .. req.tp - 1

\* However many earlier compiles and shardings were killed, a process that did
\* not skip sharding reaches load_model with a model.pt there and, if its graphs
\* can be read, with a file for every shard they ask for (maybe_compile,
\* _presharded_weights_complete).  Whether a file is whole: the next property.
LoadFindsShards ==
    phase = "load" /\ ~req.skip =>
        /\ graphs[Path] # None
        /\ graphs[Path] # Torn => ShardsFound

\* "An interrupted shard (model.pt plus a partial weights/ dir) is recovered by
\* re-sharding alone": what a process that did not skip sharding loads is whole,
\* wherever an earlier sharding was killed (maybe_compile).
InterruptedShardIsResharded ==
    phase = "load" /\ ~req.skip /\ Whole(graphs[Path]) => ShardsWhole

\* What is served was traced and sharded for what was asked: flags, implied
\* flags and TP degree (the default of compiled_path, build_inference_config).
ServedAsRequested ==
    phase = "serving" =>
        /\ graphs[Path] = BuildOf(req)
        /\ \A k \in 0 .. req.tp - 1 : weights[Path][k] = BuildOf(req)

\* "We never silently benchmark the PyTorch fallback while believing we tested
\* the kernel": a kernel flag given is in the graphs served (main).
KernelsAskedAreServed ==
    phase = "serving" =>
        Implied(req.flags) \cap {"tkg", "moe", "verify", "draft", "round"}
            \subseteq graphs[Path].flags

\* The discipline the default of compiled_path leaves to the user: no directory
\* is named for two builds.
OneBuildPerPath ==
    \A r, s \in Requests :
        Accepted(r) /\ Accepted(s) /\ PathOf(r) = PathOf(s) => BuildOf(r) = BuildOf(s)

\* A file of p is missing or torn, or was written for an accepted request that
\* names p.
Written(p, b) ==
    Whole(b) => \E r \in Requests : Accepted(r) /\ PathOf(r) = p /\ b = BuildOf(r)

\* The invariant behind LoadFindsShards and ServedAsRequested: where files come
\* from, and that what a process has passed is on disk (maybe_compile).
FilesInv ==
    /\ \A p \in Paths : Written(p, graphs[p]) /\ \A k \in AllRanks : Written(p, weights[p][k])
    /\ phase # "off" => Accepted(req)
    /\ phase = "trace" => graphs[Path] = None
    /\ phase = "save" => graphs[Path] = Torn
    /\ phase \in {"check", "trace", "save"} => rank = 0
    /\ phase \in {"shard", "write"} =>
        graphs[Path] # None /\ \A k \in 0 .. rank - 1 : Whole(weights[Path][k])
    /\ phase = "write" => weights[Path][rank] = Torn
    /\ phase = "load" => graphs[Path] # None /\ (req.skip \/ PresentForAll(Path, req.tp))
    /\ phase = "serving" => Whole(graphs[Path]) /\ ShardsWhole

\* No torn file is taken for a whole one: model.pt, or a shard of a set that
\* _presharded_weights_complete counts complete.
CountedAreWhole ==
    /\ graphs[Path] # Torn
    /\ PresentForAll(Path, req.tp) => \A k \in 0 .. req.tp - 1 : Whole(weights[Path][k])

\* Kills that end lose nothing for good, those inside the write of a shard that
\* was not the last one missing included: if processes keep being started, from
\* some time on none is killed, and none finds a torn file counted whole (the
\* operator deletes weights/ when one is), some of them serve (maybe_compile,
\* load).
KillsAreOvercome ==
    (/\ <>[][~Kill]_artifactVars
     /\ <>[](phase = "check" => CountedAreWhole)
     /\ []<>(phase = "check" /\ ~req.skip)) => []<>(phase = "serving" /\ ~req.skip)
=============================================================================
