---------------------- MODULE CompiledArtifactsProofs ----------------------
(***************************************************************************)
(* Proofs about the compiled artifacts, for every set of directories and    *)
(* invocations and every TP degree: whatever is killed or deleted, and      *)
(* whenever, inside a write too, a process finds a file for all it loads,   *)
(* and what it serves is whole and what it was asked for, as long as no     *)
(* directory is named for two builds.                                       *)
(***************************************************************************)
EXTENDS CompiledArtifacts, TLAPS

\* An invocation names a directory and resolves to a build.
LEMMA RequestType ==
    ASSUME NEW r \in Requests
    PROVE  /\ r \in Request
           /\ r.tp \in 1 .. MaxTp
           /\ PathOf(r) \in Paths
           /\ BuildOf(r) \in Build
           /\ BuildOf(r).tp = r.tp
           /\ Whole(BuildOf(r))
  <1>1. r \in Request
    BY RequestsAssumption
  <1>2. Implied(r.flags) \in SUBSET Flags
    BY <1>1 DEF Request, Implied, Flags
  <1>3. PathOf(r) \in Paths
    BY <1>1, PathsAssumption DEF Request, PathOf
  <1>4. r.tp \in 1 .. MaxTp
    BY <1>1 DEF Request
  <1>5. BuildOf(r) \in Build /\ BuildOf(r).tp = r.tp
    BY <1>2, <1>4 DEF BuildOf, Build
  <1> QED
    BY <1>1, <1>3, <1>4, <1>5, NoneAssumption DEF Build, Whole

\* Type correctness is inductive.
LEMMA TypeStep == FilesTypeOK /\ [ArtifactsNext]_artifactVars => FilesTypeOK'
  <1> SUFFICES ASSUME FilesTypeOK, [ArtifactsNext]_artifactVars PROVE FilesTypeOK'
    OBVIOUS
  <1> USE MaxTpAssumption
  <1>0. /\ req.tp \in 1 .. MaxTp
        /\ Path \in Paths
        /\ BuildOf(req) \in Build
    BY RequestType DEF FilesTypeOK, Path
  <1>1. ASSUME NEW r \in Requests, Invoke(r) PROVE FilesTypeOK'
    BY <1>1, RequestType DEF Invoke, FilesTypeOK
  <1>2. CASE MaybeCompile
    BY <1>2 DEF MaybeCompile, FilesTypeOK
  <1>3. CASE Trace
    BY <1>3, <1>0 DEF Trace, FilesTypeOK
  <1>s. CASE SaveGraphs
    BY <1>s, <1>0 DEF SaveGraphs, FilesTypeOK
  <1>o. CASE OpenShard
    <2>1. weights' \in [Paths -> [AllRanks -> Build \cup {None, Torn}]]
      BY <1>o, <1>0 DEF OpenShard, FilesTypeOK, AllRanks
    <2> QED
      BY <1>o, <2>1 DEF OpenShard, FilesTypeOK
  <1>4. CASE WriteShard
    <2>1. rank \in 0 .. req.tp - 1 /\ rank \in AllRanks
      BY <1>0 DEF FilesTypeOK, AllRanks
    <2>2. weights' \in [Paths -> [AllRanks -> Build \cup {None, Torn}]]
      BY <1>4, <1>0, <2>1 DEF WriteShard, FilesTypeOK
    <2>3. rank' \in 0 .. req.tp - 1
      BY <1>4, <1>0, <2>1 DEF WriteShard, NextRank
    <2> QED
      BY <1>4, <2>2, <2>3 DEF WriteShard, AfterRank, FilesTypeOK
  <1>5. CASE Load
    BY <1>5 DEF Load, FilesTypeOK
  <1>6. CASE Exit
    BY <1>6 DEF Exit, FilesTypeOK
  <1>7. CASE Kill
    BY <1>7 DEF Kill, FilesTypeOK
  <1>8. ASSUME NEW p \in Paths, DeleteWeights(p) PROVE FilesTypeOK'
    BY <1>8 DEF DeleteWeights, FilesTypeOK
  <1>9. CASE UNCHANGED artifactVars
    BY <1>9 DEF artifactVars, FilesTypeOK
  <1> QED
    BY <1>1, <1>2, <1>3, <1>s, <1>o, <1>4, <1>5, <1>6, <1>7, <1>8, <1>9 DEF ArtifactsNext, Work

\* The types hold before the first request.
LEMMA TypeInit == ArtifactsInit => FilesTypeOK
  <1> SUFFICES ASSUME ArtifactsInit PROVE FilesTypeOK
    OBVIOUS
  <1>1. rank \in 0 .. req.tp - 1
    BY RequestType, MaxTpAssumption DEF ArtifactsInit
  <1> QED
    BY <1>1 DEF ArtifactsInit, FilesTypeOK

\* The files and the process are well typed (maybe_compile, main).
THEOREM TypeCorrect == ArtifactsSpec => []FilesTypeOK
  BY TypeInit, TypeStep, PTL DEF ArtifactsSpec

\* What the traced build needs is what the request was sharded for, when no
\* directory is named for two builds.
LEMMA OneBuild ==
    ASSUME OneBuildPerPath, req \in Requests, Accepted(req),
           NEW b, Written(Path, b), Whole(b)
    PROVE  b = BuildOf(req)
  BY DEF OneBuildPerPath, Written, Path

\* The invariant of the files is inductive.
LEMMA FilesStep ==
    ASSUME OneBuildPerPath
    PROVE  FilesTypeOK /\ FilesInv /\ [ArtifactsNext]_artifactVars => FilesInv'
  <1> SUFFICES ASSUME FilesTypeOK, FilesInv, [ArtifactsNext]_artifactVars PROVE FilesInv'
    OBVIOUS
  <1> USE MaxTpAssumption
  <1>0. /\ req \in Requests
        /\ req.tp \in 1 .. MaxTp
        /\ Path \in Paths
        /\ BuildOf(req) \in Build
        /\ Whole(BuildOf(req))
        /\ BuildOf(req).tp = req.tp
        /\ rank \in 0 .. req.tp - 1
        /\ rank \in AllRanks
    BY RequestType DEF FilesTypeOK, Path, AllRanks
  <1>w. phase # "off" => Written(Path, BuildOf(req))
    BY <1>0 DEF FilesInv, Written, Path
  <1>1. ASSUME NEW r \in Requests, Invoke(r) PROVE FilesInv'
    BY <1>1 DEF Invoke, FilesInv, Written
  <1>2. CASE MaybeCompile
    <2>1. \A p \in Paths :
              Written(p, graphs[p])' /\ \A k \in AllRanks : Written(p, weights[p][k])'
          /\ phase' # "off" => Accepted(req)'
      BY <1>2 DEF MaybeCompile, FilesInv, Written
    <2> QED
      BY <1>2, <2>1, <1>0 DEF MaybeCompile, FilesInv, Path, NeedsCompile, PresentForAll, Files
  <1>3. CASE Trace
    <2>1. graphs' = [graphs EXCEPT ![Path] = Torn] /\ Path' = Path
      BY <1>3 DEF Trace, Path
    <2>2. graphs'[Path] = Torn /\ \A p \in Paths : p # Path => graphs'[p] = graphs[p]
      BY <2>1, <1>0 DEF FilesTypeOK
    <2>3. \A p \in Paths : Written(p, graphs[p])' /\ \A k \in AllRanks : Written(p, weights[p][k])'
      BY <1>3, <2>2 DEF Trace, FilesInv, Written, Whole
    <2> QED
      BY <1>3, <2>1, <2>2, <2>3 DEF Trace, FilesInv
  <1>s. CASE SaveGraphs
    <2>1. graphs' = [graphs EXCEPT ![Path] = BuildOf(req)] /\ Path' = Path
      BY <1>s DEF SaveGraphs, Path
    <2>2. graphs'[Path] = BuildOf(req) /\ \A p \in Paths : p # Path => graphs'[p] = graphs[p]
      BY <2>1, <1>0 DEF FilesTypeOK
    <2>3. \A p \in Paths : Written(p, graphs[p])' /\ \A k \in AllRanks : Written(p, weights[p][k])'
      BY <1>s, <2>2, <1>w DEF SaveGraphs, FilesInv, Written
    <2>4. graphs'[Path] # None
      BY <2>2, <1>0 DEF Whole
    <2> QED
      BY <1>s, <2>1, <2>3, <2>4, <1>0 DEF SaveGraphs, FilesInv
  <1>o. CASE OpenShard
    <2>1. /\ weights' = [weights EXCEPT ![Path][rank] = Torn]
          /\ Path' = Path /\ graphs' = graphs /\ req' = req
      BY <1>o DEF OpenShard, Path
    <2>2. \A p \in Paths : \A k \in AllRanks :
            weights'[p][k] = IF p = Path /\ k = rank THEN Torn ELSE weights[p][k]
      BY <2>1, <1>0 DEF FilesTypeOK
    <2>3. \A p \in Paths : Written(p, graphs[p])' /\ \A k \in AllRanks : Written(p, weights[p][k])'
      BY <1>o, <2>1, <2>2 DEF OpenShard, FilesInv, Written, Whole
    <2>4. \A k \in 0 .. rank - 1 : Whole(weights'[Path][k])
      BY <1>o, <2>2, <1>0 DEF OpenShard, FilesInv, AllRanks
    <2>5. weights'[Path][rank] = Torn
      BY <2>2, <1>0
    <2> QED
      BY <1>o, <2>1, <2>3, <2>4, <2>5 DEF OpenShard, FilesInv
  <1>4. CASE WriteShard
    <2>1. /\ weights' = [weights EXCEPT ![Path][rank] = BuildOf(req)]
          /\ Path' = Path /\ graphs' = graphs /\ req' = req
      BY <1>4 DEF WriteShard, Path
    <2>2. \A p \in Paths : \A k \in AllRanks :
            weights'[p][k] = IF p = Path /\ k = rank THEN BuildOf(req) ELSE weights[p][k]
      BY <2>1, <1>0 DEF FilesTypeOK
    <2>3. \A p \in Paths : Written(p, graphs[p])' /\ \A k \in AllRanks : Written(p, weights[p][k])'
      BY <1>4, <2>1, <2>2, <1>w DEF WriteShard, FilesInv, Written
    <2>4. \A k \in 0 .. rank : Whole(weights'[Path][k])
      BY <1>4, <2>2, <1>0 DEF WriteShard, FilesInv, AllRanks
    <2>5. CASE rank + 1 = req.tp
      <3>1. phase' = "load" /\ graphs[Path] # None
        BY <1>4, <2>5 DEF WriteShard, AfterRank, FilesInv
      <3>2. PresentForAll(Path, req.tp)'
        BY <2>4, <2>5, <2>1, <1>0 DEF PresentForAll, Files, AllRanks, Whole
      <3> QED
        BY <1>4, <2>1, <2>3, <3>1, <3>2 DEF FilesInv, WriteShard
    <2>6. CASE rank + 1 # req.tp
      <3>1. phase' = "shard" /\ rank' = rank + 1 /\ graphs[Path] # None
        BY <1>4, <2>6 DEF WriteShard, AfterRank, NextRank, FilesInv
      <3>2. \A k \in 0 .. rank' - 1 : Whole(weights'[Path][k])
        BY <2>4, <3>1, <1>0
      <3> QED
        BY <1>4, <2>1, <2>3, <3>1, <3>2 DEF FilesInv, WriteShard
    <2> QED
      BY <2>5, <2>6
  <1>5. CASE Load
    <2>1. \A p \in Paths : Written(p, graphs[p])' /\ \A k \in AllRanks : Written(p, weights[p][k])'
      BY <1>5 DEF Load, FilesInv, Written
    <2> QED
      BY <1>5, <2>1 DEF Load, FilesInv, Path, ShardsWhole
  <1>6. CASE Exit
    BY <1>6 DEF Exit, FilesInv, Written
  <1>7. CASE Kill
    BY <1>7 DEF Kill, FilesInv, Written
  <1>8. ASSUME NEW p \in Paths, DeleteWeights(p) PROVE FilesInv'
    <2>1. \A q \in Paths : \A k \in AllRanks :
            weights'[q][k] = IF q = p THEN None ELSE weights[q][k]
      BY <1>8 DEF DeleteWeights, FilesTypeOK
    <2>2. \A q \in Paths : Written(q, graphs[q])' /\ \A k \in AllRanks : Written(q, weights[q][k])'
      BY <1>8, <2>1 DEF DeleteWeights, FilesInv, Written, Whole
    <2> QED
      BY <1>8, <2>2 DEF DeleteWeights, FilesInv
  <1>9. CASE UNCHANGED artifactVars
    BY <1>9 DEF artifactVars, FilesInv, Written, Path, PresentForAll, ShardsWhole, Files
  <1> QED
    BY <1>1, <1>2, <1>3, <1>s, <1>o, <1>4, <1>5, <1>6, <1>7, <1>8, <1>9 DEF ArtifactsNext, Work

\* And no directory holds files yet.
LEMMA FilesInit == ArtifactsInit => FilesInv
  BY DEF ArtifactsInit, FilesInv, Written, Whole

\* The invariant of the files holds when no directory is named for two builds.
THEOREM FilesInvariant ==
    ASSUME OneBuildPerPath
    PROVE  ArtifactsSpec => []FilesInv
  BY FilesInit, FilesStep, TypeInit, TypeStep, PTL DEF ArtifactsSpec

\* A process that does not skip sharding finds a file for all it loads, whatever
\* was killed before (maybe_compile).
THEOREM NothingMissing ==
    ASSUME OneBuildPerPath
    PROVE  ArtifactsSpec => []LoadFindsShards
  <1>1. FilesTypeOK /\ FilesInv => LoadFindsShards
    <2> SUFFICES ASSUME FilesTypeOK, FilesInv, phase = "load", ~req.skip
                 PROVE  graphs[Path] # None /\ (graphs[Path] # Torn => ShardsFound)
      BY DEF LoadFindsShards
    <2>1. Path \in Paths /\ BuildOf(req).tp = req.tp
      BY RequestType DEF FilesTypeOK, Path
    <2>2. graphs[Path] # None /\ PresentForAll(Path, req.tp)
      BY DEF FilesInv
    <2>3. graphs[Path] # Torn => graphs[Path] = BuildOf(req)
      BY <2>1, <2>2, OneBuild DEF FilesInv, FilesTypeOK, Whole
    <2> QED
      BY <2>1, <2>2, <2>3 DEF PresentForAll, ShardsFound
  <1> QED
    BY <1>1, TypeCorrect, FilesInvariant, PTL

\* A process serves what it was asked for: the traced graphs and every shard
\* they read are whole and were written for its flags and TP degree (main,
\* load_model).
THEOREM ServesTheRequest ==
    ASSUME OneBuildPerPath
    PROVE  ArtifactsSpec => []ServedAsRequested
  <1>1. FilesTypeOK /\ FilesInv => ServedAsRequested
    <2> SUFFICES ASSUME FilesTypeOK, FilesInv, phase = "serving"
                 PROVE  /\ graphs[Path] = BuildOf(req)
                        /\ \A k \in 0 .. req.tp - 1 : weights[Path][k] = BuildOf(req)
      BY DEF ServedAsRequested
    <2>1. Path \in Paths /\ BuildOf(req).tp = req.tp /\ req.tp \in 1 .. MaxTp
      BY RequestType DEF FilesTypeOK, Path
    <2>2. Whole(graphs[Path]) /\ ShardsWhole /\ Accepted(req) /\ req \in Requests
      BY DEF FilesInv, FilesTypeOK
    <2>3. graphs[Path] = BuildOf(req)
      BY <2>1, <2>2, OneBuild DEF FilesInv
    <2>4. ASSUME NEW k \in 0 .. req.tp - 1 PROVE weights[Path][k] = BuildOf(req)
      <3>1. k \in AllRanks
        BY <2>1, MaxTpAssumption DEF AllRanks
      <3>2. Whole(weights[Path][k])
        BY <2>1, <2>2, <2>3 DEF ShardsWhole
      <3> QED
        BY <3>1, <3>2, <2>1, <2>2, OneBuild DEF FilesInv
    <2> QED
      BY <2>3, <2>4
  <1> QED
    BY <1>1, TypeCorrect, FilesInvariant, PTL
=============================================================================
