------------------------------ MODULE MCOffline ------------------------------
(***************************************************************************)
(* TLC instance of what happens before a model runs: the conversion of the  *)
(* weights and the files of a compile, one part at a time with the other at *)
(* rest.                                                                    *)
(*                                                                          *)
(* Conversion: two layers of either kind, every flag, one, two and four     *)
(* ranks, two k/v heads or four; head sizes that differ between keys and    *)
(* values.  Three ranks make the converters raise.                          *)
(*                                                                          *)
(* Files: three directories and two ranks.  In MCRequests every directory   *)
(* is used for one build: both defaults without kernels, and a directory of *)
(* its own for the megakernel build, asked for by two sets of flags that    *)
(* resolve to the same one.  MCDefaultPath asks for the kernels of one      *)
(* speculative build, and for none, without naming a directory.             *)
(***************************************************************************)
EXTENDS CompiledArtifacts, WeightsAsRead

CONSTANTS
    Parts,  \* the parts checked: "weights", "files"
    Own     \* a directory named by --compiled-path

VARIABLE running  \* the part of this behaviour

Shapes ==
    {[tp |-> t, nk |-> 2 * t, nv |-> 4 * t, kd |-> 2, vd |-> 1,
      nq |-> 4 * t, nkv |-> kv, hd |-> 2] :
        t \in {1, 2}, kv \in {1, 2}}
    \cup {[tp |-> 4, nk |-> 4, nv |-> 8, kd |-> 1, vd |-> 2, nq |-> 4, nkv |-> 2, hd |-> 2],
          [tp |-> 3, nk |-> 4, nv |-> 4, kd |-> 1, vd |-> 1, nq |-> 6, nkv |-> 2, hd |-> 2]}

Kinds == {<<"linear_attention", "full_attention">>, <<"full_attention">>}

Switches ==
    {f \in [mtp : BOOLEAN, draft : BOOLEAN, attn : BOOLEAN, moe : BOOLEAN, fusedQkv : BOOLEAN] :
        f.draft => f.mtp}

MCConfigs == {s @@ [types |-> k] @@ f : s \in Shapes, k \in Kinds, f \in Switches}

MCPaths == {SpecPath, PlainPath, Own}

Ask(flags, path, skip) == [flags |-> flags, path |-> path, tp |-> MaxTp, skip |-> skip]

MCRequests ==
    {Ask({}, NoPath, FALSE),
     Ask({"spec"}, NoPath, FALSE),
     Ask({"draft"}, NoPath, FALSE),
     Ask({"spec", "round"}, Own, FALSE),
     Ask({"spec", "tkg", "verify", "draft", "round"}, Own, TRUE)}

MCDefaultPath == {Ask({"spec"}, NoPath, FALSE), Ask({"spec", "tkg"}, NoPath, FALSE)}

\* The part that does not run: no dictionary, and no process.
NoConversion ==
    /\ cfg = CHOOSE c \in Configs : TRUE
    /\ sd = [k \in {} |-> k]
    /\ pc = "strip"
    /\ layer = 1

NoProcess == ArtifactsInit /\ req = CHOOSE r \in Requests : TRUE

OfflineInit ==
    /\ running \in Parts
    /\ IF running = "weights" THEN Init /\ NoProcess ELSE NoConversion /\ ArtifactsInit

OfflineNext ==
    \/ running = "weights" /\ Next /\ UNCHANGED <<artifactVars, running>>
    \/ running = "files" /\ ArtifactsNext /\ UNCHANGED <<vars, running>>

\* A running process goes on, as in ArtifactsSpec.
OfflineSpec ==
    /\ OfflineInit
    /\ [][OfflineNext]_<<vars, artifactVars, running>>
    /\ WF_artifactVars(running = "files" /\ Work /\ UNCHANGED <<vars, running>>)
=============================================================================
