-------------------------- MODULE MCBuildPipeline --------------------------
(* The whole workflow with its fifteen tools.  At most one hunk meets text  *)
(* that is not the pinned one (of one tool per discipline: two files        *)
(* checked together, one file, write before check, verify after write) and  *)
(* at most one project has moved; two runs share a workspace, so that the   *)
(* second finds what an interrupted first left behind.                      *)
EXTENDS BuildPipeline, FiniteSets, TLC

T == INSTANCE SourcePatches

MCPatch == T!AllPatch
MCFile == T!AllFile
MCProgram == T!ProgramOf
MCEnd == T!PastEnd
MCHunk == T!HunksOf(File, Patch)
MCAnchor == T!AnchorsOf(File, Patch)
MCMark == T!MarksOf(File, Patch)
MCRequires == T!RequiresMarker
MCStage == T!WorkflowStage
MCProject == {"core", "bionic", "recovery", "clang"}
MCRecoveryFiles == T!RecoveryFile

AllPinned == [p \in Patch |-> [f \in File |-> "pinned"]]
MCUnpinned ==
    {<<"sync_worker", "main.cpp", "drifted">>, <<"ors", "orscmd.h", "drifted">>,
     <<"data_policy", "recovery.te", "split">>, <<"data_policy", "domain.te", "drifted">>,
     <<"exclude_app", "Android.mk", "drifted">>, <<"exclude_app", "portrait.xml", "odd">>,
     <<"exclude_app", "portrait.xml", "extra">>}
MCShapes == {AllPinned} \cup {[AllPinned EXCEPT ![h[1]] = [@ EXCEPT ![h[2]] = h[3]]] : h \in MCUnpinned}

Donor == [p \in Project |-> IF p \in {"core", "bionic"} THEN "expected" ELSE "moved"]
MCHeads == {Donor} \cup {[Donor EXCEPT ![p] = "moved"] : p \in {"core", "bionic"}}
=============================================================================
