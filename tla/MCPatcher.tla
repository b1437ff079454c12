----------------------------- MODULE MCPatcher -----------------------------
(* Patcher with tools of the repository, any of which an operator may run,  *)
(* interrupt and rerun in any order, on sources with at most one hunk whose *)
(* upstream text is not the pinned one.  Tools of different groups share no *)
(* file; a behaviour stays within one group.                                *)
EXTENDS Patcher, FiniteSets, TLC

T == INSTANCE SourcePatches

MCGroups ==
    {{"force_ffs", "sync_worker"},                \* two files each, one of them shared
     {"exclude_app"},                             \* two files, verify after write
     {"recovery_shell", "pty"},                   \* one file, one builds on the other
     {"data_policy"},                             \* write before check
     {"ors"},                                     \* recognises its edit
     {"root_parent", "mtp_receive", "mtp_send"}}  \* one file, places interleaved
MCTools == UNION MCGroups

MCFile == UNION {T!Files(p) : p \in Patch}
MCProgram == [p \in Patch |-> T!ProgramOf[p]]
MCEnd == [f \in File |-> T!PastEnd[f]]
MCHunk == T!HunksOf(File, Patch)
MCAnchor == T!AnchorsOf(File, Patch)
MCMark == T!MarksOf(File, Patch)
MCRequires == [p \in Patch |-> T!RequiresMarker[p] \cap Patch]
MCRecognising == {"ors"} \cap Patch

AllPinned == [p \in Patch |-> [f \in File |-> "pinned"]]
ShapesFor(tools) ==
    {AllPinned} \cup
    UNION {{[AllPinned EXCEPT ![h[1]] = [@ EXCEPT ![h[2]] = s]] : s \in T!HunkShapes(h[1], h[2]) \ {"extra"}} :
              h \in {pf \in tools \X File : pf[2] \in T!Files(pf[1])}}
MCGroupShapes == [g \in MCGroups |-> ShapesFor(g)]
MCShapes == UNION {MCGroupShapes[g] : g \in MCGroups}

\* How often a hunk that is not noticed may be added before the exploration stops.
MaxTimes == 2

VARIABLE group  \* the tools in use, fixed in the initial state

MCInit ==
    /\ PInit
    /\ group \in MCGroups
    /\ shape \in MCGroupShapes[group]

MCNext ==
    /\ \/ \E p \in group : Invoke(p)
       \/ ToolStep
       \/ ToolFault
       \/ Fetch /\ shape' \in MCGroupShapes[group]
    /\ \A h \in Hunk : edits'[h] <= MaxTimes
    /\ UNCHANGED group

MCSpec == MCInit /\ [][MCNext]_<<pvars, group>>
=============================================================================
