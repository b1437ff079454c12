CONSTANTS
    Patch <- MCPatch
    File <- MCFile
    Idle = idle
    Program <- MCProgram
    End <- MCEnd
    Hunk <- MCHunk
    Mark <- MCMark
    Anchor <- MCAnchor
    Requires <- MCRequires
    Recognising = {"ors"}
    Shapes <- MCShapes
    Stage <- MCStage
    Project <- MCProject
    Heads <- MCHeads
    RecoveryFiles <- MCRecoveryFiles
    MaxAttempt = 3
    MaxRun = 2
SPECIFICATION Spec
INVARIANTS TypeOK DeliveredIsComplete DeliveredIsAudited MetadataIsTruthful
PROPERTIES RunsEnd ImplementsGate
CHECK_DEADLOCK FALSE
