CONSTANTS
    Patch <- MCPatch
    File <- MCFile
    Idle = idle
    Program <- MCProgram
    End <- MCEnd
    Hunk <- MCHunk
    Mark <- MCMark
    Anchor <- MCAnchor
    Requires <- MCRequires
    Recognising = {"ors"}
    Shapes <- MCShapes
    Stage <- MCStage
    Project <- MCProject
    Heads <- MCHeads
    RecoveryFiles <- MCRecoveryFiles
    MaxAttempt = 3
    MaxRun = 1
SPECIFICATION Spec
INVARIANT AppcheckRejected
CHECK_DEADLOCK FALSE
