CONSTANTS
    Patch <- MCTools
    File <- MCFile
    Idle = idle
    Program <- MCProgram
    End <- MCEnd
    Hunk <- MCHunk
    Mark <- MCMark
    Anchor <- MCAnchor
    Requires <- MCRequires
    Recognising <- MCRecognising
    Shapes <- MCShapes
SPECIFICATION MCSpec
INVARIANT ReportedMeansRemoved
