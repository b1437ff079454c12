CONSTANTS
    Images <- MCImages
    Reporting = {TRUE, FALSE}
SPECIFICATION Spec
INVARIANTS TypeOK PatchedSafely ReportIsTrue
