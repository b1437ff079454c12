CONSTANTS
    Build = 4
    Slack = 2
    MaxTime = 13
SPECIFICATION Spec
INVARIANTS TypeOK FloorReached
PROPERTY NextBootKeepsFloor
