CONSTANT MaxQueue = 4
SPECIFICATION Spec
INVARIANTS TypeOK ReplayedOnce RequestFindsNotReady
PROPERTY ComesOnline
