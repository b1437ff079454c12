CONSTANTS
    Command = {c1}
    Sync = {s1, s2}
    Beyond = {s2}
    Main = main
SPECIFICATION Spec
INVARIANTS TypeOK ServedInRecovery NoStrayTransition
PROPERTIES SyncReleased ImplementsService
