\* The main thread and another one that sends.
SPECIFICATION EngineFairSpec
CONSTANTS
    main = main
    worker = worker
    Senders <- MCSenders
    Poller = main
    Free = Free
    EventLimit = 3
    Apps = {a1, a2}
    NoApp = NoApp
    SdlEvents <- MCSdlEvents
    AppEvents <- MCAppEvents
    DestroyMayPush = FALSE
    NDEBUG = FALSE
    SdlLimit = 1
    WindowLimit = 2
    PushLimit = 2
INVARIANTS
    EngineTypeOK
    PoolsDontMeet
    FrameSeesItsInput
    ClosedOnlyByRequest
    LayersInStep
PROPERTIES
    ImplementsBus
    EverythingIsServed
