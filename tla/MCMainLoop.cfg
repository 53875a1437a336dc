CONSTANTS
    t1 = t1
    t2 = t2
    main = main
    spi = spi
    NULL = NULL
    Node <- MCTask
    List <- MCList
    main_workqueue = main
    SoftirqId <- MCSoftirqId
SPECIFICATION Spec
INVARIANTS
    NoLostWakeup
PROPERTIES
    SoftirqsFirst
    QueuedTaskRuns
    RaisedSoftirqIsHandled
