CONSTANTS
    t1 = t1
    t2 = t2
    t3 = t3
    main = main
    spi = spi
    twi = twi
    NULL = NULL
    Node <- MCTask
    List <- MCList
    main_workqueue = main
SPECIFICATION Spec
INVARIANTS
    TypeOK
    QueuesHold
    NoStrandedWaiter
PROPERTY ImplementsTaskQueues
