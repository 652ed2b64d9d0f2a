\* A broker that recovered Jobs when it started is told to stop.
CONSTANTS
    MaxBrokers = 2
    Scripts <- MCScripts
SPECIFICATION BrokerSpec
INVARIANTS DrainedBeforeListenerCloses
CHECK_DEADLOCK FALSE
