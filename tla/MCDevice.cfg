\* Counters of 3 values wrap within a few cycles; every hook may also report
\* ERROR.  The driver may do anything at any moment.
CONSTANTS
    CounterMod = 3
    Wirings <- AllWirings
    KwsEvents = {"KWS_CONFIRMED", "KWS_REJECTED", "ERROR"}
    ConnectErrors = {"CONNECT_FAILED", "ERROR"}
SPECIFICATION FairWifiSpec
INVARIANTS FsmInStep Accounted NoLeak NoUnaskedStream OwnEventsDecide RadioOff
PROPERTIES CycleEnds KeepsStationContract
