SPECIFICATION Spec
CONSTANTS
    SeqMask = 4
    TxQueue <- MCTxQueue
    Proving <- MCProving
    NoMsu = NoMsu
    Sltm = Sltm
    Slta = Slta
    BadSlta = BadSlta
    LinkTests = {Sltm, Slta, BadSlta}
    Msu = {Sltm, Slta, BadSlta}
    PeerStates = {"Alignment", "ProvingNormal", "Ready", "ProcessorOutage", "ProcessorRecovered", "Busy", "BusyEnded", "OutOfService"}
    PeerMsu = {Sltm, Slta, BadSlta}
    Capacity = 1
    HasTest <- MCHasTest
    Window = 1
    MaxOut = 2
    MaxIn = 2
INVARIANT
    InServiceIsTested
