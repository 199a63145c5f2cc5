SPECIFICATION Spec
CONSTANTS
    SeqMask = 4
    TxQueue <- MCTxQueue
    Proving <- MCProving
    NoMsu = NoMsu
    Sltm = Sltm
    Slta = Slta
    BadSlta = BadSlta
    LinkTests = {Sltm, Slta, BadSlta}
    Msu = {Sltm, Slta, BadSlta, d1}
    PeerStates = {"Alignment", "ProvingNormal", "Ready", "ProcessorOutage", "ProcessorRecovered", "OutOfService"}
    PeerMsu = {Sltm, Slta, BadSlta}
    Capacity = 1
    HasTest <- MCHasTest
    Window = 1
    MaxOut = 2
    MaxIn = 1
INVARIANTS RestartIsPending AvailableIsTrue
PROPERTY NoSilentLoss
