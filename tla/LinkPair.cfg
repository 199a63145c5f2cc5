SPECIFICATION FairSpec
CONSTANTS
    SeqMask = 5
    TxQueue = 1
    Proving = "Normal"
    NoMsu = NoMsu
    Sltm = Sltm
    Slta = Slta
    BadSlta = BadSlta
    LinkTests = {Sltm, Slta, BadSlta}
    Msu = {Sltm, Slta, BadSlta, 1, 2}
    Capacity = 1
    A = A
    B = B
    End = {A, B}
    Episodes <- MCEpisodes
    MaxMsu = 2
    MaxOut = 3
    MaxFailures = 1
INVARIANTS DeliveredInOrder RetrievalIsExact
PROPERTIES ComesUp Delivers
CHECK_DEADLOCK FALSE
