SPECIFICATION Spec
CONSTANTS
    SeqMask = 5
    TxQueue = 1
    Proving = "Normal"
    NoMsu = NoMsu
    Msu = {m1}
    Window = 2
INVARIANTS
    TypeOK
    BufferIsTheWindow
    T7WatchesTheOldest
    AlignmentIsSupervised
    NothingWaitsInVain
PROPERTIES
    NothingVanishes
