SPECIFICATION Spec
CONSTANTS
    Owner = owner
    Reader = reader
    Senders = {s1, s2}
    Handles = {h1, h2, h3}
    NoBus = NoBus
INVARIANTS TypeOK HandlesAccounted UndisturbedExact CleanStop
PROPERTIES LifeRefined Recovers StopCompletes
