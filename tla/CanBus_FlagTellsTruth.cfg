SPECIFICATION Spec
CONSTANTS
    Owner = owner
    Reader = reader
    Senders = {s1}
    Handles = {h1, h2, h3}
    NoBus = NoBus
INVARIANT FlagTellsTruth
