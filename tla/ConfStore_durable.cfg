SPECIFICATION Spec
CONSTANTS
    a = a
    b = b
    v1 = v1
    v2 = v2
    None = None
    NoHead = NoHead
    NoOp = NoOp
    Name = {a, b}
    Val = {v1, v2}
    Put <- MixedPuts
    Size = 4
    GenMod = 4
    GoesOn = FALSE
INVARIANTS ConfTypeOK Durable CacheAgrees WritesErased
