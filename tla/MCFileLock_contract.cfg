CONSTANTS
    c1 = c1
    c2 = c2
    c3 = c3
    Callers = {c1, c2, c3}
    NoOwner = NoOwner
    MaxCalls = 2
SPECIFICATION Spec
PROPERTY FileLockContract
