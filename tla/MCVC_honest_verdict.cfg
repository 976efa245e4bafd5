SPECIFICATION Spec
CONSTANTS
    Names <- MCNames
    Parent <- MCParent
    Kind <- MCKind
    Root = "."
    TrustAnchors = {"ex"}
    TTLs = {1, 2}
    Attack = {}
    MAX_NODE_VALID = 2
    BOGUS_TTL = 1
    MAX_BAD_SIGS = 1
    Tasks = {t1, t2}
    MaxCalls = 1
    MaxTime = 0
    NoNode = NoNode


INVARIANT HonestVerdict
