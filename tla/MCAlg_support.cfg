SPECIFICATION Spec
CONSTANTS
    SERIAL_BITS = 5
    HOUR = 6
    FIVE_MINUTES = 2
    MAX_NODE_VALID = 2
    BOGUS_TTL = 1
    MAX_BAD_SIGS = 1
    MAX_LABEL = 2
    NAME_MAX_SIZE = 4
    Bytes = {0, 1, 2, 3, 65, 97, 98}
    BYTE = 3
    RSA_MIN_BYTES = 2
    P256_KEY = 3
    P384_KEY = 5
    ED25519_KEY = 2
    ED448_KEY = 4
INVARIANT AlgorithmSupportMatches
