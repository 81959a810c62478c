SPECIFICATION Spec
CONSTANTS
    MAX_MESSAGES_IN_PORT = 3
    MESSAGE_BUFFER_SIZE = 2
    Byte = {0, 1}
    Zero = 0
INVARIANTS
    RingSound
PROPERTY
    FifoSpec
