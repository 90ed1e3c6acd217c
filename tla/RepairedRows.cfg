SPECIFICATION MaintSpec
CONSTANTS
    Stored = {"u1"}
    Generated <- const_Generated
PROPERTY ClearedIsReconsidered
\* Every row may have left the window with nothing more to do about it.
CHECK_DEADLOCK FALSE
