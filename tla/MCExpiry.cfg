SPECIFICATION StartupSpec
CONSTANT
    ExpiryMinutes = {1, 5}
INVARIANT
    ExpiresAsConfigured
CHECK_DEADLOCK FALSE
