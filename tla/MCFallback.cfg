CONSTANTS
    Threshold = 2
    Cooldown = 1
    Model = {"mock-small", "mock-large", "openai"}
    Reliable = {"mock-small"}
    Request = {r1, r2}
    MaxAttempts = 2
SPECIFICATION LiveSpec
INVARIANTS
    TypeOK
    FailsOnlyWithoutReliable
PROPERTIES
    BreakerContract
    RequestsEnd
    ProvidersRecover
