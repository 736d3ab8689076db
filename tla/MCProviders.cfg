CONSTANTS
    Class = {"mock", "anthropic", "openai", "ollama"}
    MaxLines = 4
    MaxText = 7
    Step = 3
SPECIFICATION LiveSpec
INVARIANTS
    NothingLost
PROPERTY CallsEnd
CHECK_DEADLOCK FALSE
