CONSTANTS
    Request = {r1, r2}
    Prompt = {"pii", "masked"}
    Asked = {"auto", "mock-large"}
    Streaming = {FALSE}
    Model = {"mock-small", "mock-large"}
    DailyBudget = 9
    MonthlyBudget = 9
    Modes = {"downgrade"}
    Enough = 1
    Redacted <- MCRedacted
    PII <- MCPII
    Looks <- MCLooks
    MaxTokens = 600
    Similarity <- MCSimilarity
    Price <- MCPrice
    MaxPrice = 1
SPECIFICATION Spec
SYMMETRY RequestSymmetry
INVARIANTS
    PIIIsNotShared
