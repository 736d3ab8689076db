CONSTANTS
    Request = {r1}
    Prompt = {"a"}
    Asked = {"auto"}
    Streaming = {TRUE}
    Model = {"mock-small", "mock-large"}
    DailyBudget = 9
    MonthlyBudget = 9
    Modes = {"downgrade"}
    Enough = 1
    Redacted <- MCRedacted
    PII <- MCPII
    Looks <- MCLooks
    MaxTokens = 600
    Similarity <- MCSimilarity
    Price <- MCPrice
    MaxPrice = 1
SPECIFICATION Spec
SYMMETRY RequestSymmetry
INVARIANTS
    CutsAreNotAnswers
