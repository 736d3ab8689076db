CONSTANTS
    Request = {r1, r2}
    Prompt = {"a", "b"}
    Asked = {"auto"}
    Streaming = {TRUE, FALSE}
    Model = {"mock-small", "mock-large"}
    DailyBudget = 1
    MonthlyBudget = 1
    Modes = {"downgrade", "reject"}
    Enough = 1
    Redacted <- MCRedacted
    PII <- MCPII
    Looks <- MCLooks
    MaxTokens = 600
    Similarity <- MCSimilarity
    Price <- MCPrice
    MaxPrice = 1
SPECIFICATION Spec
SYMMETRY RequestSymmetry
INVARIANTS
    TypeOK
    PartsAreNotAnswers
    BooksAgree
    HitsDoNotDrift
    GaugeShowsAPast
    RoutingPolicy
PROPERTIES
    LedgerContract
