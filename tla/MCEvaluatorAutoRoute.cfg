CONSTANTS
    Key = {k1}
    DemoKey = k1
    Limit = 2
    Window = 3
    Cases = 1
    Simple <- MCSimple
    Attempts = 2
    BackOff = 2
    Pace = 2
SPECIFICATION EvaluationSpec
INVARIANT AutoRouteIsRouted
