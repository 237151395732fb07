SPECIFICATION MCSpec
CONSTANTS
    c1 = c1
    c2 = c2
    c3 = c3
    Caller = {c1, c2, c3}
    Ticker = Ticker
    None = None
    Text = {2, 3}
    MaxCalls = 5
    Parents = 2
    SearchFailures <- MCSearchFailures
    Setups <- MCSetups
INVARIANT NotFoundIsTrue
