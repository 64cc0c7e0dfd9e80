SPECIFICATION Spec
CHECK_DEADLOCK FALSE
CONSTANTS
    c1 = c1  s1 = s1  s2 = s2  v = v  m1 = m1  m2 = m2
    Calls = {c1}
    Servers = {s1, s2}
    Offers <- MCOffers
    Loops <- MCLoops
    None = None
    Text = Text
    Empty = Empty
    Inputs <- MCInputs
    Buffer = 5
    MaxDeaths = 1
INVARIANTS SuccessMeansExecuted
