SPECIFICATION Spec
CONSTANTS
    Scenarios = {"close"}
    Msgs = {m1, m2}
    OneCall = {m1}
    NoCalls = {}
    OnePart = {p}
    TwoParts = {p1, p2}
    Flushers = {f1, f2}
    None = None
INVARIANT ResultsHaveAnOwner
