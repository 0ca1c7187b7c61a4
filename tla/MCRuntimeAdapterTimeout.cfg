\* containerd stops answering while a request awaits nerdctl.
CONSTANTS
    c1 = c1
    r1 = r1
    r2 = r2
    r3 = r3
    Ids <- MCIds
    Reqs <- MCReqs
SPECIFICATION Spec
PROPERTY EveryRequestAnswered
