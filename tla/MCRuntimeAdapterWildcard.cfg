\* A remove overtakes a create between `nerdctl run` and `nerdctl inspect`.
CONSTANTS
    c1 = c1
    r1 = r1
    r2 = r2
    r3 = r3
    Ids <- MCIds
    Reqs <- MCReqs
SYMMETRY MCSymmetry
SPECIFICATION Spec
INVARIANT NoWildcardRule
