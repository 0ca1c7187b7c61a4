\* Concurrent lifecycle requests on one container: create replies follow
\* `nerdctl run`, and every request is
\* answered once containerd keeps answering.  No symmetry: liveness is checked.
CONSTANTS
    c1 = c1
    r1 = r1
    r2 = r2
    r3 = r3
    Ids <- MCIds
    Reqs <- MCReqs
SPECIFICATION Spec
INVARIANT CreateReplyFollowsRun
PROPERTY AnsweredOnceResponsive
