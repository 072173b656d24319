SPECIFICATION Spec
CONSTANTS
    Requests = {r0, r1, r2}
    Series = {s0}
    Capacity = 1
    MaxBucket = 2
INVARIANTS
    OncePerBucket
\* Every request is handled once and then the pod is idle.
CHECK_DEADLOCK FALSE
