CONSTANTS
    a = a  b = b  c = c
    t = t
    k1 = k1  k2 = k2
    Loaders = {a}
    Tables = {t}
    Layouts = {k1, k2}
    OLD = OLD
    NOTABLE = NOTABLE
    Jobs <- MCJobs
    MayFail = {}
SPECIFICATION Spec
CHECK_DEADLOCK FALSE
INVARIANT LoadedWhenReported
