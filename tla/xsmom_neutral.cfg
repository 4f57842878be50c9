SPECIFICATION Spec
INVARIANT
    DollarNeutral
CHECK_DEADLOCK FALSE
