SPECIFICATION Spec
INVARIANT DisabledNotReported
CHECK_DEADLOCK FALSE
