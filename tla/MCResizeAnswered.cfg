\* The resize probes of MCOperators, against the "resized" signals emitted.
SPECIFICATION Spec
INVARIANT ResizeAnswered
