\* The resize probes of MCOperators, against the hints they publish.
SPECIFICATION Spec
INVARIANT ScreenFitsHints
