SPECIFICATION Spec
INVARIANT RoundTrip
INVARIANT PrefixIsNone
INVARIANT LegacyHintsFromModes
INVARIANT FilterMatchesAsReference
INVARIANT QRUrisAsReference
