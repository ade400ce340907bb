CONSTANTS
  p = p q = q r = r x = x c = c n = n f = f
  Pointers = {p, q, x}
  References = {r}
  Integers = {c, n, f}
  Parameters = {x}
  HeapFails = FALSE
  Programs <- ForwardPrograms
SPECIFICATION Spec
CHECK_DEADLOCK FALSE
INVARIANT TypeOK
INVARIANT ReferencesNotNull
INVARIANT NullsKnown
INVARIANT GuardsOfConstantsHold
PROPERTY NullabilityMonotone
