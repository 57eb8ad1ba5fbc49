CONSTANTS
  Invocations = {i1, i2}
  Providers = {p1}
  Configured = {p1}
  None = None
SPECIFICATION Spec
INVARIANT Serialized
