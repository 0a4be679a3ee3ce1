CONSTANTS
  t1 = t1
  t2 = t2
  onSlow = onSlow
  onError = onError
  onAny = onAny
  None = None
  Threads = {t1, t2}
  Callbacks = {onSlow, onError, onAny}
  Texts = {"slow", "fast"}
  Messages <- MCMessages
  TypeOf <- MCTypeOf
  PatternOf <- MCPatternOf
SPECIFICATION FairSpec
INVARIANTS
  Linked
  InformedExactly
  Forwarded
PROPERTIES
  Returns
