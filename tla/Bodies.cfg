SPECIFICATION SuiteSpec
INVARIANTS
  ForwardingSound
  TransformSound
  FramingExact
  UsageSound
PROPERTIES
  EndIsFinal
CHECK_DEADLOCK FALSE
