SPECIFICATION Spec
CONSTANTS
  void = void
  threw = threw
  v1 = v1
  v2 = v2
INVARIANTS
  StructuresSound
  JsonReadBack
PROPERTIES
  CallsAnswered
  LearnersConsistent
