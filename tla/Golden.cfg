\* Two edits of the sources, a generator that may crash, and CI.
SPECIFICATION Spec
CONSTANTS
  Worked <- SomeWorked
  Corpus <- SomeCorpus
  Hashed = {"#1"}
  Text = {right, wrong}
  Torn = "torn"
  MaxEdits = 2
INVARIANTS
  GateIsSound
  FinishedRunIsTrusted
  MismatchKeepsFile
SYMMETRY Permuted
