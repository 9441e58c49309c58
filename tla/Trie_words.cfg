\* Nested keys, a key whose prefix is no key, and queries for all of them.
SPECIFICATION Spec
CONSTANTS
  Symbol = {"t", "h", "e"}
  Value = {"v1", "v2"}
  Strings <- Chain
  NoCall = NoCall
INVARIANTS
  TypeOK
  NoDeadEnds
PROPERTY
  ImplementsDictionary
