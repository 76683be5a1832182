\* All packages and types of up to three parts of one or two characters.
SPECIFICATION GeneratorSpec
CONSTANT Chars = {".", "a", "b", "S", "T"}
CONSTANT Files <- MCFiles
INVARIANTS
  NamespacesNested
  OwnTypesMapped
\* The file has been generated.
CHECK_DEADLOCK FALSE
