\* Types whose full names begin with the characters of a package of one part.
SPECIFICATION GeneratorSpec
CONSTANT Chars = {".", "a", "b", "S", "T"}
CONSTANT Files <- MCFlatFiles
INVARIANT TypesMapped
\* The file has been generated.
CHECK_DEADLOCK FALSE
