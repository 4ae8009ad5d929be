CONSTANTS
    Checked = {"match"}
    Nodes = {1, 2, 3}
    Files = {"main", "a", "b", "c"}
    Entry = "main"
    Decls <- MCDecls
    Programs <- MCPrograms
    Scalars = {"n", "m", "p", "v"}
    Arrays = {"xs", "ys", "ws", "zs"}
    Fields <- MCFields
    Nested <- MCNested
    Literals <- MCLiterals
    Defs <- MCDefs
    PlainValues <- MCPlainValues
    Matches <- MatchPrograms
SPECIFICATION PartsSpec
INVARIANT SimulatedRight
