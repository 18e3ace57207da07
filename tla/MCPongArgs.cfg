CONSTANTS
    Strs <- MCStrs
    MaxOpts = 2
SPECIFICATION Spec
INVARIANT ParsedAsWritten
