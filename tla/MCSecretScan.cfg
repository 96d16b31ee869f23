SPECIFICATION SecretSpec
CONSTANTS
    Path = {f1, f2, f3}
    Directory = {{f1, f3}, {f2}}
    Excluded = {f3}
    Ignored = {}
    Rule = {"token", "key"}
    Grouped = {"token"}
    Content <- MCContent
    MaxEdits = 1
INVARIANTS CleanIsComplete
CHECK_DEADLOCK FALSE
