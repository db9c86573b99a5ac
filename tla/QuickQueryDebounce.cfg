SPECIFICATION Spec
CONSTANTS
    Exprs = {"avg", "rate by service"}
    Pivots = {"rate by service"}
    Broken = {"av("}
    MaxEdits = 2
    MaxFetches = 2
    MaxForms = 2
    MaxServices = 1
INVARIANTS
    NoStaleSave
