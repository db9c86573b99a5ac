SPECIFICATION Spec
CONSTANTS
    Exprs = {"avg", "rate by service"}
    Pivots = {"rate by service"}
    Broken = {"av("}
    MaxEdits = 2
    MaxFetches = 2
    MaxForms = 3
    MaxServices = 1
INVARIANTS
    PanelMatchesDSL
    SettledSaveIsKept
    MirrorsFollow
CHECK_DEADLOCK FALSE
