SPECIFICATION Spec
CONSTANTS
    MaxRevision = 4
    Retention = 2
    Limit = 2
    MaxFaults = 1
    MaxResets = 0
    OthersOnly = {4}
PROPERTIES
    NewPanelIsServed
