SPECIFICATION Spec
CONSTANTS
    Main = Main
    Deliveries = {d1, d2, d3}
    MaxPush = 3
    Broken = {2}
    Comments = 1
    PageSize = 2
    Faults = {"lookup", "load", "list", "write"}
SYMMETRY Symmetry
CHECK_DEADLOCK FALSE
INVARIANT ReviewIsNotSkipped
PROPERTY RerunsUpdateInPlace
PROPERTY NewestPlanStays
