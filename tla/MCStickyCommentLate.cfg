SPECIFICATION Spec
CONSTANTS
    Main = Main
    Deliveries = {d1, d2}
    MaxPush = 3
    Broken = {2}
    Comments = 1
    PageSize = 2
    Faults = {}
CHECK_DEADLOCK FALSE
PROPERTY NewestPlanAlwaysStays
