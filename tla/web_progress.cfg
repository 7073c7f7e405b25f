SPECIFICATION Spec
CONSTANTS
    Screens <- AllScreens
    Records = {1, 2}
    NewIds = {3, 4}
    Linked = {2}
    MaxWrites = 1
    MaxCalls = 2
PROPERTIES LoadingEnds BusyEnds
