SPECIFICATION Spec
CONSTANTS
    goods = goods
    tabA = tabA
    Lines = {goods}
    Stocked = {goods}
    Quantities <- UpToTwo
    Tabs = {tabA}
    MaxRequests = 2
INVARIANTS TypeOK DraftUndrawn NeverMoreThanAsked NeverOverDrawn CancelledUndrawn
