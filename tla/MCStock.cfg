SPECIFICATION StockSpec
CONSTANTS
    Txns = {x1, x2, x3}
    Initials = {x1, x2, x3}
    Cells = {y1, y2}
    Workers = {y1, y2}
    Warehouses = {z1, z2}
    Transfers = {z1, z2}
    Amounts = {1, 2}
    Targets = {0, 2}
    MaxLines = 2
    Stocked = {y1, y2}
    Opening = 1
    Transferring <- TwoTransfers
    Counting <- OneCheck
    Founding <- OneCell
    Receiving <- OneWarehouse
    Pricing <- ByHand
    t1 = t1  k1 = k1  n1 = n1  a = a
SYMMETRY Symmetry
INVARIANTS
    StockIsBooked TransfersPosted CountsReplace CostIsAverage
PROPERTIES
    OnlyForceOverdraws TransferConserves
