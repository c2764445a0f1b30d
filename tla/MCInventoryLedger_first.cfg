SPECIFICATION Spec
CONSTANTS
    Txns = {t1, t2}
    Cells = {c1, c2}
    Amounts = {1}
    Targets = {1}
    MaxLines = 1
    Stocked = {}
    Opening = 0
SYMMETRY Symmetry
INVARIANTS
    StockIsBooked
