SPECIFICATION ManufacturingSpec
CONSTANTS
    Workers = {x1, x2}
    WorkOrders = {y1, y2}
    Inspections = {y1, y2}
    Boms = {y1, y2}
    Picking <- TwoPicks
    PickingLines <- TwoLines
    Reporting <- TwoOperations
    Inspecting <- OneTemplate
    Reckoning <- OneBom
    Releasing <- TwoBoms
    w1 = w1  t1 = t1  o1 = o1  r1 = r1  n1 = n1  b1 = b1  m1 = m1  s1 = s1  p1 = p1  a = a  raw = raw  prod = prod
SYMMETRY Symmetry
INVARIANTS
    PicksAccounted TotalIsPrefix VerdictFollowsResults
PROPERTIES
    PlanCovers
