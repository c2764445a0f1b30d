SPECIFICATION TradeSpec
CONSTANTS
    Workers = {x1, x2}
    Orders = {y1, y2}
    Receipts = {z1, z2}
    Deliveries = {z1, z2}
    Bills = {y1, y2}
    Payments = {z1, z2}
    Receiving <- TwoReceipts
    Returning <- OneReturn
    Delivery <- TwoPlaces
    FirstDelivery <- NewPlace
    LineDelivery <- OneOrder
    PayTotals = {1, 2, 3}
    PayAmounts = {0, 1, 2}
    PayDates <- MayDay
    PayPeriods = {}
    Stating <- EndsOfPeriods
    Ageing <- EndsOfBuckets
    Today <- EndOfMay
    o1 = o1  r1 = r1  t1 = t1  i1 = i1  h1 = h1  a = a  b = b
SYMMETRY Symmetry
INVARIANTS
    LinesAsPosted StockAsPosted OrderHistory PaidAsPosted ReportsCover
