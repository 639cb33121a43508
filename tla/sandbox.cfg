SPECIFICATION Spec
CONSTANTS
    k1 = k1  k2 = k2  q1 = q1  q2 = q2
    Keys <- MCKeys
    Quotes <- MCQuotes
    Orders <- MCOrders
    Handlers = {h1, h2}
    None = None
    Amount <- MCAmount
    TopUps = {2}
    MaxCredit = 4
SYMMETRY Symmetry
INVARIANTS
    TypeOK
    Conservation
    QuoteSpentOnce
    PaymentOnlyAfterPayout
    OutboxMatchesPayout
    FinishedUnlessCutShort
