\* The order aggregate: totals of 1 to 3 in payments of 1 to 3, one reworked
\* saddle or more, a clock that passes every promised date.
SPECIFICATION Spec
CONSTANTS
    Amounts <- MCAmounts
    Ids <- MCIds
    Measurements = {sheet}
    Names = {smith}
    NoValue = NoValue
    Dates <- MCDates
    Start = 1
    MaxNow = 3
INVARIANTS
    TypeOK
    PaymentBalances
    NeverShipsUninspected
    DeliveryIsDated
PROPERTIES
    OverdueOnlyByTime
    FinishedIsFrozen
    HonoursContract
