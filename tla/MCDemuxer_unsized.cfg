CONSTANTS
    Arrivals <- MCArrivals
    MaxArrivals = 6
SPECIFICATION MCSpec
INVARIANTS UnsizedEndByStart
CHECK_DEADLOCK FALSE
