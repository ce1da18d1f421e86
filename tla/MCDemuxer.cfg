CONSTANTS
    Arrivals <- MCArrivals
    MaxArrivals = 6
SPECIFICATION MCSpec
INVARIANTS TypeOK PayloadConserved VerdictsRight HeaderKept CcErrorsExact OnlyAnnounced PcrsExact
CHECK_DEADLOCK FALSE
