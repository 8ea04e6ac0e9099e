SPECIFICATION FinanceSpec
CONSTANTS
    w1 = w1
    w2 = w2
    may = may
    june = june
    c50 = c50
    c62 = c62
    c91 = c91
    i1 = i1
    Workers <- MCWorkers
    MaxRequests = 3
    Months <- MCMonths
    Today = june
    Codes <- MCCodes
    SystemCodes <- MCSystemCodes
    Cash = c50
    Other = c91
    Invoices <- MCInvoices
    ReadMayFail = TRUE
    BookOperations <- AllBookOperations
SYMMETRY FinanceSymmetry
INVARIANTS
    FinanceTypeOK
    AutoEntriesArePosted
    CashIsBooked
PROPERTIES
    ClosedMonthsStayShut
    PostedIsFinal
CHECK_DEADLOCK FALSE
