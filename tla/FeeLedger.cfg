SPECIFICATION Spec
CONSTANTS
    InvoiceCount = 2
    ReceiptCount = 2
    Amounts = {1, 2}
    Bills <- MCBills
    MaxMoney = 3
INVARIANTS Coherent PaidIsAllocated AdvanceIsExcess
PROPERTY OldestFirst
CHECK_DEADLOCK FALSE
