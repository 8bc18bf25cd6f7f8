SPECIFICATION Spec
CONSTANTS
    InvoiceCount = 1
    ReceiptCount = 2
    Amounts = {1, 2}
    Bills <- MCPlainBill
    MaxMoney = 3
    Slots = {s1, s2}
    Ops = {"COLLECT", "VOID"}
INVARIANT PaidIsAllocated
CHECK_DEADLOCK FALSE
