SPECIFICATION MCSpec
CONSTANTS
    InvoiceCount = 1
    ReceiptCount = 3
    Amounts = {1, 2}
    Bills <- MCBills
    MaxMoney = 3
    Slots = {s1, s2}
    Ops = {"FINE", "BULK", "DISCOUNT", "CHARGE", "WAIVE", "CANCEL", "COLLECT", "VOID"}
SYMMETRY SlotSymmetry
INVARIANT AdvanceNeverOverstated
PROPERTY OnlyStaleWritesDiverge
CHECK_DEADLOCK FALSE
