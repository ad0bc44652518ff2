SPECIFICATION Spec
CONSTANTS
    Tab = {t1}
    Call = {k1}
    NoCall = NoCall
    Draft = {k1}
    MaxClients = 2
    MaxRevision = 1
INVARIANTS HandledAsAsked ReceiptsTellTheTruth
