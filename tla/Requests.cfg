SPECIFICATION Spec
CONSTANTS
    a1 = a1
    a2 = a2
    a3 = a3
    k1 = k1
    k2 = k2
    l1 = l1
    Attempts = {a1, a2, a3}
    Keys = {k1, k2}
    Links = {l1}
    Bodies <- MCBodies
    NoAttempt = NoAttempt
    NoBody = NoBody
    Loads <- MCLoads
    LosesAcks = TRUE
INVARIANTS
    SecondPaymentNeedsDoubt
    OneReceiptPerKey
PROPERTIES
    StoredAnswerIsFinal
    LinksKeepPromise
    RequestsEnd
CHECK_DEADLOCK FALSE
