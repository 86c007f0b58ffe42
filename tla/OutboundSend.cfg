CONSTANTS
    p1 = p1
    p2 = p2
    k1 = k1
    k2 = k2
    Proc <- MCProc
    Key <- MCKey
    NoProc = NoProc
SPECIFICATION Spec
SYMMETRY MCSymmetry
INVARIANTS
    TypeOK
    AtMostOneMail
    NoForgottenMail
    RecordedIsReal
    IInv
CHECK_DEADLOCK FALSE
