SPECIFICATION Spec
CONSTANTS
    NoToken = NoToken
    Token = {t1, t2, t3, t4}
    Approval = TRUE
    Rotates = TRUE
    Results = 1
    Late = 0
SYMMETRY TokenSymmetry
INVARIANTS HeldTokenHonoured ProvedTokenIsCurrent
PROPERTIES NoTakeover
