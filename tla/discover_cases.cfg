SPECIFICATION Spec
CONSTANTS
    Names = {n1, n2}
    MaxLines = 3
CHECK_DEADLOCK FALSE
INVARIANTS
    CasesAttachToParametric
