SPECIFICATION Spec
CONSTANTS
    Requests = {r1, r2, r3}
    Passwords = {pw1, pw2}
    LastSecond = 0
    Failures = FALSE
    None = None
SYMMETRY Symmetry
PROPERTIES GuardAdmitsValid
CHECK_DEADLOCK FALSE
