SPECIFICATION Spec
CONSTANTS
    Requests = {r1, r2, r3, r4}
    Passwords = {pw1, pw2}
    LastSecond = 1
    Failures = TRUE
    None = None
SYMMETRY Symmetry
INVARIANTS TypeOK SingleSession CodeConsumed LogoutEndsSessions
CHECK_DEADLOCK FALSE
