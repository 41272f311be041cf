SPECIFICATION Spec
CONSTANTS
    Conns = {c1, c2}
    Users = {u1, u2}
    Passwords = {p1, p2}
    NoUser = NoUser
INVARIANTS
    TypeOK
    Authenticated
PROPERTY
    RefinesAccess
    HangUpLogsOut
