SPECIFICATION Spec
CONSTANTS
    Conns = {c1}
    Users = {u1}
    Passwords = {p1}
    NoUser = NoUser
PROPERTY LoginAfterLogout
