SPECIFICATION ColdOrWarmSpec
CONSTANTS
    Trackers = {t1, t2}
    Users = {u1, u2}
    Passwords = {p1, p2}
    Groups = {g1}
    Files = {f1}
    Slow = {t1, t2}
    MaxCommands = 4
SYMMETRY Symmetry
INVARIANTS
    TypeOK
    RegistrationsSpread
    ReplicasSound
PROPERTY
    PasswordsStay
    AccountsAreGossip
