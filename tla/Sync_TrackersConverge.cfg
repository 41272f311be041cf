SPECIFICATION Spec
CONSTANTS
    Trackers = {t1, t2}
    Users = {u1}
    Passwords = {p1, p2}
    Groups = {g1}
    Files = {f1}
    Slow = {}
    MaxCommands = 2
INVARIANT TrackersConverge
