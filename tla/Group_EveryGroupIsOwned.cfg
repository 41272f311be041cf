SPECIFICATION Spec
CONSTANTS
    Handlers = {h1, h2}
    Users = {u1, u2}
    Groups = {g1}
    NoUser = NoUser
INVARIANT EveryGroupIsOwned
