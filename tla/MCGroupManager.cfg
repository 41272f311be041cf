SPECIFICATION Spec
CONSTANTS
    Handlers = {h1, h2}
    Users = {u1, u2, u3}
    Groups = {g1}
    NoUser = NoUser
SYMMETRY Symmetry
INVARIANTS
    TypeOK
    MembersDistinct
    OwnerIsSenior
    OwnerIndexAgrees
PROPERTIES
    AdmittedByOwner
    GhostsArePermanent
    RefinesRegistry
