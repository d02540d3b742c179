\* One process and one user: enrol, then PATCH is_active to false.
CONSTANTS
    User = {u1}
    Proc = {w1}
    Req = {h1, h2}
    MaxTemplate = 1
    NotLoaded = NotLoaded
    None = None
SPECIFICATION Spec
PROPERTY DeactivationRevokesEntry
