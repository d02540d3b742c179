\* One administrator, who saves one setting and then another.
CONSTANTS
    Admin = {a1}
    Updates <- MCUpdates
    Hours <- MCHours
    Null = Null
    Malformed = Malformed
SPECIFICATION Spec
INVARIANT PatchTakesEffect
