SPECIFICATION Spec
CONSTANTS
    Places = {variable, temporary, first, second}
    Registrations = {caps, torch, object}
    null_unregister = null_unregister
    NoObject = NoObject
INVARIANTS
    UndoneOnce
