SPECIFICATION Spec
CONSTANT MaxStarts = 4
INVARIANTS
    TypeOK
    OneEventPerAttempt
    DisconnectsArePaired
