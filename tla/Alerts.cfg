SPECIFICATION Spec
CONSTANTS
    Phones = {p1}
    Tokens = {t1, t2}
    Records = {a1, a2}
    None = None
    MaxSecrets = 2
    MaxFaults = 1
    MaxStops = 1
    MaxDead = 1
INVARIANTS
    RegistrationsHold
    EndedIsDead
CHECK_DEADLOCK FALSE
