CONSTANT Cooldown = 2
SPECIFICATION HealthSpec
INVARIANT TrippedIffPersistent
INVARIANT OneProbe
PROPERTY ProbeNeedsCooldown
