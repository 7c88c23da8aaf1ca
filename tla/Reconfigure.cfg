\* Two changes of providers, two stops and two failing steps.
CONSTANTS
    e1 = e1 e2 = e2 e3 = e3
    Envs <- MCEnvs
    Fingerprint <- MCFingerprint
    Installed = e1
    MaxGoals = 2 MaxStops = 2 MaxFaults = 2
    None = None
SPECIFICATION FairSpec
INVARIANTS KnownRuntime EnvironmentKept
PROPERTIES Converges ImplementsSwitch
