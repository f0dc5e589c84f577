CONSTANTS
    good = good
    bad = bad
    m1 = m1
    m2 = m2
    Nothing = Nothing
    TargetNames = {"linux", "x64-linux-bin", "wasm32-wasi-wasm", "vax-vms"}
    Canonical <- Alias
    Resolvable = {"x64-linux-bin", "wasm32-wasi-wasm"}
    Wasm = {"wasm32-wasi-wasm"}
    DefaultTriple = "x64-linux-bin"
    Levels = {"O0", "O2"}
    DefaultLevel = "O2"
    Switches = {"SLP"}
    Additional = {m1, m2}
    Sources = {good, bad}
    Clashing <- Clashes
    Rejected <- Refused
    MaxModules = 2
    MaxFeatures = 1
SPECIFICATION SessionSpec
INVARIANTS PreparedIsFresh LeftoversAreHarmless
PROPERTY MeetsContract
