\* Four agents, every plan; a change, a failure or a restart at any cycle.
CONSTANTS
    Members = {1, 2, 3, 4}
    Settings <- AllPlans
    Conditions = {"usable", "offline"}
    MaxCycles = 4
    MaxEvents = 1
SPECIFICATION MeshSpec
INVARIANTS PlanSound CoverageWindow
