SPECIFICATION Spec
CONSTANTS
    Decisions = {d1, d2}
    NoDecision = NoDecision
    MaxAutoFixRounds = 2
    MaxRules = 1
    Faults = {"feasibility"}
SYMMETRY DecisionSymmetry
INVARIANTS
    RejectedEntrypointStaysOpen
