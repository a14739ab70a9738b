SPECIFICATION Spec
CONSTANTS
    Decisions = {d1, d2}
    NoDecision = NoDecision
    MaxAutoFixRounds = 2
    MaxRules = 1
    Faults = {"crash"}
SYMMETRY DecisionSymmetry
INVARIANTS
    PlanConsistent
    AllowedFixBegins
