SPECIFICATION FairSpec
CONSTANTS
    Decisions = {d1, d2}
    NoDecision = NoDecision
    MaxAutoFixRounds = 2
    MaxRules = 1
    Faults = {"crash", "decision-task", "active-task", "feasibility", "resume-context"}
PROPERTIES
    ImplementsContract
    CommandEnds
