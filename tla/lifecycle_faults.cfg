SPECIFICATION Spec
CONSTANTS
    Decisions = {d1, d2}
    NoDecision = NoDecision
    MaxAutoFixRounds = 2
    MaxRules = 1
    Faults = {"crash", "decision-task", "active-task", "feasibility", "resume-context", "parent-file"}
SYMMETRY DecisionSymmetry
INVARIANTS
    SafetyInv
    StopIsResumable
    WaitCarriesNoStop
    DecisionWaitHasMarker
    PendingStopContinues
    NoBeginBehindModel
    StoppedApprovalIsActivated
    SurfaceReviewNeverRefused
PROPERTIES
    DecisionIsConsumedOnce
    NewTaskDropsNothing
