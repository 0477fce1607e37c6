SPECIFICATION Spec
CONSTANTS
    None = None
    MaxAmount = 2
    Tools <- MCTools
    Regions <- MCRegions
    Limits <- MCLimits
    Amounts <- MCAmounts
CHECK_DEADLOCK FALSE
INVARIANT
    ThresholdNeedsApproval
