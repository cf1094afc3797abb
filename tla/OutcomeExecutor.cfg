CONSTANTS
    Outcomes <- MCOutcomes
    Rule <- MCRule
    Roots = {"life", "injury", "loop"}
    Attributes = {"str", "dex"}
    Lowest = 0
    Highest = 2
    Picks <- MCPicks
    Sides = {1, 2}
    None = None
    Period = 2
    MaxAmount = 4
SPECIFICATION Spec
INVARIANTS
    PlansAreRules
    OnlyAppliedPlansCount
    AskedOnce
