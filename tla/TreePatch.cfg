CONSTANTS
    Paths <- MCPaths
    Parent <- MCParent
    Sources <- MCSources
    Targets <- MCTargets
    Given <- MCGiven
    Omits <- MCOmits
    Outputs = {1, 6}
    Rules <- MCRules
    Limits <- MCLimits
    Resealed = TRUE
SPECIFICATION Spec
INVARIANT CreatedApplies
 
INVARIANT PortAgrees
INVARIANT PortWithinLimit
