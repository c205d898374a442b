SPECIFICATION Spec
CONSTANTS
    Tags <- MCTags
    Handlers <- MCHandlers
    Blueprints <- MCBlueprints
    CatchAll <- MCCatchAll
    RouteKey = "event"
    MaxHandlers = 3
INVARIANT RegistryAgrees
