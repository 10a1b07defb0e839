CONSTANTS
    Paths <- ABC
    Projects <- ABCProjects
    Entrypoint = "a"
SPECIFICATION Spec
INVARIANTS
    ComponentsSound
    TypesConverge
    InitializationRespected
    CirclesAreThoseOfPlans
CHECK_DEADLOCK FALSE
