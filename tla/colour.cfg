SPECIFICATION Spec
CONSTANTS
    Lamps <- MCLamps
    Values = {2}
    ForeignPlans <- MCPlans
    SceneColours <- MCSceneColours
    Fade = 1
    Budgets <- MCBudgets
    MaxBacklog = 0
INVARIANTS
    ShownIsLampColour
    SceneIsHeld
PROPERTIES
    ColourConverges
CHECK_DEADLOCK FALSE
