SPECIFICATION Spec
CONSTANTS
    AwbWorkspaces = {"w1", "w2"}
    AwbModels = {"m", "bad"}
    BadModels = {"bad"}
    ModelCommands = {"build"}
    Packages = {"p"}
    Default = "7"
    Typed <- AllTyped
    MaxClicks = 3
    Order <- ApmOrder
    Parent <- ApmParent
    RootType = "model"
    Provides <- Provided
    Requires <- Required
    Submodels = {"s"}
    Inner <- InnerOf
    Obsolete = {"c2", "s"}
    Template = {"m2"}
    Score <- Scores
    Vanishing = {"k"}
    ModelFiles = {"f", "g"}
    RootTypes = {"model", "project"}
    MaxEdits = 4
    FrCount = 3
    FrName <- FrNames
    Lacking = {2}
    Replacements = {"new"}
    Rename <- Renaming
    MaxFrClicks = 6
INVARIANTS
    ShownIsThere
    TreeIsModel
    UnmodifiedIsSaved
    AutoBuildTriesAll
PROPERTIES
    TypedIsRun
    WindowsComeToRest
    SavesWhatChanged
CHECK_DEADLOCK FALSE
