SPECIFICATION MCSpec
CONSTANTS
    Order = {1}
    Watch = {1, 2, 3}
    Status = {"pending", "processing", "shipped"}
    Text = {"all", "x"}
    All = "all"
    found <- Found
    Limit = 1
    MaxStock = 1
    MaxRequests = 2
INVARIANTS
    ListOfInputs
    ShownWasStored
PROPERTIES
    PanelFrees
