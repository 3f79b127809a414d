SPECIFICATION MCSpec
CONSTANTS
    Clients = {c1, c2}
    Starter = c1
    Requests = {r1, r2}
    None = None
    Lines = {1, 2}
    Place <- MCPlace
    Conds = {"", "a", "b"}
    Specs <- MCSpecs
    Lists <- MCLists
    StartSpecs = {}
    MaxFailures = 1
    MaxLate = 1
    Kinds = {"add", "replace", "remove", "leave", "continue", "runUntil"}
    Paths = {p1, p2}
    FileKey = p1
    NoPath = NoPath
    Owners = {"them"}
    MaxLine = 2
    MaxIds = 3
    MaxActs = 2
    MaxChanges = 2
    Plain = {"a", "b"}
    Backslash = "backslash"
    Control = "control"
    SourceNames = {"b"}
    MaxMappings = 2
    MaxDepth = 3
    Idents = {"i", "j"}
    Others = {"+"}
    MaxTokens = 3
    MaxLines = 2
    MaxSuggestions = 1
    MaxScored = 2
SYMMETRY Symmetry
CHECK_DEADLOCK FALSE
INVARIANTS ListNewest StopsExactly SourcesFound
PROPERTIES TemporaryOnly EditorAgrees
