SPECIFICATION MCSpec
CONSTANTS
    b1 = b1
    MaxLines = 2
    MaxTrouble = 1
    Names = {n1, n2, l1}
    Langs = {l1, go}
    None = None
    Bad = Bad
    Builtin = {go}
    UserFiles = {f1, f2}
    Installs = {i1, i2}
    Files = {entry, lib}
    Entry = entry
    Absent = Absent
    MaxNotes = 2
    NoLine = NoLine
    Cmds = {c1, c2}
    Before <- MCBefore
    Keep = 1
    NoFile = NoFile
    User = User
INVARIANTS RunComplete AdapterChosen InstalledWhole AnswersKept ArtifactsSafe
PROPERTIES InstallAtomic ToolsEnd
CHECK_DEADLOCK FALSE
