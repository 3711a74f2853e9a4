SPECIFICATION Spec
CONSTANTS
    Sources <- DowSources
    Files <- McFiles
    Folders <- McFolders
    FolderOf <- McFolderOf
    Up <- McUp
    Sort <- DowSort
    Writable = {"Locale", "Data"}
    DefaultOutput = {"Data", "Required"}
    PureOutput = {}
    Mount <- AtRoot
    Stock <- DowStock
    StockDirs <- DowDirs
    Versions = {v1}
    MaxStreams = 1
    NoSource = NoSource
    Missing = Missing
    Empty = Empty
INVARIANTS
    TypeOK
    IndexSound
    FoldersSound
PROPERTIES
    OwnModOnly
    ReadYourWrites
    NeverFallsBack
    ContinuesWhatIsRead
    ImplementsOverlay
