SPECIFICATION Library
CONSTANTS
    Byte = {a, b}
    Junk = Junk
    InitialLength = 1
    MaxItems = 2
    ItemSizes = {1, 2}
    Modulus = 64
    MaxLength = 4
    FolderNames <- McFolderNames
    UnreadableFolders <- McUnreadable
    MaxListing = 2
    MaxChildren = 4
    None = None
    Absent = Absent
    NoRef = NoRef
    More = More
    Bad = Bad
    SgaVersion = 4
    top = top
    base = base
    one = one
    near = near
    ucs = ucs
    NoSuch = NoSuch
    Broken = Broken
INVARIANTS
    Consistent
    NoJunk
    TableIsLoaded
    WholeOrRefused
    BurnsToTheSame
    MaterialIsLoaded
    AddedIsSaved
    SearchSound
    FoundWhenWalked
PROPERTIES
    IsAFile
