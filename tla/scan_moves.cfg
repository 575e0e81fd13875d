CONSTANTS
    f1 = f1  f2 = f2
    p1 = p1  p2 = p2  p3 = p3  p4 = p4
    c1 = c1  c2 = c2  c3 = c3
    base1 = base1  base2 = base2
    a1 = a1  a2 = a2
    NoFile = NoFile
    Folders = {f1, f2}
    Paths = {p1, p2, p3, p4}
    Contents = {c1, c2}
    Albums = {a1, a2}
    Ids = {1, 2, 3, 4, 5, 6}
    FolderOf <- MCFolderOf
    BaseOf <- MCBaseOf
    PidOf <- MCPidOf
    AlbumOf <- MCAlbumOf
    InitFiles <- MCTwoFiles
    Imported = {TRUE}
    Requests <- QuickOrFull
    FsOps = {"move"}
    QuietScans = TRUE
    Faults = {"db"}
    PurgeMissing = "never"
    MaxClock = 5
    MaxCrashes = 2
SPECIFICATION Spec
PROPERTIES
    MovedFilesKeepIds
