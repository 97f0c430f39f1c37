\* Two pieces of two blocks from at most two peers; two downloads to the disk, or a stream. Or an
\* upload of two or three files.
SPECIFICATION
 TorrentsSpec
CONSTANTS
 p1 = p1
 p2 = p2
 d1 = d1
 d2 = d2
 Peers = {p1, p2}
 Pieces = 2
 Blocks = 2
 Disks = {d1, d2}
 PipelineMax = 1
 MaxErrors = 2
 MaxAttempts = 2
 Files <- ThreeFiles
 Orders <- Selections
 Buffer = 1
INVARIANTS
 PieceInOnePlace
 FilesAreWhole
 AheadIsHeld
 CompletedIsWhole
PROPERTIES
 DownloadsEnd
CHECK_DEADLOCK FALSE
