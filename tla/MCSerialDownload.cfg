SPECIFICATION DownloadSpec
CONSTANTS
    Block = 3
    Head = 2
    Lengths = {0, 3, 7}
    MaxSenders = 2
    MaxDownloads = 2
INVARIANTS DownloadTypeOK ReportsAreTrue StopAndWait
CHECK_DEADLOCK FALSE
