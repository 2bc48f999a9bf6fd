SPECIFICATION FairSpec
CONSTANTS
    r1 = r1
    a = a
    b = b
    noId = noId
    Reader <- MCReader
    Id <- MCId
    NoId <- noId
    size = 3
PROPERTIES
    ReadWaitSeesMessage
