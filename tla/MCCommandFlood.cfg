CONSTANTS
    Strays = {FALSE}
    MaxRequests = 2
    MaxLines = 1
SPECIFICATION FairSpec
PROPERTIES RequestsEnd
