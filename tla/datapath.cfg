SPECIFICATION Spec
CONSTANTS
    Pulled = 90
    NumCPUs = 2
    Frames <- MCFrames
    MaxFrames = 1
INVARIANTS TypeOK XdpConserved TcConserved ScrapeBounded ScrapeOrdered
