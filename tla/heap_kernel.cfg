SPECIFICATION ClientsSpec
CONSTANTS
    PageSize = 1024
    Start <- HeapStart
    End <- HeapEnd
    IndexSize = 131072
    WordMod = 1073741824
    Requests <- KernelRequests
    Words = {1}
    MaxLive = 16
    Discipline = "never"
    FileCounts <- FewFiles
    Forks = 2
INVARIANT BlocksSound DataPreserved
