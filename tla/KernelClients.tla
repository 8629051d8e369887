---------------------------- MODULE KernelClients ----------------------------
(***************************************************************************)
(* What the kernel itself asks of its heap, in the order it asks: the boot *)
(* (initialisePaging, Sheduler::init, InitrdFs::init) and then one fork    *)
(* after the other.  The kernel frees nothing.  Sizes are in words.        *)
(***************************************************************************)
EXTENDS KernelHeapProperties

CONSTANTS
    FileCounts,     \* files in the initrd image: the values tried
    Forks           \* bound: calls of Sheduler::fork

VARIABLES
    files,          \* fileHeaders_.getSize()
    asked           \* requests served so far

clientVars == <<vars, files, asked>>

Want(size, pageAlign) == [size |-> size, pageAlign |-> pageAlign]

PageDirectory == Want(2049, TRUE)   \* new PageDirectory, clonePageDirectory
PageTable == Want(1024, TRUE)       \* getPage, clonePageTable
Process == Want(6, FALSE)           \* SNode<Process>, pushBack
FileNode == Want(32, FALSE)         \* root_ and dev_
FileNodes(n) == Want(32 * n, FALSE) \* root_->childNodes_

\* The clone of the directory shares every table; changeStack maps pages of
\* two new tables; then the first process and the two directories.
Boot(n) == <<PageDirectory, PageTable, PageTable, Process,
             FileNode, FileNode, FileNodes(n)>>

\* The clone copies the tables of the stack and nothing else.
Fork == <<PageDirectory, PageTable, PageTable, Process>>

Program(n) == Boot(n) \o FlattenSeq([i \in 1 .. Forks |-> Fork])

KernelRequests == {PageDirectory, PageTable, Process, FileNode}
                    \cup {FileNodes(n) : n \in FileCounts}

-----------------------------------------------------------------------------
Filled == \A p \in DOMAIN live : live[p].word # NoWord

\* The next request is served.
Ask ==
    /\ asked < Len(Program(files))
    /\ Filled
    /\ LET r == Program(files)[asked + 1] IN Allocate(r.size, r.pageAlign)
    /\ asked' = asked + 1
    /\ UNCHANGED files

\* What was asked for is filled, by memset, by a copy or member by member.
Use ==
    /\ \E p \in DOMAIN live, w \in Words : live[p].word = NoWord /\ Fill(p, w)
    /\ UNCHANGED <<files, asked>>

Idle ==
    /\ asked = Len(Program(files)) /\ Filled
    /\ UNCHANGED clientVars

ClientsInit == Init /\ files \in FileCounts /\ asked = 0
ClientsNext == Ask \/ Use \/ Idle
ClientsSpec == ClientsInit /\ [][ClientsNext]_clientVars
=============================================================================
