------------------------------- MODULE Initrd -------------------------------
(***************************************************************************)
(* The initial ramdisk: the tool that packs files into an image            *)
(* (src/mk_initrd_img), the file system the kernel makes of it             *)
(* (src/source/vfs), and processes that list it as the child of            *)
(* kernel_main does.                                                       *)
(*                                                                         *)
(* A C string is the sequence of its characters without the terminator.    *)
(* Files are text: they hold no byte 0.  The structure readdir returns,    *)
(* currDirent, is the kernel's and one for all processes, so readdir is a  *)
(* step for each of its fields.                                            *)
(*                                                                         *)
(* Definitions marked as slips are small mistakes of the kind the          *)
(* properties are there to catch; the model does not use them.             *)
(***************************************************************************)
EXTENDS Integers, Sequences, FiniteSetsExt, SequencesExt

CONSTANTS
    Readers,        \* processes that list the ramdisk
    ArgLists,       \* argument lists of mk_initrd_img: sequences of file names
    Contents,       \* Contents[name]: the bytes of the file of that name
    NameLen,        \* MAX_FILE_NAME_LEN and MAX_NAME_LEN
    FileNodesNum,   \* FILE_NODES_NUM: the most files of an image
    BufSize,        \* what a reader asks to read
    Location,       \* where the boot loader has put the image
    Junk            \* a byte nobody has written

\* A string, or the bytes of a file.
IsText(s) == s \in Seq(Range(s))

ASSUME InitrdAssumption ==
    /\ {NameLen, FileNodesNum, BufSize} \subseteq Nat \ {0} /\ Location \in Nat
    /\ Readers # {}
    /\ \A args \in ArgLists :
          /\ args \in Seq(DOMAIN Contents) /\ Len(args) <= FileNodesNum
          /\ \A i \in DOMAIN args : Len(args[i]) \in 1 .. NameLen
    /\ \A name \in DOMAIN Contents : IsText(name) /\ IsText(Contents[name])

VARIABLES
    image,          \* initrd.img: headers and the bytes behind them
    fileHeaders,    \* InitrdFs::fileHeaders_, the image's, in place
    childNodes,     \* InitrdFs::root_->childNodes_
    currDirent,     \* InitrdFs::currDirent
    reader          \* per reader: where it is, its index, what it has found,
                    \* its buffer and what it has printed

vars == <<image, fileHeaders, childNodes, currDirent, reader>>

-----------------------------------------------------------------------------
(* mk_initrd_img.                                                          *)

\* A string or a file up to n characters.
Upto(s, n) == SubSeq(s, 1, Min({n, Len(s)}))

IntSize == 4
HeaderSize == 1 + NameLen + 2 * IntSize

\* Bytes of the files before the i-th.
BytesBefore(args, i) == Len(FlattenSeq([k \in 1 .. i - 1 |-> Contents[args[k]]]))

PackedHeader(args, i) ==
    [name |-> args[i],
     offset |-> IntSize + Len(args) * HeaderSize + BytesBefore(args, i),
     length |-> Len(Contents[args[i]])]

\* The name the file is opened by for its contents: name_ has no terminator
\* if the name fills it, and then the bytes of offset_ go on up to a 0.
OpenedName(header) ==
    IF Len(header.name) = NameLen /\ header.offset % 256 # 0
    THEN Append(header.name, "offset_")
    ELSE header.name

\* What is written for a file: if it cannot be opened, a buffer as new has
\* returned it.
PackedContents(header) ==
    IF OpenedName(header) \in DOMAIN Contents
    THEN Contents[OpenedName(header)]
    ELSE [k \in 1 .. header.length |-> Junk]

Packed(args) ==
    LET headers == [i \in DOMAIN args |-> PackedHeader(args, i)]
    IN  [headers |-> headers,
         body |-> FlattenSeq([i \in DOMAIN args |-> PackedContents(headers[i])])]

\* A run of mk_initrd_img, before the machine is started.
Pack(args) ==
    /\ \A p \in Readers : reader[p].pc = "off"
    /\ image' = Packed(args)
    /\ reader' = [p \in Readers |-> [reader[p] EXCEPT !.pc = "boot"]]
    /\ UNCHANGED <<fileHeaders, childNodes, currDirent>>

-----------------------------------------------------------------------------
(* InitrdFs::init and the file nodes.                                      *)

DevName == <<"d", "e", "v">>

\* Directories and files by what FileNode's flags_ and inode_ tell apart.
Dev == [flags |-> "directory", inode |-> 0]

\* Slip: the position in the table, from 0.
InodeFromZero(i) == i - 1

\* i + 1, where i counts from 0.
Inode(i) == i

\* The constructor of FileNode takes as many characters as name_ holds.
ChildNode(i) ==
    [name |-> Upto(image.headers[i].name, NameLen),
     flags |-> "file", inode |-> Inode(i), length |-> image.headers[i].length]

\* Offsets in the image become addresses.
InitrdFsInit ==
    /\ \A p \in Readers : reader[p].pc = "boot"
    /\ fileHeaders' = [i \in DOMAIN image.headers |->
                          [image.headers[i] EXCEPT !.offset = @ + Location]]
    /\ childNodes' = [i \in DOMAIN image.headers |-> ChildNode(i)]
    /\ reader' = [p \in Readers |-> [reader[p] EXCEPT !.pc = "readdir"]]
    /\ UNCHANGED <<image, currDirent>>

-----------------------------------------------------------------------------
(* Reading: vfs.readdir, finddir and read on the root's nodes.             *)

\* The byte of the image at an address.
ByteAt(address) ==
    LET k == address - Location - IntSize - Len(image.headers) * HeaderSize
    IN  IF k \in 0 .. Len(image.body) - 1 THEN image.body[k + 1] ELSE Junk

\* Slip: as the C library's, only num characters are compared.
StrncmpPrefix(s1, s2, num) == Upto(s1, num) = Upto(s2, num)

\* strncmp returns 0: num characters are equal and so is the next one, which
\* is the terminator of a string that ends there.
Strncmp(s1, s2, num) == Upto(s1, num + 1) = Upto(s2, num + 1)

\* The first child of that name.  Also a slip of FindDir: dev is no child.
FindChild(name) ==
    LET i == SelectInSeq(childNodes,
                 LAMBDA node : Strncmp(name, node.name, Len(name)))
    IN  IF i = 0 THEN {} ELSE {[flags |-> childNodes[i].flags,
                                inode |-> childNodes[i].inode]}

\* finddir of the root: what it returns, or nothing.
FindDir(name) ==
    IF Strncmp(name, DevName, Len(DevName)) THEN {Dev} ELSE FindChild(name)

\* read: how much of a request for size bytes at offset the file can serve.
ReadSize(header, offset, size) ==
    CASE offset > header.length -> 0
      [] offset + size > header.length -> header.length - offset
      [] OTHER -> size

\* The buffer after read: the bytes, a terminator behind them, and what was
\* there before.
ReadInto(buffer, header, offset, size) ==
    LET n == ReadSize(header, offset, size)
    IN  [k \in 1 .. BufSize + 1 |->
            CASE k <= n -> ByteAt(header.offset + offset + k - 1)
              [] k = n + 1 -> "NUL"
              [] OTHER -> buffer[k]]

-----------------------------------------------------------------------------
(* The loop of kernel_main's child.                                        *)

At(p, pc) == reader[p].pc = pc

NextIndex(i) == i + 1

\* readdir returns 0.
BehindFiles(index) == index > Len(childNodes)

\* readdir of the root writes the name: dev at index 0, then the children.
ReaddirName(p) ==
    LET i == reader[p].index
    IN  /\ At(p, "readdir") /\ (i = 0 \/ ~BehindFiles(i))
        /\ currDirent' = [currDirent EXCEPT !.name =
                             IF i = 0 THEN DevName ELSE childNodes[i].name]
        /\ reader' = [reader EXCEPT ![p].pc = "inode"]
        /\ UNCHANGED <<image, fileHeaders, childNodes>>

ReaddirInode(p) ==
    LET i == reader[p].index
    IN  /\ At(p, "inode")
        /\ currDirent' = [currDirent EXCEPT !.inode =
                             IF i = 0 THEN 0 ELSE childNodes[i].inode]
        /\ reader' = [reader EXCEPT ![p].pc = "print"]
        /\ UNCHANGED <<image, fileHeaders, childNodes>>

\* readdir returns 0 and the loop ends.
ReaddirEnds(p) ==
    /\ At(p, "readdir") /\ reader[p].index # 0 /\ BehindFiles(reader[p].index)
    /\ reader' = [reader EXCEPT ![p].pc = "done"]
    /\ UNCHANGED <<image, fileHeaders, childNodes, currDirent>>

\* "Found file:" and the name in currDirent.
PrintName(p) ==
    /\ At(p, "print")
    /\ reader' = [reader EXCEPT ![p].pc = "finddir",
                     ![p].printed = Append(@, [name |-> currDirent.name,
                                               shown |-> <<>>])]
    /\ UNCHANGED <<image, fileHeaders, childNodes, currDirent>>

\* What was printed last, with what is shown of it.
Showing(p, shown) ==
    LET printed == reader[p].printed
    IN  [printed EXCEPT ![Len(printed)].shown = shown]

\* finddir by the name in currDirent.  A directory is only announced.
FinddirDirectory(p) ==
    /\ At(p, "finddir")
    /\ \E node \in FindDir(currDirent.name) : node.flags = "directory"
    /\ reader' = [reader EXCEPT ![p].pc = "readdir", ![p].index = NextIndex(@),
                     ![p].printed = Showing(p, <<"directory">>)]
    /\ UNCHANGED <<image, fileHeaders, childNodes, currDirent>>

FinddirFile(p) ==
    /\ At(p, "finddir")
    /\ \E node \in FindDir(currDirent.name) :
          /\ node.flags = "file"
          /\ reader' = [reader EXCEPT ![p].pc = "read", ![p].inode = node.inode]
    /\ UNCHANGED <<image, fileHeaders, childNodes, currDirent>>

\* read of the first BufSize bytes, printed from the buffer.
ReadFile(p) ==
    /\ At(p, "read")
    /\ LET header == fileHeaders[reader[p].inode]
           buffer == ReadInto(reader[p].buffer, header, 0, BufSize)
       IN  reader' = [reader EXCEPT
              ![p].pc = "readdir", ![p].index = NextIndex(@), ![p].buffer = buffer,
              ![p].printed = Showing(p, SubSeq(buffer, 1, ReadSize(header, 0, BufSize)))]
    /\ UNCHANGED <<image, fileHeaders, childNodes, currDirent>>

-----------------------------------------------------------------------------
Init ==
    /\ image = [headers |-> <<>>, body |-> <<>>]
    /\ fileHeaders = <<>>
    /\ childNodes = <<>>
    /\ currDirent = [name |-> <<>>, inode |-> 0]
    /\ reader = [p \in Readers |->
                    [pc |-> "off", index |-> 0, inode |-> 0, printed |-> <<>>,
                     buffer |-> [k \in 1 .. BufSize + 1 |-> Junk]]]

Step(p) ==
    \/ ReaddirName(p) \/ ReaddirInode(p) \/ ReaddirEnds(p)
    \/ PrintName(p) \/ FinddirDirectory(p) \/ FinddirFile(p) \/ ReadFile(p)

Next ==
    \/ \E args \in ArgLists : Pack(args)
    \/ InitrdFsInit
    \/ \E p \in Readers : Step(p)

Spec == Init /\ [][Next]_vars

\* The image is made, the boot goes on, and every process gets the processor
\* again and again.
FairSpec ==
    /\ Spec
    /\ WF_vars(\E args \in ArgLists : Pack(args)) /\ WF_vars(InitrdFsInit)
    /\ \A p \in Readers : WF_vars(Step(p))
=============================================================================
