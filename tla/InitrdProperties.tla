-------------------------- MODULE InitrdProperties --------------------------
(***************************************************************************)
(* What must hold of the initial ramdisk, from the packed image to what a  *)
(* process prints of it, over the actions of Initrd.                       *)
(***************************************************************************)
EXTENDS Initrd

\* What the listing is promised for: names leave room for a terminator in the
\* header, and one process lists, as kernel_main's child does; currDirent is
\* one for all.
NamesTerminated ==
    \A args \in ArgLists : \A i \in DOMAIN args : Len(args[i]) < NameLen

OneReader == \A p, q \in Readers : p = q

\* Headers, nodes and readers stay in their ranges: every file's inode finds
\* a header in the kernel's table.
TypeOK ==
    /\ Len(image.headers) <= FileNodesNum
    /\ Len(fileHeaders) \in {0, Len(image.headers)}
    /\ Len(childNodes) = Len(fileHeaders)
    /\ \A i \in DOMAIN childNodes :
          childNodes[i].inode \in DOMAIN fileHeaders /\ childNodes[i].flags = "file"
    /\ \A p \in Readers :
          /\ reader[p].pc \in {"off", "boot", "readdir", "inode",
                              "print", "finddir", "read", "done"}
          /\ reader[p].index \in 0 .. Len(image.headers) + 1
          /\ reader[p].inode \in 0 .. Len(fileHeaders)

Name(i) == image.headers[i].name

\* The listing of the image: dev, then every file in the order of mk_initrd's
\* arguments, with the beginning of its contents, as much as the buffer holds.
\* A file called dev is hidden by the directory.
Listing ==
    <<[name |-> DevName, shown |-> <<"directory">>]>> \o
    [i \in DOMAIN image.headers |->
        [name |-> Name(i),
         shown |-> IF Name(i) = DevName THEN <<"directory">>
                   ELSE Upto(Contents[Name(i)], BufSize)]]

\* What a process has printed is the listing as far as it has got, and all of
\* it in the end: no name is confused with one it begins, no offset, length
\* or inode is off by one anywhere between mk_initrd, init, readdir, finddir
\* and read.
Listed ==
    \A p \in Readers :
        LET printed == reader[p].printed
            unfinished == IF reader[p].pc \in {"finddir", "read"} THEN 1 ELSE 0
        IN  /\ Len(printed) <= Len(Listing)
            /\ \A i \in DOMAIN printed :
                  /\ printed[i].name = Listing[i].name
                  /\ printed[i].shown = Listing[i].shown \/ i > Len(printed) - unfinished
            /\ reader[p].pc = "done" => Len(printed) = Len(Listing)

\* Every process gets to the end of the listing.
ListingEnds == \A p \in Readers : <>(reader[p].pc = "done")

-----------------------------------------------------------------------------
\* mk_initrd calls only names of more than MAX_FILE_NAME_LEN characters bad:
\* a file of any other name is in the image with its contents.
PackedWhole ==
    \A i \in DOMAIN image.headers :
        LET first == image.headers[i].offset - IntSize - Len(image.headers) * HeaderSize
        IN  SubSeq(image.body, first + 1, first + image.headers[i].length)
                = Contents[Name(i)]
=============================================================================
