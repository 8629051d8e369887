------------------------------ MODULE MCInitrd ------------------------------
(***************************************************************************)
(* Instances of Initrd for TLC: names of which one begins the other, files *)
(* that are empty, shorter than, as long as and longer than the buffer.    *)
(***************************************************************************)
EXTENDS InitrdProperties

D == <<"d">>
De == <<"d", "e">>
Deve == <<"d", "e", "v", "e">>
Devel == <<"d", "e", "v", "e", "l">>

MCContents ==
    (D :> <<>>) @@ (De :> <<"x", "y">>) @@ (DevName :> <<"z">>)
        @@ (Deve :> <<"y", "y", "x">>) @@ (Devel :> <<"z", "x">>)

\* Names shorter than NameLen, in every order and number up to three.
ShortNames == SeqOf({D, De, DevName, Deve}, 3)

\* With names that fill the field of the image.
AllNames == SeqOf({De, Deve, Devel}, 2)

\* The instance with short names is one of those the proofs are about.
ASSUME ListingTerminated == ArgLists = ShortNames => NamesTerminated /\ OneReader
=============================================================================
