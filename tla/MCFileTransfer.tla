--------------------------- MODULE MCFileTransfer ---------------------------
(***************************************************************************)
(* Instances of FileTransfer for TLC.                                      *)
(***************************************************************************)
EXTENDS FileTransfer

CONSTANTS u1, u2, u3, d1, p1, unsafe

OneFile    == [u \in Uploads |-> <<1, 2>>]
OnePath    == [a \in Uploads \cup Downloads |-> p1]
UnsafePath == [a \in Uploads \cup Downloads |-> unsafe]

\* Three files, of which one is empty and two have the same length and no
\* block in common.
ThreeFiles == [u \in Uploads |-> CASE u = u1 -> <<1, 2>>
                                   [] u = u2 -> <<>>
                                   [] u = u3 -> <<3, 4>>]
\* Two files of different lengths.
LongShort  == [u \in Uploads |-> IF u = u1 THEN <<1, 2>> ELSE <<3>>]

\* Three attempts at one file; uploads of two files to one path, and of one of
\* them and the empty one; one and two uploads beside a download; an upload to a
\* path that is refused.
Same    == [attempts |-> Uploads, path |-> OnePath, content |-> OneFile,
            losses |-> 1]
Mixed   == [attempts |-> {u1, u3}, path |-> OnePath, content |-> ThreeFiles,
            losses |-> 2]
Empty   == [attempts |-> {u1, u2}, path |-> OnePath, content |-> ThreeFiles,
            losses |-> 2]
Fetched == [attempts |-> {u1, d1}, path |-> OnePath, content |-> ThreeFiles,
            losses |-> 3]
Beside  == [attempts |-> {u1, u3, d1}, path |-> OnePath, content |-> LongShort,
            losses |-> 1]
Refused == [attempts |-> {u1}, path |-> UnsafePath, content |-> OneFile,
            losses |-> 1]

AllPlans  == {Same, Mixed, Empty, Fetched, Beside, Refused}
=============================================================================
