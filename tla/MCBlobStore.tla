------------------------------ MODULE MCBlobStore ------------------------------
EXTENDS BlobStore, TLC

CONSTANTS v1, v2

\* A GIF, and a text with the file name of a picture that blob.go takes for a
\* content type and does not escape.
MCContentType == v1 :> "image/gif" @@ v2 :> "text/plain"
MCWords == v1 :> {"image/", "gif"} @@ v2 :> Marks

Symmetry == Permutations(Procs \ Tools)
=============================================================================
