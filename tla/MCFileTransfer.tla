--------------------------- MODULE MCFileTransfer ---------------------------
(* One file of two chunks, two contacts, two functions under way at once.  *)
EXTENDS FileTransfer
CONSTANTS f1, p1, p2, k1, k2
=============================================================================
