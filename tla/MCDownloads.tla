---------------------------- MODULE MCDownloads -----------------------------
EXTENDS Downloads

(* A file of two chunks and an empty one.                                  *)
Sizes == <<2, 0>>
=============================================================================
