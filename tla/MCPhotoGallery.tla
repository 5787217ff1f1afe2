--------------------------- MODULE MCPhotoGallery ---------------------------
(* A small instance of PhotoGallery for TLC.                               *)
EXTENDS PhotoGallery, TLC

Interchangeable == Permutations(Photos) \cup Permutations(Reqs)
=============================================================================
