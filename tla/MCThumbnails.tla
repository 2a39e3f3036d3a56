----------------------------- MODULE MCThumbnails -----------------------------
EXTENDS Thumbnails, TLC
MCSymmetry == Permutations(Workers)
=============================================================================
