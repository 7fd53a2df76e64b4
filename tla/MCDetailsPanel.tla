--------------------------- MODULE MCDetailsPanel ---------------------------
(* The details panel with two interchangeable torrents. *)
EXTENDS DetailsPanel, TLC

TorrentSymmetry == Permutations(Torrents)
=============================================================================
