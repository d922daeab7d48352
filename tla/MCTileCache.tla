----------------------------- MODULE MCTileCache -----------------------------
(* A small instance of the tile cache for TLC.                             *)
EXTENDS TileCache

CONSTANTS t1, t2, t3, osm, own
=============================================================================
