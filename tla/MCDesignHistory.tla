----------------------------- MODULE MCDesignHistory -----------------------------
(* Small instances of DesignHistory for TLC.                                *)
EXTENDS DesignHistory, TLC

CONSTANTS w1, p1, lamp, shade, accepted

Alike == Permutations(Path)
==================================================================================
