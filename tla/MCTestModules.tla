--------------------------- MODULE MCTestModules ---------------------------
(* Instance of TestModules for TLC: one name for each vector.                  *)
EXTENDS TestModules, TLC

CONSTANTS TS, read2, mkdir2

ModOfAll == (read2 :> TS) @@ (mkdir2 :> TS)
NumOfAll == (read2 :> 0) @@ (mkdir2 :> 83)
RegistersAll == <<read2, mkdir2>>
MappedAll == <<<<read2>>, <<mkdir2>>>>
=============================================================================
