------------------------ MODULE MCCommandBoundaries ------------------------
(* One child process; the constants are in the cfg files.                  *)
EXTENDS CommandBoundaries
=============================================================================
