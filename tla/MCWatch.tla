-------------------------------- MODULE MCWatch --------------------------------
(* Two files saved up to twice and irrelevant events for ever.                  *)
EXTENDS Watch
================================================================================
