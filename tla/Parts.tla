------------------------------- MODULE Parts --------------------------------
(* The part of nrg a behaviour of LocalTools and HostTools is about: all others
   stand still.                                                              *)
EXTENDS Integers, Sequences

CONSTANTS
  Parts,
  Procs,         \* processes on key files, and runs on one release root
  None           \* an absent key, name or value

VARIABLE part
=============================================================================
