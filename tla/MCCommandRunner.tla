-------------------------- MODULE MCCommandRunner --------------------------
(* One command with two units of announced input, pipes of one unit, and up to
   two units on each output stream, of which a plain call keeps one.         *)
EXTENDS CommandRunner
=============================================================================
