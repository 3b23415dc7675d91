-------------------------------- MODULE Disk --------------------------------
(***************************************************************************)
(* What the modules of single files have in common: a file is put down in  *)
(* pieces, a call to the system may fail, and the core may die.            *)
(***************************************************************************)
EXTENDS Naturals, Sequences

CONSTANTS Pieces,       \* the fewest writes it may take to put down a document or a line
          CallsFail,    \* whether a call to the system may fail
          MostDeaths,
          Nobody        \* no thread

ASSUME DiskAssumption ==
    Pieces \in Nat \ {0} /\ CallsFail \in BOOLEAN /\ MostDeaths \in Nat
============================================================================
