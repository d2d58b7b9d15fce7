---------------------------- MODULE IndexedChain ----------------------------
(***************************************************************************)
(* What a backfill walk promises the rest of the explorer about the        *)
(* `blocks` table: as long as the walk is intact, the table is an unbroken *)
(* run of heights from genesis that only grows at its top, by a whole      *)
(* group of blocks at a time, up to the end of the range.  It is the       *)
(* promise HistoricalBackfiller.run() relies on when it resumes a walk     *)
(* from max(height) + 1.  Once a block has been lost only what is there    *)
(* is kept.                                                                *)
(***************************************************************************)
EXTENDS Integers

CONSTANTS
  From,   \* first height of the walk; everything below it is indexed
  To      \* last height of the walk

VARIABLES
  blocks,   \* heights with a row in the `blocks` table
  intact    \* no block of the walk has been lost

vars == <<blocks, intact>>

Init == blocks = 0 .. (From - 1) /\ intact = TRUE

(* One committed group: the table now reaches up to height h. *)
Extend == /\ intact /\ intact' = TRUE
          /\ \E h \in From .. To : h \notin blocks /\ blocks' = 0 .. h

Lose == intact' = FALSE /\ blocks \subseteq blocks'

Next == Extend \/ Lose

Spec == Init /\ [][Next]_vars
=============================================================================
