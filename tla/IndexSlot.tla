------------------------------ MODULE IndexSlot ------------------------------
(***************************************************************************)
(* What publishing promises to everything that opens index.db: the name     *)
(* always denotes one whole index and moves from one whole index to another *)
(* in a single step, and the backup only ever denotes an index that was     *)
(* live when somebody captured it.                                          *)
(*                                                                          *)
(* An index is represented by its generation, the identity of the build it  *)
(* came from.  The module is abstract: Publish.tla implements it.           *)
(***************************************************************************)
CONSTANTS Gen,   \* identities of finished builds
          None

ASSUME NoneIsNoGen == None \notin Gen

VARIABLES live,    \* generation index.db denotes, None before the first one
          backup,  \* generation index.db.previous denotes
          held     \* generations captured from live on their way to backup

slotVars == <<live, backup, held>>

SlotTypeOK ==
  /\ live \in Gen \union {None}
  /\ backup \in Gen \union {None}
  /\ held \subseteq Gen

SlotInit ==
  /\ live \in Gen \union {None}
  /\ backup = None
  /\ held = {}

(* A build nobody has seen yet becomes the live index.                      *)
InstallNew ==
  /\ \E g \in Gen \ ({live, backup} \union held) : live' = g
  /\ UNCHANGED <<backup, held>>

Capture ==
  /\ live # None
  /\ held' = held \union {live}
  /\ UNCHANGED <<live, backup>>

(* The captured generation becomes the backup; another holder may remain.   *)
SaveBackup ==
  /\ \E g \in held : backup' = g /\ held' \in {held, held \ {g}}
  /\ UNCHANGED live

Discard ==
  /\ \E g \in held : held' = held \ {g}
  /\ UNCHANGED <<live, backup>>

(* Rolling back gives the backup the live name and leaves no backup.        *)
RestoreBackup ==
  /\ backup # None
  /\ live' = backup
  /\ backup' = None
  /\ UNCHANGED held

SlotNext == InstallNew \/ Capture \/ SaveBackup \/ Discard \/ RestoreBackup

SlotSpec == SlotInit /\ [][SlotNext]_slotVars
=============================================================================
