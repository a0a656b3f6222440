------------------------------ MODULE StarBoot ------------------------------
(***************************************************************************)
(* What the rest of a machine may rely on while one star starts: the star  *)
(* publishes Pending, Init or Unknown any number of times, and then either *)
(* Fatal, for good, or Ready, and Ready only after it has told its own     *)
(* main loop to start wrangling.  Module Drivers implements this; module   *)
(* Machine assumes it of every star.                                       *)
(***************************************************************************)
CONSTANT MayFail   \* whether one of the star's drivers may fail to start

VARIABLES
    phase,  \* "boot", "queued" (StartWrangling was sent), "up" or "failed"
    star    \* the star's published status

vars == <<phase, star>>

Init == phase = "boot" /\ star = "Pending"

Boot ==
    /\ phase = "boot"
    /\ star' \in {"Unknown", "Pending", "Init"}
    /\ UNCHANGED phase

BootFails ==
    /\ MayFail
    /\ phase = "boot"
    /\ phase' = "failed"
    /\ star' = "Fatal"

QueueWrangling ==
    /\ phase = "boot"
    /\ phase' = "queued"
    /\ UNCHANGED star

BecomeReady ==
    /\ phase = "queued"
    /\ phase' = "up"
    /\ star' = "Ready"

Next == Boot \/ BootFails \/ QueueWrangling \/ BecomeReady

\* Starting comes to an end, one way or the other.
Spec ==
    /\ Init
    /\ [][Next]_vars
    /\ WF_vars(BootFails \/ QueueWrangling)
    /\ WF_vars(BecomeReady)
=============================================================================
