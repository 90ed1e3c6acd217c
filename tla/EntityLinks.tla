----------------------------- MODULE EntityLinks -----------------------------
(***************************************************************************)
(* Entity links from the text to the stored row: the linker's answer for a *)
(* batch (Linking) beside what the pipeline and the scripts make of the    *)
(* stored column (Chips).                                                  *)
(***************************************************************************)
EXTENDS Linking, Chips

EntityLinksSpec ==
    /\ InitLinking /\ InitChips
    /\ [][(LinkNext /\ UNCHANGED chipVars) \/ (ChipsNext /\ UNCHANGED linkVars)]_<<linkVars, chipVars>>

\* An article gets the chips its text stands for, loses none to an outage or an
\* additive pass, and keeps what a repair made of them.
EntityLinksHold == LinksAreFaithful /\ ChipsStand
==============================================================================
