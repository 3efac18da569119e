------------------------------ MODULE OutputLog ------------------------------
(***************************************************************************)
(* What the terminal stream promises for one session: the lines it accepts *)
(* are published once each, in the order in which they were accepted, with *)
(* none left out in between.                                               *)
(***************************************************************************)
EXTENDS Sequences

CONSTANT Lines

VARIABLES accepted, published

LogInit == accepted = <<>> /\ published = <<>>

Accept(l) ==
    /\ accepted' = Append(accepted, l)
    /\ published' \in {published, accepted'}

Publish ==
    /\ published' = accepted
    /\ UNCHANGED accepted

LogSpec ==
    LogInit /\ [][(\E l \in Lines : Accept(l)) \/ Publish]_<<accepted, published>>
=============================================================================
