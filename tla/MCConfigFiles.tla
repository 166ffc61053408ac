---------------------------- MODULE MCConfigFiles ----------------------------
(* ConfigFiles with a few contents of each file, from which every kind of change follows:
   a device added, removed, replaced, changed, left as it was. *)
EXTENDS ConfigFiles

CONSTANTS m1, m2, p1, s1, s2

MCPlacementFiles == {[m \in {m1} |-> p1], [m \in {m2} |-> p1]}

To(segment, scheduled) == [segment |-> segment, scheduled |-> scheduled]

MCBehaviorFiles ==
    {[m \in {m1} |-> To(s1, FALSE)],
     [m \in {m1, m2} |-> IF m = m1 THEN To(s2, TRUE) ELSE To(s1, FALSE)],
     [m \in {m2} |-> To(None, TRUE)]}

=============================================================================
