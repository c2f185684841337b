--------------------------- MODULE MCFeedbackLog ---------------------------
(***************************************************************************)
(* FeedbackLog with entries of two problem types that carry zero, one or   *)
(* two inferred preferences.                                               *)
(***************************************************************************)
EXTENDS FeedbackLog

CONSTANTS t1, t2, e1, e2, e3, e4, assignment, scheduling, p1, p2, p3, p4, idle

AllEntries == {e1, e2, e3, e4}
TypeOfEntry == [e \in AllEntries |-> IF e = e3 THEN scheduling ELSE assignment]
PreferencesOfEntry ==
    [e \in AllEntries |-> IF e = e1 THEN <<p1, p2>>
                          ELSE IF e = e2 THEN <<p3>>
                          ELSE IF e = e3 THEN <<p4>>
                          ELSE <<>>]

=============================================================================
