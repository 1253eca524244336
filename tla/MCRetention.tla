---------------------------- MODULE MCRetention ----------------------------
(* One subject more than there is room for, days within and beyond the     *)
(* window, ties within a day and two labels for one place.                 *)
EXTENDS Retention, TLC

CONSTANTS u1, u2, u3

MCSubjects == {u1, u2, u3}
Active(s, t, c, fingerprint) ==
    [kind |-> "activity", subject |-> s, salt |-> fingerprint, at |-> t, channel |-> c]
Converts(s, t, g) ==
    [kind |-> "conversion", subject |-> s, salt |-> "salt", at |-> t, goal |-> g]
MCBatches ==
    {<<Active(s, t, c, "salt")>> : s \in MCSubjects, t \in {0, 1, 4, 6},
                                   c \in {NoChannel, 1, 2}}
    \cup {<<Converts(s, t, g)>> : s \in MCSubjects, t \in {0, 4}, g \in {1, 2}}
    \cup {<<Active(s, 0, 1, "salt"), Active(s, 0, 2, fingerprint)>> :
             s \in MCSubjects, fingerprint \in {"salt", "other"}}
SubjectSymmetry == Permutations(MCSubjects)
=============================================================================
