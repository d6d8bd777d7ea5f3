------------------------------ MODULE MCUsers -------------------------------
(* Instances of Users: the password stands for the password, the groups and the token. *)
EXTENDS Users, TLC

CONSTANTS n1, n2, pad, v1, v2

MCFields == {"password", SendTo}

Asking(op, name, new, password, sendTo) ==
    [op |-> op, name |-> name, new |-> new, change |-> [f \in MCFields |-> IF f = SendTo THEN sendTo ELSE password]]

\* The name pad is n1 with a blank before it.
MCTrim == [n \in Names |-> IF n = pad THEN n1 ELSE n]

\* A user is added under the name that another one, with a new receiver of codes, is to get; one
\* is deleted, and one added whose name is the same once it is trimmed.
MCAsked == {Asking("add", n2, n2, v1, v1), Asking("update", n1, n2, Keep, v2),
            Asking("delete", n1, n1, Keep, Keep), Asking("add", pad, pad, v1, v1)}

MCDrafts == {[n \in Names |-> IF n = n1 THEN [f \in MCFields |-> v1] ELSE NoUser]}
=============================================================================
