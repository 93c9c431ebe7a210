----------------------------- MODULE MCSessions -----------------------------
(* Instances of Sessions for TLC. *)
EXTENDS Sessions, TLC

CONSTANTS s1, s2, s3, d1, d2, ch1

Token(code, pin, dev) == [op |-> "token", ch |-> ch1, code |-> code, pin |-> pin, dev |-> dev]

MCLoads ==
    {Token(TRUE, TRUE, d1), Token(TRUE, FALSE, None), Token(FALSE, TRUE, None)}
    \cup [op : {"refresh"}, s : {s1, s2}]
    \cup [op : {"logout", "verify"}, s : {s1}]
    \cup {[op |-> "revoke", d |-> d1], [op |-> "block"]}
=============================================================================
