---------------------------- MODULE MCCompliance ----------------------------
(* An instance of Compliance for TLC. *)
EXTENDS Compliance, TLC

CONSTANTS k1, s1

MCActions ==
    [op : {"block", "unblock", "pay", "transfer", "submit"}]
    \cup [op : {"review"}, verdict : {"approved", "rejected"}]
    \cup [op : {"create", "hire"}, key : {k1}]
    \cup [op : {"revoke"}, key : {k1}, g : {k1}]
    \cup [op : {"revoke"}, key : {"none"}, g : {s1}]
=============================================================================
