----------------------------- MODULE MCAccounts -----------------------------
(***************************************************************************)
(* Accounts for TLC: two people who want the same address or two, a login  *)
(* with a right or a wrong password, and a person who is a customer, staff *)
(* and an administrator in turn and reads her own appointment or another   *)
(* customer's.                                                             *)
(***************************************************************************)
EXTENDS Accounts

CONSTANTS ann, bob, rose, lily, north, south, none, r1, r2

Sent(email, password) == [email |-> email, password |-> password]
MCCredentials == {Sent(ann, rose), Sent(ann, lily), Sent(bob, rose)}

Post(role, dealership) == [role |-> role, dealership |-> dealership]
MCNewPost == Post("CUSTOMER", none)
MCPosts == {MCNewPost, Post("STAFF", north), Post("ADMIN", none)}

MCAppointments == {[customer |-> r1, dealership |-> south],
                   [customer |-> r2, dealership |-> north]}

(* A token of 0 is good at 30 and not at 31.                               *)
MCInstants == {0, 30, 31}
DbFaults == {"db"}
=============================================================================
