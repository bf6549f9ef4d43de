------------------------------ MODULE MCSession ------------------------------
(* A small instance of Session for TLC. *)
EXTENDS Session

EveryCall == (CallsOf("daemon") \cup CallsOf("server")) \ {"set_ip", "close"}

=============================================================================
