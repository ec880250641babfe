------------------------------ MODULE MCWindow ------------------------------
(* Small instances of Window for TLC. *)
EXTENDS Window

(* One ship of each length. *)
MCQuota == [n \in Lengths |-> 1]
=============================================================================
