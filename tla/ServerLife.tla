----------------------------- MODULE ServerLife -----------------------------
(***************************************************************************)
(* Server's sessions are told by one word each, and its actions change it  *)
(* as they need.  Here they are held against the life that Session, the    *)
(* class in detail, was shown to lead.                                     *)
(***************************************************************************)
EXTENDS Server

L(p) == INSTANCE Life WITH
            Again <- "address_reuse" \in Mishaps, life <- session[p]

(* Whatever players and handlers do, a session lives as BoostSession and BoostRoom
   make it live: one that reads no more never reads again, one that the
   room let go of is not kept by a write, and only a new one is ever at a dead
   one's address. *)
SessionsLive == [][\A p \in Participants : [L(p)!LifeNext]_(session[p])]_vars
=============================================================================
