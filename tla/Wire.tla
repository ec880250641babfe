-------------------------------- MODULE Wire --------------------------------
(***************************************************************************)
(* What a write queue promises those who write: messages go out in the     *)
(* order given, each once, until the connection is cut; and as long as it  *)
(* is not, every one of them goes out.  Session and Connection implement   *)
(* it, which is why System has FIFO channels.                              *)
(***************************************************************************)
EXTENDS Naturals, Sequences

CONSTANT Payloads

VARIABLES
    put,    \* all that was given, in order
    got,    \* all that went out
    up      \* the connection has not been cut

wire == <<put, got, up>>

WireInit == put = <<>> /\ got = <<>> /\ up = TRUE

Put ==
    /\ \E m \in Payloads : put' = Append(put, m)
    /\ UNCHANGED <<got, up>>

(* The last to go out may be the one on its way when the connection is cut. *)
Get ==
    /\ up /\ Len(got) < Len(put)
    /\ got' = Append(got, put[Len(got) + 1])
    /\ up' \in BOOLEAN
    /\ UNCHANGED put

Cut ==
    /\ up' = FALSE
    /\ UNCHANGED <<put, got>>

WireSpec == WireInit /\ [][Put \/ Get \/ Cut]_wire

FairWire == WireSpec /\ WF_wire(Get)
=============================================================================
