----------------------------- MODULE MCDelivery -----------------------------
(* Ordered delivery to one receiver until it has everything, and the       *)
(* encoding of whatever travels or is stored, for TLC, one at a time.      *)
EXTENDS OrderedDelivery, MCWireCodec

CONSTANTS Parts, r1, w1

ToFirst == w1 :> r1

VARIABLE part   \* the part that runs

EndToEndInit == part \in Parts /\ DeliveryInit /\ WireInit

EndToEndNext ==
    /\ UNCHANGED part
    /\ \/ part = "delivery" /\ DeliveryNext /\ UNCHANGED wireVars
       \/ part = "wire" /\ WireNext /\ UNCHANGED orderedVars

\* No fair action is enabled in the initial state, so delivery may stutter
\* where it does not run.
EndToEndSpec ==
    /\ EndToEndInit /\ [][EndToEndNext]_<<part, orderedVars, wireVars>>
    /\ DeliveryFairness

-----------------------------------------------------------------------------
(* Properties                                                              *)

\* What one node encodes every other decodes to the same message, only the
\* decoder of its own kind accepts it, a message of another length is refused,
\* and whatever was decoded can be stored and forwarded.
CodecsAgree ==
    WireTypeOK /\ RoundTrip /\ DecodersExclusive /\ LengthExact /\ Reencodable
=============================================================================
