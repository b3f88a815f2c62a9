------------------------------- MODULE MCPath -------------------------------
(***************************************************************************)
(* What a change meets on its way to a logical table of another node, for  *)
(* TLC, one part at a time: capture and apply over the same schema         *)
(* markers, ordered delivery, and recovery of a fresh receiver next to it. *)
(***************************************************************************)
EXTENDS LogicalCapture, LogicalApply, LogicalRecovery

CONSTANTS Parts, N, R, ord, uno, D1, D2, fa, fb, first, other, w1, w2

-----------------------------------------------------------------------------
(* An ordered and an unordered table, one remote origin, and envelopes     *)
(* that meet every check: two in order, one with the sequence of another,  *)
(* one that reuses an identity for other changes, one from this node and   *)
(* one for another database.                                               *)

MCSchemas == <<ord, uno>>
MCCapture == (ord :> 1) @@ (uno :> 3)
MCVersions == (ord :> {1}) @@ (uno :> {3, 4})
Rec(v, d, o) == [version |-> v, dbi |-> d, origin |-> o]
MCRecords == (ord :> {Rec(1, ord, N), Rec(1, ord, R)})
          @@ (uno :> {Rec(3, uno, None), Rec(4, uno, None), Rec(3, ord, None)})

Env(o, n, f, h, ch) ==
    [origin |-> o, seq |-> n, frame |-> f, here |-> h, changes |-> ch]
Ch(s, v) == [schema |-> s, version |-> v]
MCEnvelopes ==
    {Env(R, 1, fa, TRUE, <<Ch(uno, 3), Ch(ord, 1)>>),
     Env(R, 2, fa, TRUE, <<Ch(ord, 1)>>),
     Env(R, 1, fb, TRUE, <<Ch(uno, 4)>>),
     Env(R, 1, fb, TRUE, <<Ch(uno, 3), Ch(uno, 3)>>),
     Env(N, 1, fa, TRUE, <<Ch(uno, 3)>>),
     Env(R, 2, fb, FALSE, <<Ch(uno, 3)>>)}

-----------------------------------------------------------------------------
(* Two callers dispatch the route of other; first is recovered from the    *)
(* origin or from other, or other from first.                              *)

ToC == [w \in {w1, w2} |-> other]

DeliveryPart == DeliveryNext /\ route'[first] = route[first] /\ UNCHANGED <<baseline, base>>
RecoveryPart == RecoveryNext /\ disp'[w2] = disp[w2] /\ journal' # MaxEvents

-----------------------------------------------------------------------------
VARIABLE part   \* the part that runs

PathInit ==
    /\ part \in Parts
    /\ SchemaInit /\ CaptureInit /\ ApplyInit /\ RecoveryInit
    /\ legacy => part = "capture"

PathNext ==
    /\ UNCHANGED part
    /\ \/ /\ part = "capture" /\ CaptureNext
          /\ UNCHANGED <<adapter, deliveryVars, recoveryVars>>
       \/ /\ part = "apply" /\ ApplyNext
          /\ UNCHANGED <<captureVars, recoveryVars>>
       \/ /\ part = "delivery" /\ DeliveryPart
          /\ UNCHANGED <<applyVars, captureVars>>
       \/ /\ part = "recovery" /\ RecoveryPart
          /\ UNCHANGED <<applyVars, captureVars>>

PathSpec ==
    PathInit /\ [][PathNext]_<<part, applyVars, captureVars, recoveryVars>>

-----------------------------------------------------------------------------
(* Properties                                                              *)

\* Every variable of the path stays in its type.
PathTypeOK == CaptureTypeOK /\ ApplyTypeOK /\ DeliveryTypeOK

\* An envelope is applied whole and at most once, and in the order of its
\* origin where a table asks for it.
AppliedWholeInOrder == AppliedWhole /\ OrderedInOrder

\* The durable schema marker governs who may change a table: a local writer
\* and an applied envelope alike, at the moment their transaction commits.
AuthorityEnforced == [][LocalAuthority /\ MarkerGoverns]_<<applyVars, captureVars>>
=============================================================================
