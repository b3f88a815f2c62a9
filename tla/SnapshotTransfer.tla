-------------------------- MODULE SnapshotTransfer --------------------------
(***************************************************************************)
(* What a full snapshot promises, without pages, sessions or staging: a    *)
(* target that is still fresh receives, in one step, one state the source  *)
(* was in when a snapshot of it was taken, or nothing at all.              *)
(***************************************************************************)
EXTENDS Naturals, TLC

CONSTANTS
    Dbis,   \* names of user DBIs
    Own     \* a row the target's own application writes

VARIABLES
    captures,   \* the states of the source captured so far
    target  \* the receiver: data of its user DBIs, progress, local history

(* The rows of DBI d, none when the DBI does not exist. *)
Rows(data, d) == IF d \in DOMAIN data THEN data[d] ELSE {}

(* m holds the DBIs of its manifest.  A complete snapshot also bootstraps  *)
(* the applied cursor, a logical one restores the logical baseline.        *)
Installed(t, m) ==
    [t EXCEPT !.data = m.data @@ t.data,
              !.applied = IF m.complete THEN m.tail ELSE @,
              !.base = IF m.logical THEN m.base ELSE @,
              !.mode = IF m.complete /\ ~m.logical THEN "full" ELSE @]

TransferInit == captures = {}

Take == target' = target /\ \E m \in captures' : captures' = captures \cup {m}

Install ==
    \E m \in captures :
        /\ target.local = 0 /\ target.applied = 0
        /\ \A d \in DOMAIN m.data : Rows(target.data, d) = {}
        /\ m.complete => DOMAIN target.data \subseteq DOMAIN m.data
        /\ target' = Installed(target, m)
        /\ captures' = captures

(* The target's own application writes a row, with or without capture. *)
Write ==
    /\ \E d \in Dbis, seq \in {target.local, 1} :
            target' = [target EXCEPT !.data = (d :> Rows(@, d) \cup {Own}) @@ @,
                                     !.local = seq]
    /\ captures' = captures

TransferNext == Take \/ Install \/ Write

TransferSpec == TransferInit /\ [][TransferNext]_<<captures, target>>
=============================================================================
