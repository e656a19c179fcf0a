------------------------------- MODULE Custody -------------------------------
(***************************************************************************)
(* What the platform promises about one captured payment, whatever becomes *)
(* of checkouts, events, orders and processes: once the provider has the   *)
(* money it is recorded, it serves one obligation or is owed back, and     *)
(* what is owed back is returned once.  Nothing ever goes the other way.   *)
(***************************************************************************)
CONSTANT Captures

VARIABLE custody     \* where the money of each capture is

Places == {"payer", "provider", "applied", "owed", "returned"}

CustodyInit == custody = [c \in Captures |-> "payer"]

(* The provider charges the payer. *)
Charge(c) == custody[c] = "payer" /\ custody' = [custody EXCEPT ![c] = "provider"]

(* The platform learns of it: the money covers the obligation, or cannot.  *)
Record(c) ==
    /\ custody[c] = "provider"
    /\ \E p \in {"applied", "owed"} : custody' = [custody EXCEPT ![c] = p]

(* The obligations in D fall away: what was applied to them is owed back.  *)
Unwind(D) ==
    /\ D # {}
    /\ \A c \in D : custody[c] = "applied"
    /\ custody' = [c \in Captures |-> IF c \in D THEN "owed" ELSE custody[c]]

Return(c) == custody[c] = "owed" /\ custody' = [custody EXCEPT ![c] = "returned"]

CustodyNext ==
    \/ \E c \in Captures : Charge(c) \/ Record(c) \/ Return(c)
    \/ \E D \in SUBSET Captures : Unwind(D)

CustodySpec == CustodyInit /\ [][CustodyNext]_custody
=============================================================================
