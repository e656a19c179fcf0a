-------------------------------- MODULE Escrow --------------------------------
(***************************************************************************)
(* What the Deal promises about the sender's money, in three amounts and   *)
(* no mechanism: what was captured is held until it is given back to the   *)
(* sender, and what has gone to the traveler went once and stays gone.     *)
(***************************************************************************)
EXTENDS Integers

CONSTANT Captured    \* what the sender paid, a number of cents

VARIABLES
    toSender,    \* promised back to the sender
    toTraveler   \* beyond recall: committed or paid to the traveler

escrowVars == <<toSender, toTraveler>>

EscrowInit == toSender = 0 /\ toTraveler = 0

(* A refund never exceeds what is neither returned nor gone, and nothing   *)
(* returned is ever taken back.                                            *)
GiveBack ==
    \E amount \in 1..(Captured - toSender - toTraveler) :
        /\ toSender' = toSender + amount
        /\ UNCHANGED toTraveler

(* The traveler is paid once, from what has not been returned.             *)
PayTraveler ==
    /\ toTraveler = 0
    /\ \E amount \in 1..(Captured - toSender) : toTraveler' = amount
    /\ UNCHANGED toSender

EscrowSpec == EscrowInit /\ [][GiveBack \/ PayTraveler]_escrowVars
=============================================================================
