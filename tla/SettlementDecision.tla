-------------------------- MODULE SettlementDecision --------------------------
(***************************************************************************)
(* Settlement on its own: any money a Deal may hold, any decision taken    *)
(* about it.  The inputs are deliberately wider than what the composed     *)
(* system reaches: paid may exceed collected, as the code's recovery path  *)
(* expects.                                                                *)
(***************************************************************************)
EXTENDS Settlement

CONSTANTS
    MaxCents,  \* bound on every amount
    Rates      \* sender_late_compensation_bps, validated to at most 10000

ASSUME DecisionAssumption == MaxCents \in Nat /\ Rates \subseteq 0..10000

VARIABLES
    money,     \* the DealMoney read under the lock, and the Deal's fee mode
    decision,  \* what was asked: the refund, the stated payout if any
    plan       \* the resulting SettlementPlan, or the refusal

decisionVars == <<money, decision, plan>>

Cents == 0..MaxCents
Money == [collected : Cents, paid : Cents, reward : Cents, fee : Cents, mode : FeeModes]
Nothing == [kind |-> "none", refund |-> 0, stated |-> Unstated, owed |-> 0]

PlanFor(refund, stated) ==
    PlanSettlement(money.collected, money.paid, refund, stated,
                   money.mode, money.reward, money.fee)

DecisionInit ==
    /\ money \in Money
    /\ decision = Nothing
    /\ plan = Refuse("undecided")

(* An administrator asks for a refund, and perhaps states the payout.      *)
Decide(refund, stated) ==
    /\ decision = Nothing
    /\ decision' = [kind |-> "award", refund |-> refund, stated |-> stated, owed |-> 0]
    /\ plan' = PlanFor(refund, stated)
    /\ UNCHANGED money

(* build_quote for a late sender: the base reward excludes any boost.      *)
QuoteLate(base, bps, cap) ==
    LET owed == LateCompensation(base, bps, cap, money.collected)
    IN  /\ decision = Nothing
        /\ decision' = [kind |-> "late", refund |-> money.collected - owed,
                        stated |-> owed, owed |-> SmallerOf(base * bps, InBps(cap))]
        /\ plan' = PlanFor(money.collected - owed, owed)
        /\ UNCHANGED money

DecisionNext ==
    \/ \E refund \in -1..(MaxCents + 1), stated \in -2..(MaxCents + 1) :
          Decide(refund, stated)
    \/ \E base \in 0..money.reward, bps \in Rates, cap \in Cents :
          QuoteLate(base, bps, cap)

DecisionSpec == DecisionInit /\ [][DecisionNext]_decisionVars
-----------------------------------------------------------------------------
Planned == plan.refused = ""

(* The three amounts of an accepted plan are never negative and sum to the *)
(* collected cash: the code's own settlement_does_not_reconcile refusal    *)
(* can never be reached.                                                   *)
PlanReconciles ==
    Planned => /\ plan.refund >= 0 /\ plan.payout >= 0 /\ plan.fee >= 0
               /\ plan.refund + plan.payout + plan.fee = money.collected

(* One euro never goes to two people: what the sender gets back and what   *)
(* the traveler has or will have stay within the collected cash, and money *)
(* already sent is always inside the traveler's share.                     *)
NothingPaidTwice ==
    Planned => /\ plan.payout >= money.paid
               /\ plan.refund + money.paid <= money.collected
               /\ plan.refund + plan.payout <= money.collected

(* The operator-recovery refusal says exactly what its comment says: it is *)
(* raised only for a Deal that has sent out more than it ever collected.   *)
RecoveryOnlyWhenOverpaid ==
    plan.refused = "settlement_exceeds_paid_out" => money.paid > money.collected

(* Refunding more never leaves the traveler more: of two decisions in the  *)
(* Deal's fee mode, both accepted, the larger refund has the smaller       *)
(* payout.                                                                 *)
LargerRefundSmallerPayout ==
    decision.kind = "award" /\ decision.stated = Unstated /\ Planned =>
        \A r \in 0..plan.refund :
            LET other == PlanFor(r, Unstated)
            IN  other.refused = "" => plan.payout <= other.payout

(* A late sender's compensation never falls short of the policy's share of *)
(* the base reward, unless the cap or the collected cash bounds it, and    *)
(* pricing it is never refused while nothing was paid out.                 *)
LateCompensationIsWhole ==
    decision.kind = "late" /\ money.paid = 0 =>
        /\ Planned
        /\ InBps(plan.payout) >= SmallerOf(decision.owed, InBps(money.collected))
=============================================================================
