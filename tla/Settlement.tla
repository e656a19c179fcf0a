------------------------------ MODULE Settlement ------------------------------
(***************************************************************************)
(* The money arithmetic of finance/settlement.py: an administrator's       *)
(* decision turned into three amounts, in integer euro cents.  A plan is a *)
(* record; a refusal is the plan whose `refused' names the error code.     *)
(***************************************************************************)
EXTENDS Integers

SmallerOf(a, b) == IF a <= b THEN a ELSE b
LargerOf(a, b)  == IF a >= b THEN a ELSE b

FeeModes == {"proportional", "platform_waives"}
Unstated == -1    \* traveler_payout_eur_cents is None

Refuse(code)  == [refused |-> code, refund |-> 0, payout |-> 0, fee |-> 0]
Plan(r, p, f) == [refused |-> "", refund |-> r, payout |-> p, fee |-> f]

(* What the platform can still move.                                       *)
Settleable(collected, paid) == LargerOf(0, collected - paid)

(* What is left after the refund, shared by the Deal's fee mode.           *)
TravelerShare(mode, remaining, reward, fee) ==
    IF mode = "platform_waives" THEN SmallerOf(remaining, reward)
    ELSE IF reward + fee = 0 THEN remaining
    ELSE (remaining * reward) \div (reward + fee)

(* Money already sent is part of the traveler's share: the shortfall comes *)
(* out of the platform's.                                                  *)
BugForgetPaidOut(refund, remaining, payout, paid) == Plan(refund, payout, remaining - payout)

BugFeeNotReduced(refund, remaining, payout, paid) ==
    IF paid <= payout THEN Plan(refund, payout, remaining - payout)
    ELSE IF remaining - payout < paid - payout THEN Refuse("settlement_exceeds_paid_out")
    ELSE Plan(refund, paid, remaining - payout)

CoverPaidOut(refund, remaining, payout, paid) ==
    IF paid <= payout THEN Plan(refund, payout, remaining - payout)
    ELSE IF remaining - payout < paid - payout THEN Refuse("settlement_exceeds_paid_out")
    ELSE Plan(refund, paid, remaining - paid)

BugShareTheRefund(collected, paid, refund, stated, mode, reward, fee) ==
    IF refund < 0 \/ refund > Settleable(collected, paid)
    THEN Refuse("settlement_refund_out_of_range")
    ELSE CoverPaidOut(refund, collected - refund, TravelerShare(mode, refund, reward, fee), paid)

PlanSettlement(collected, paid, refund, stated, mode, reward, fee) ==
    LET remaining == collected - refund
    IN  IF refund < 0 \/ refund > Settleable(collected, paid)
        THEN Refuse("settlement_refund_out_of_range")
        ELSE IF stated # Unstated /\ (stated < 0 \/ stated > remaining)
        THEN Refuse("settlement_payout_out_of_range")
        ELSE CoverPaidOut(refund, remaining,
                          IF stated # Unstated THEN stated
                          ELSE TravelerShare(mode, remaining, reward, fee), paid)

(* The scale of a rate in basis points: ten thousandths of a cent.         *)
InBps(cents) == cents * 10000

(* build_quote: the compensation of a late sender, rounded up, in cents.   *)
BugRoundDown(base, bps) == (base * bps) \div 10000
CeilBps(base, bps) == (base * bps + 9999) \div 10000

LateCompensation(base, bps, cap, collected) ==
    SmallerOf(SmallerOf(CeilBps(base, bps), cap), collected)
=============================================================================
