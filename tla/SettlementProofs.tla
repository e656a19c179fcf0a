--------------------------- MODULE SettlementProofs ---------------------------
(***************************************************************************)
(* What the arithmetic of a settlement guarantees for every amount, and    *)
(* not only for the cents TLC can enumerate; and from it, the properties   *)
(* of SettlementDecision.                                                  *)
(***************************************************************************)
EXTENDS SettlementDecision, TLAPS

LEMMA TimesMonotone ==
    ASSUME NEW a \in Int, NEW b \in Int, NEW c \in Nat, a <= b
    PROVE  a * c <= b * c
  <1>1. (b - a) * c >= 0
    BY SMT
  <1>2. (b - a) * c = b * c - a * c
    BY SMT
  <1> QED BY <1>1, <1>2, SMT

LEMMA QuotientBounded ==
    ASSUME NEW n \in Nat, NEW r \in Nat, NEW f \in Nat, r + f # 0
    PROVE  (n * r) \div (r + f) \in 0..n
  <1> DEFINE q == (n * r) \div (r + f)
  <1>1. n * r \in Nat /\ r + f \in Nat \ {0}
    BY SMT
  <1>2. q \in Int /\ q >= 0 /\ q * (r + f) <= n * r
    BY <1>1, SMT
  <1>3. r * n <= (r + f) * n
    BY TimesMonotone, SMT
  <1>4. SUFFICES ASSUME q >= n + 1 PROVE FALSE
    BY <1>2, SMT
  <1>5. (n + 1) * (r + f) <= q * (r + f)
    <2> HIDE DEF q
    <2> QED BY <1>1, <1>2, <1>4, TimesMonotone, SMT
  <1>6. (n + 1) * (r + f) = (r + f) * n + (r + f)
    BY SMT
  <1> HIDE DEF q
  <1>7. n * r = r * n
    BY SMT
  <1> QED BY <1>1, <1>2, <1>3, <1>5, <1>6, <1>7, SMT

(* The traveler's share of what is left never exceeds it.                  *)
LEMMA ShareBounded ==
    ASSUME NEW mode \in FeeModes, NEW remaining \in Nat, NEW reward \in Nat, NEW fee \in Nat
    PROVE  TravelerShare(mode, remaining, reward, fee) \in 0..remaining
  <1>1. CASE mode = "platform_waives"
    BY <1>1, SMT DEF TravelerShare, SmallerOf
  <1>2. CASE mode # "platform_waives" /\ reward + fee = 0
    BY <1>2, SMT DEF TravelerShare
  <1>3. CASE mode # "platform_waives" /\ reward + fee # 0
    BY <1>3, QuotientBounded DEF TravelerShare
  <1> QED BY <1>1, <1>2, <1>3

LEMMA RefuseFields ==
    ASSUME NEW e
    PROVE  /\ Refuse(e).refused = e
           /\ Refuse(e).refund = 0 /\ Refuse(e).payout = 0 /\ Refuse(e).fee = 0
  BY Zenon DEF Refuse

(* What an award, accepted or refused, must satisfy.                       *)
SoundAward(award, collected, paid) ==
    /\ award.refused = "" =>
          /\ award.refund \in Nat /\ award.payout \in Nat /\ award.fee \in Nat
          /\ award.refund + award.payout + award.fee = collected
          /\ award.payout >= paid
    /\ award.refused = "settlement_exceeds_paid_out" => paid > collected

LEMMA PlanIsSound ==
    ASSUME NEW collected \in Nat, NEW paid \in Nat, NEW r \in Nat, NEW p \in Nat, NEW f \in Nat,
           r + p + f = collected, p >= paid
    PROVE  SoundAward(Plan(r, p, f), collected, paid)
  <1> DEFINE award == Plan(r, p, f)
  <1>1. award.refused = "" /\ award.refund = r /\ award.payout = p /\ award.fee = f
    BY Zenon DEF Plan
  <1> HIDE DEF award
  <1>2. SoundAward(award, collected, paid)
    BY <1>1 DEF SoundAward
  <1> QED BY <1>2 DEF award

LEMMA RefusalIsSound ==
    ASSUME NEW collected \in Nat, NEW paid \in Nat, NEW e, e # "",
           e = "settlement_exceeds_paid_out" => paid > collected
    PROVE  SoundAward(Refuse(e), collected, paid)
  BY RefuseFields, Zenon DEF SoundAward

(* Covering what was already sent keeps the three amounts together.        *)
LEMMA CoverIsSound ==
    ASSUME NEW collected \in Nat, NEW paid \in Nat, NEW refund \in Nat, refund <= collected,
           refund + paid <= collected \/ paid > collected,
           NEW remaining \in Nat, remaining = collected - refund, NEW share \in 0..remaining
    PROVE  SoundAward(CoverPaidOut(refund, remaining, share, paid), collected, paid)
  <1>1. CASE paid <= share
    <2>1. remaining - share \in Nat /\ share \in Nat
      BY SMT
    <2>2. refund + share + (remaining - share) = collected
      BY SMT
    <2>3. SoundAward(Plan(refund, share, remaining - share), collected, paid)
      BY <1>1, <2>1, <2>2, PlanIsSound
    <2> QED BY <1>1, <2>3, Zenon DEF CoverPaidOut
  <1>2. CASE ~(paid <= share) /\ remaining - share < paid - share
    <2>1. paid > collected
      BY <1>2, SMT
    <2>2. SoundAward(Refuse("settlement_exceeds_paid_out"), collected, paid)
      BY <2>1, RefusalIsSound, Zenon
    <2> QED BY <1>2, <2>2, Zenon DEF CoverPaidOut
  <1>3. CASE ~(paid <= share) /\ ~(remaining - share < paid - share)
    <2>1. remaining - paid \in Nat
      BY <1>3, SMT
    <2>2. refund + paid + (remaining - paid) = collected
      BY SMT
    <2>3. paid >= paid
      BY SMT
    <2>4. SoundAward(Plan(refund, paid, remaining - paid), collected, paid)
      BY <2>1, <2>2, <2>3, PlanIsSound
    <2> QED BY <1>3, <2>4, Zenon DEF CoverPaidOut
  <1> QED BY <1>1, <1>2, <1>3

(* Every plan, whatever was asked of it.                                   *)
THEOREM EveryPlanIsSound ==
    ASSUME NEW collected \in Nat, NEW paid \in Nat, NEW refund \in Int, NEW stated \in Int,
           NEW mode \in FeeModes, NEW reward \in Nat, NEW fee \in Nat
    PROVE  SoundAward(PlanSettlement(collected, paid, refund, stated, mode, reward, fee),
                      collected, paid)
  <1>1. CASE refund < 0 \/ refund > Settleable(collected, paid)
    <2>1. SoundAward(Refuse("settlement_refund_out_of_range"), collected, paid)
      BY RefusalIsSound, Zenon
    <2> QED BY <1>1, <2>1, Zenon DEF PlanSettlement
  <1>2. CASE /\ ~(refund < 0 \/ refund > Settleable(collected, paid))
             /\ stated # Unstated /\ (stated < 0 \/ stated > collected - refund)
    <2>1. SoundAward(Refuse("settlement_payout_out_of_range"), collected, paid)
      BY RefusalIsSound, Zenon
    <2> QED BY <1>2, <2>1, Zenon DEF PlanSettlement
  <1>3. CASE /\ ~(refund < 0 \/ refund > Settleable(collected, paid))
             /\ ~(stated # Unstated /\ (stated < 0 \/ stated > collected - refund))
    <2>1. PICK remaining \in Int : remaining = collected - refund
      BY SMT
    <2>2. refund \in Nat /\ remaining \in Nat /\ refund <= collected
          /\ (refund + paid <= collected \/ paid > collected)
      BY <1>3, <2>1, SMT DEF Settleable, LargerOf
    <2>3. PICK share : share = IF stated # Unstated THEN stated
                               ELSE TravelerShare(mode, remaining, reward, fee)
      OBVIOUS
    <2>4. share \in 0..remaining
      <3>1. CASE stated # Unstated
        BY <1>3, <2>1, <2>2, <2>3, <3>1, SMT
      <3>2. CASE stated = Unstated
        <4>1. TravelerShare(mode, remaining, reward, fee) \in 0..remaining
          BY <2>2, ShareBounded
        <4> QED BY <2>3, <3>2, <4>1, Zenon
      <3> QED BY <3>1, <3>2
    <2>5. SoundAward(CoverPaidOut(refund, remaining, share, paid), collected, paid)
      BY <2>1, <2>2, <2>4, CoverIsSound
    <2>6. PlanSettlement(collected, paid, refund, stated, mode, reward, fee)
            = CoverPaidOut(refund, remaining, share, paid)
      BY <1>3, <2>1, <2>3, Zenon DEF PlanSettlement
    <2> QED BY <2>5, <2>6, Zenon
  <1> QED BY <1>1, <1>2, <1>3

(* The compensation of a late sender is a number of cents.                 *)
LEMMA CompensationIsAnAmount ==
    ASSUME NEW base \in Nat, NEW bps \in Nat, NEW cap \in Nat, NEW collected \in Nat
    PROVE  LateCompensation(base, bps, cap, collected) \in Int
  <1>1. base * bps + 9999 \in Nat
    BY SMT
  <1>2. PICK n \in Nat : n = base * bps + 9999
    BY <1>1
  <1>3. n \div 10000 \in Int
    BY SMT
  <1>4. CeilBps(base, bps) \in Int
    BY <1>2, <1>3 DEF CeilBps
  <1> QED BY <1>4, SMT DEF LateCompensation, SmallerOf

(* Dividing, and so the traveler's share, is monotone.                     *)
LEMMA QuotientMonotone ==
    ASSUME NEW a \in Nat, NEW b \in Nat, NEW d \in Nat \ {0}, a <= b
    PROVE  a \div d <= b \div d
  <1>1. PICK p \in Int : p = a \div d /\ p * d <= a
    BY SMT
  <1>2. PICK q \in Int : q = b \div d /\ b < q * d + d
    BY SMT
  <1>3. SUFFICES ASSUME q + 1 <= p PROVE FALSE
    BY <1>1, <1>2, SMT
  <1>4. (q + 1) * d <= p * d
    BY <1>3, TimesMonotone
  <1>5. (q + 1) * d = q * d + d
    BY SMT
  <1> QED BY <1>1, <1>2, <1>4, <1>5, SMT

LEMMA ShareMonotone ==
    ASSUME NEW mode \in FeeModes, NEW a \in Nat, NEW b \in Nat, a <= b,
           NEW reward \in Nat, NEW fee \in Nat
    PROVE  TravelerShare(mode, a, reward, fee) <= TravelerShare(mode, b, reward, fee)
  <1>1. CASE mode = "platform_waives"
    BY <1>1, SMT DEF TravelerShare, SmallerOf
  <1>2. CASE mode # "platform_waives" /\ reward + fee = 0
    BY <1>2, SMT DEF TravelerShare
  <1>3. CASE mode # "platform_waives" /\ reward + fee # 0
    <2>1. PICK x \in Nat, y \in Nat : x = a * reward /\ y = b * reward
      BY SMT
    <2>2. x <= y
      BY <2>1, TimesMonotone
    <2>3. reward + fee \in Nat \ {0}
      BY <1>3
    <2>4. x \div (reward + fee) <= y \div (reward + fee)
      BY <2>2, <2>3, QuotientMonotone
    <2> QED BY <1>3, <2>1, <2>4, Zenon DEF TravelerShare
  <1> QED BY <1>1, <1>2, <1>3

LEMMA RefundInRange ==
    ASSUME NEW collected \in Nat, NEW paid \in Nat, NEW refund \in Int,
           ~(refund < 0 \/ refund > Settleable(collected, paid))
    PROVE  refund \in 0..collected
  BY SMT DEF Settleable, LargerOf

(* An accepted award that states no payout gives the traveler the share of *)
(* what is left, or what was already sent when that is more.               *)
AtLeast(paid, share) == IF paid <= share THEN share ELSE paid

(* What an award refunds and pays once it is accepted.                     *)
Gives(award, refund, payout) ==
    award.refused = "" => award.refund = refund /\ award.payout = payout

LEMMA PlanGives ==
    ASSUME NEW r, NEW p, NEW f
    PROVE  Plan(r, p, f).refused = "" /\ Gives(Plan(r, p, f), r, p)
  <1> DEFINE award == Plan(r, p, f)
  <1>1. award.refused = "" /\ award.refund = r /\ award.payout = p
    BY Zenon DEF Plan
  <1> HIDE DEF award
  <1>2. award.refused = "" /\ Gives(award, r, p)
    BY <1>1, Zenon DEF Gives
  <1> QED BY <1>2 DEF award

LEMMA RefusalGives ==
    ASSUME NEW e, e # "", NEW r, NEW p
    PROVE  Gives(Refuse(e), r, p)
  BY RefuseFields, Zenon DEF Gives

LEMMA CoverGives ==
    ASSUME NEW refund, NEW remaining, NEW share, NEW paid
    PROVE  Gives(CoverPaidOut(refund, remaining, share, paid), refund, AtLeast(paid, share))
  <1>1. CASE paid <= share
    <2>1. Gives(Plan(refund, share, remaining - share), refund, share)
      BY PlanGives
    <2>2. AtLeast(paid, share) = share
      BY <1>1, Zenon DEF AtLeast
    <2> QED BY <1>1, <2>1, <2>2, Zenon DEF CoverPaidOut
  <1>2. CASE ~(paid <= share) /\ remaining - share < paid - share
    <2>1. Gives(Refuse("settlement_exceeds_paid_out"), refund, AtLeast(paid, share))
      BY RefusalGives, Zenon
    <2> QED BY <1>2, <2>1, Zenon DEF CoverPaidOut
  <1>3. CASE ~(paid <= share) /\ ~(remaining - share < paid - share)
    <2>1. Gives(Plan(refund, paid, remaining - paid), refund, paid)
      BY PlanGives
    <2>2. AtLeast(paid, share) = paid
      BY <1>3, Zenon DEF AtLeast
    <2> QED BY <1>3, <2>1, <2>2, Zenon DEF CoverPaidOut
  <1> QED BY <1>1, <1>2, <1>3, Zenon

(* What plan_settlement decides when the administrator states no payout.   *)
SharesTheRest(award, collected, paid, refund, mode, reward, fee) ==
    award.refused = "" =>
        /\ refund \in 0..collected
        /\ award.refund = refund
        /\ award.payout = AtLeast(paid, TravelerShare(mode, collected - refund, reward, fee))

LEMMA AwardWithoutStatedPayout ==
    ASSUME NEW collected \in Nat, NEW paid \in Nat, NEW refund \in Int,
           NEW mode, NEW reward, NEW fee
    PROVE  SharesTheRest(PlanSettlement(collected, paid, refund, Unstated, mode, reward, fee),
                         collected, paid, refund, mode, reward, fee)
  <1>1. CASE refund < 0 \/ refund > Settleable(collected, paid)
    <2>1. SharesTheRest(Refuse("settlement_refund_out_of_range"),
                        collected, paid, refund, mode, reward, fee)
      BY RefuseFields, Zenon DEF SharesTheRest
    <2> QED BY <1>1, <2>1, Zenon DEF PlanSettlement
  <1>2. CASE ~(refund < 0 \/ refund > Settleable(collected, paid))
    <2>1. PICK share : share = TravelerShare(mode, collected - refund, reward, fee)
      OBVIOUS
    <2>2. refund \in 0..collected
      BY <1>2, RefundInRange
    <2>3. Gives(CoverPaidOut(refund, collected - refund, share, paid), refund, AtLeast(paid, share))
      BY CoverGives
    <2>4. SharesTheRest(CoverPaidOut(refund, collected - refund, share, paid),
                        collected, paid, refund, mode, reward, fee)
      BY <2>1, <2>2, <2>3, Zenon DEF SharesTheRest, Gives
    <2> QED BY <1>2, <2>1, <2>4, Zenon DEF PlanSettlement
  <1> QED BY <1>1, <1>2

(* Whatever payout was stated, an accepted award refunds what was asked.   *)
Refunds(award, refund) == award.refused = "" => award.refund = refund

LEMMA AwardRefundsWhatWasAsked ==
    ASSUME NEW collected, NEW paid, NEW refund, NEW stated, NEW mode, NEW reward, NEW fee
    PROVE  Refunds(PlanSettlement(collected, paid, refund, stated, mode, reward, fee), refund)
  <1> DEFINE award == PlanSettlement(collected, paid, refund, stated, mode, reward, fee)
  <1>1. PICK share : share = IF stated # Unstated THEN stated
                             ELSE TravelerShare(mode, collected - refund, reward, fee)
    OBVIOUS
  <1>2. \/ award = Refuse("settlement_refund_out_of_range")
        \/ award = Refuse("settlement_payout_out_of_range")
        \/ award = CoverPaidOut(refund, collected - refund, share, paid)
    BY <1>1, Zenon DEF PlanSettlement
  <1>3. /\ Refuse("settlement_refund_out_of_range").refused # ""
        /\ Refuse("settlement_payout_out_of_range").refused # ""
    <2>1. \A e : Refuse(e).refused = e
      BY RefuseFields
    <2>2. /\ "settlement_refund_out_of_range" # ""
          /\ "settlement_payout_out_of_range" # ""
      OBVIOUS
    <2> QED BY <2>1, <2>2, Zenon
  <1>4. Gives(CoverPaidOut(refund, collected - refund, share, paid), refund, AtLeast(paid, share))
    BY CoverGives
  <1> HIDE DEF award
  <1>5. Refunds(award, refund)
    BY <1>2, <1>3, <1>4, Zenon DEF Gives, Refunds
  <1> QED BY <1>5 DEF award

(* Rounding up never gives less than the exact share of the base.          *)
LEMMA CeilBpsIsEnough ==
    ASSUME NEW base \in Nat, NEW bps \in Nat
    PROVE  CeilBps(base, bps) \in Nat /\ CeilBps(base, bps) * 10000 >= base * bps
  <1>1. PICK n \in Nat : n = base * bps
    BY SMT
  <1>2. (n + 9999) \div 10000 \in Nat /\ ((n + 9999) \div 10000) * 10000 >= n
    BY SMT
  <1> QED BY <1>1, <1>2 DEF CeilBps

LEMMA CompensationIsEnough ==
    ASSUME NEW base \in Nat, NEW bps \in Nat, NEW cap \in Nat, NEW collected \in Nat,
           NEW asked \in Nat, asked = base * bps,
           NEW owed, owed = LateCompensation(base, bps, cap, collected)
    PROVE  /\ owed \in 0..collected
           /\ InBps(owed) >= SmallerOf(SmallerOf(asked, InBps(cap)), InBps(collected))
  <1>1. PICK ceil \in Nat : ceil = CeilBps(base, bps) /\ ceil * 10000 >= asked
    BY CeilBpsIsEnough
  <1>2. owed = SmallerOf(SmallerOf(ceil, cap), collected)
    BY <1>1, Zenon DEF LateCompensation
  <1>3. /\ owed \in 0..collected
        /\ InBps(owed) >= SmallerOf(SmallerOf(asked, InBps(cap)), InBps(collected))
    BY <1>1, <1>2, SMT DEF SmallerOf, InBps
  <1> QED BY <1>3

(* A rate of at most ten thousand basis points asks for no more than its   *)
(* base.                                                                   *)
LEMMA CeilBpsIsWithin ==
    ASSUME NEW base \in Nat, NEW bps \in Nat, bps <= 10000
    PROVE  CeilBps(base, bps) \in 0..base
  <1>1. bps * base <= 10000 * base
    BY TimesMonotone, SMT
  <1>2. PICK n \in Nat : n = base * bps /\ n = bps * base
    BY SMT
  <1>3. n <= 10000 * base
    BY <1>1, <1>2
  <1>4. (n + 9999) \div 10000 \in 0..base
    BY <1>3, SMT
  <1> QED BY <1>2, <1>4 DEF CeilBps

(* While nothing was paid out, compensating a late sender is never refused *)
(* and pays exactly the compensation.                                      *)
PaysInFull(award, owed) == award.refused = "" /\ award.payout = owed

LEMMA CompensationIsPaid ==
    ASSUME NEW collected \in Nat, NEW owed \in 0..collected,
           NEW mode, NEW reward, NEW fee
    PROVE  PaysInFull(PlanSettlement(collected, 0, collected - owed, owed, mode, reward, fee), owed)
  <1>1. PICK refund \in Int : refund = collected - owed
    OBVIOUS
  <1>2. ~(refund < 0 \/ refund > Settleable(collected, 0))
    BY <1>1, SMT DEF Settleable, LargerOf
  <1>3. owed # Unstated /\ ~(owed < 0 \/ owed > collected - refund) /\ 0 <= owed
    BY <1>1, SMT DEF Unstated
  <1>4. PaysInFull(Plan(refund, owed, collected - refund - owed), owed)
    <2>1. /\ Plan(refund, owed, collected - refund - owed).refused = ""
          /\ Gives(Plan(refund, owed, collected - refund - owed), refund, owed)
      BY PlanGives
    <2> QED BY <2>1, Zenon DEF PaysInFull, Gives
  <1>5. PaysInFull(CoverPaidOut(refund, collected - refund, owed, 0), owed)
    BY <1>3, <1>4, Zenon DEF CoverPaidOut
  <1>6. PaysInFull(PlanSettlement(collected, 0, refund, owed, mode, reward, fee), owed)
    BY <1>2, <1>3, <1>5, Zenon DEF PlanSettlement
  <1> QED BY <1>1, <1>6
-----------------------------------------------------------------------------
(* The invariant behind the three properties: whatever was asked, the plan *)
(* on the table is sound for the money it was made for.                    *)
DecisionIInv == money \in Money /\ SoundAward(plan, money.collected, money.paid)

LEMMA MoneyFields ==
    ASSUME money \in Money
    PROVE  /\ money.collected \in Nat /\ money.paid \in Nat
           /\ money.reward \in Nat /\ money.fee \in Nat /\ money.mode \in FeeModes
  BY DecisionAssumption, SMT DEF Money, Cents

LEMMA PlanForIsSound ==
    ASSUME money \in Money, NEW refund \in Int, NEW stated \in Int
    PROVE  SoundAward(PlanFor(refund, stated), money.collected, money.paid)
  BY MoneyFields, EveryPlanIsSound DEF PlanFor

LEMMA DecisionInitIInv == DecisionInit => DecisionIInv
  <1> SUFFICES ASSUME DecisionInit PROVE DecisionIInv
    OBVIOUS
  <1>1. SoundAward(Refuse("undecided"), money.collected, money.paid)
    BY MoneyFields, RefusalIsSound, Zenon DEF DecisionInit
  <1> QED BY <1>1, Zenon DEF DecisionInit, DecisionIInv

LEMMA DecisionNextIInv == DecisionIInv /\ [DecisionNext]_decisionVars => DecisionIInv'
  <1> SUFFICES ASSUME DecisionIInv, [DecisionNext]_decisionVars PROVE DecisionIInv'
    OBVIOUS
  <1>1. money \in Money
    BY DEF DecisionIInv
  <1>2. ASSUME NEW refund \in -1..(MaxCents + 1), NEW stated \in -2..(MaxCents + 1),
               Decide(refund, stated)
        PROVE  DecisionIInv'
    <2>1. refund \in Int /\ stated \in Int
      BY DecisionAssumption, SMT
    <2>2. SoundAward(PlanFor(refund, stated), money.collected, money.paid)
      BY <1>1, <2>1, PlanForIsSound
    <2>3. plan' = PlanFor(refund, stated) /\ money' = money
      BY <1>2, Zenon DEF Decide
    <2> QED BY <1>1, <2>2, <2>3, Zenon DEF DecisionIInv, SoundAward
  <1>3. ASSUME NEW base \in 0..money.reward, NEW bps \in Rates, NEW cap \in Cents,
               QuoteLate(base, bps, cap)
        PROVE  DecisionIInv'
    <2>1. base \in Nat /\ bps \in Nat /\ cap \in Nat /\ money.collected \in Nat
      BY <1>1, MoneyFields, DecisionAssumption, SMT DEF Cents
    <2>2. PICK owed \in Int : owed = LateCompensation(base, bps, cap, money.collected)
      BY <2>1, CompensationIsAnAmount
    <2>3. PICK refund \in Int : refund = money.collected - owed
      BY <2>1, <2>2
    <2>4. SoundAward(PlanFor(refund, owed), money.collected, money.paid)
      BY <1>1, <2>2, <2>3, PlanForIsSound
    <2>5. plan' = PlanFor(refund, owed) /\ money' = money
      BY <1>3, <2>2, <2>3, Zenon DEF QuoteLate
    <2> QED BY <1>1, <2>4, <2>5, Zenon DEF DecisionIInv, SoundAward
  <1>4. CASE UNCHANGED decisionVars
    BY <1>4, Zenon DEF decisionVars, DecisionIInv, SoundAward
  <1> QED BY <1>2, <1>3, <1>4, Zenon DEF DecisionNext

LEMMA DecisionInvariant == DecisionSpec => []DecisionIInv
  BY DecisionInitIInv, DecisionNextIInv, PTL DEF DecisionSpec

LEMMA AcceptedPlan ==
    ASSUME DecisionIInv, Planned
    PROVE  /\ plan.refund \in Nat /\ plan.payout \in Nat /\ plan.fee \in Nat
           /\ plan.refund + plan.payout + plan.fee = money.collected
           /\ plan.payout >= money.paid
           /\ money.collected \in Nat /\ money.paid \in Nat
  <1>1. money.collected \in Nat /\ money.paid \in Nat
    BY MoneyFields, Zenon DEF DecisionIInv
  <1> QED BY <1>1, Zenon DEF DecisionIInv, SoundAward, Planned

(* plan_settlement for every amount: an accepted plan's three amounts are  *)
(* never negative and sum to the collected cash.                           *)
THEOREM PlansReconcile == DecisionSpec => []PlanReconciles
  <1>1. ASSUME DecisionIInv, Planned
        PROVE  /\ plan.refund >= 0 /\ plan.payout >= 0 /\ plan.fee >= 0
               /\ plan.refund + plan.payout + plan.fee = money.collected
    BY <1>1, AcceptedPlan, SMT
  <1>2. DecisionIInv => PlanReconciles
    BY <1>1, Zenon DEF PlanReconciles
  <1> QED BY <1>2, DecisionInvariant, PTL

(* plan_settlement for every amount: a refund never touches the money that *)
(* already went to the traveler.                                           *)
THEOREM PlansPayNothingTwice == DecisionSpec => []NothingPaidTwice
  <1>1. ASSUME DecisionIInv, Planned
        PROVE  /\ plan.payout >= money.paid
               /\ plan.refund + money.paid <= money.collected
               /\ plan.refund + plan.payout <= money.collected
    BY <1>1, AcceptedPlan, SMT
  <1>2. DecisionIInv => NothingPaidTwice
    BY <1>1, Zenon DEF NothingPaidTwice
  <1> QED BY <1>2, DecisionInvariant, PTL

(* plan_settlement for every amount: the recovery refusal is raised only   *)
(* for a Deal that sent out more than it collected.                        *)
THEOREM RecoveryIsOnlyForOverpaid == DecisionSpec => []RecoveryOnlyWhenOverpaid
  <1>1. DecisionIInv => RecoveryOnlyWhenOverpaid
    BY Zenon DEF DecisionIInv, SoundAward, RecoveryOnlyWhenOverpaid
  <1> QED BY <1>1, DecisionInvariant, PTL
-----------------------------------------------------------------------------
(* What an award that refunds so much leaves the traveler.                 *)
ShareAfter(m, refund) ==
    AtLeast(m.paid, TravelerShare(m.mode, m.collected - refund, m.reward, m.fee))

Follows(m, award, refund) ==
    award.refused = "" =>
        /\ refund \in 0..m.collected
        /\ award.refund = refund /\ award.payout = ShareAfter(m, refund)

LEMMA PlanForLeaves ==
    ASSUME money \in Money, NEW refund \in Int
    PROVE  Follows(money, PlanFor(refund, Unstated), refund)
  <1>1. money.collected \in Nat /\ money.paid \in Nat
    BY MoneyFields
  <1>2. SharesTheRest(PlanFor(refund, Unstated), money.collected, money.paid, refund,
                      money.mode, money.reward, money.fee)
    BY <1>1, AwardWithoutStatedPayout DEF PlanFor
  <1> QED BY <1>2, Zenon DEF SharesTheRest, Follows, ShareAfter

LEMMA ShareShrinks ==
    ASSUME money \in Money, NEW r \in 0..money.collected, NEW q \in 0..money.collected, r <= q
    PROVE  ShareAfter(money, q) <= ShareAfter(money, r)
  <1>1. PICK collected \in Nat, paid \in Nat, reward \in Nat, fee \in Nat, mode \in FeeModes :
            /\ collected = money.collected /\ paid = money.paid
            /\ reward = money.reward /\ fee = money.fee /\ mode = money.mode
    BY MoneyFields
  <1>2. PICK less \in Nat, more \in Nat :
            less = collected - q /\ more = collected - r /\ less <= more
    BY <1>1
  <1>3. /\ TravelerShare(mode, less, reward, fee) \in 0..less
        /\ TravelerShare(mode, more, reward, fee) \in 0..more
    BY ShareBounded
  <1>4. PICK x \in Int : x = TravelerShare(mode, less, reward, fee)
    BY <1>3, SMT
  <1>5. PICK y \in Int : y = TravelerShare(mode, more, reward, fee)
    BY <1>3, SMT
  <1>6. TravelerShare(mode, less, reward, fee) <= TravelerShare(mode, more, reward, fee)
    BY <1>2, ShareMonotone
  <1>7. AtLeast(paid, x) <= AtLeast(paid, y)
    <2>1. x <= y
      BY <1>4, <1>5, <1>6, Zenon
    <2> QED BY <2>1, SMT DEF AtLeast
  <1> QED BY <1>1, <1>2, <1>4, <1>5, <1>7, Zenon DEF ShareAfter

(* An award on the table follows from its refund, and a late quote is whole.*)
AwardFollowsItsRefund ==
    decision.kind = "award" /\ decision.stated = Unstated => Follows(money, plan, decision.refund)

DecidedIInv == money \in Money /\ AwardFollowsItsRefund /\ LateCompensationIsWhole

LEMMA DecidedInit == DecisionInit => DecidedIInv
  <1> SUFFICES ASSUME DecisionInit PROVE DecidedIInv
    OBVIOUS
  <1>1. money \in Money /\ decision.kind = "none"
    BY Zenon DEF DecisionInit, Nothing
  <1> QED BY <1>1, Zenon DEF DecidedIInv, AwardFollowsItsRefund, LateCompensationIsWhole

(* What LateCompensationIsWhole asks of the plan and of what was owed.      *)
Whole(m, award, owed) ==
    m.paid = 0 =>
        award.refused = "" /\ InBps(award.payout) >= SmallerOf(owed, InBps(m.collected))

LEMMA QuoteIsWhole ==
    ASSUME money \in Money, NEW base \in 0..money.reward, NEW bps \in Rates, NEW cap \in Cents
    PROVE  QuoteLate(base, bps, cap) => DecidedIInv'
  <1>1. base \in Nat /\ bps \in Nat /\ cap \in Nat /\ money.collected \in Nat
    BY MoneyFields, DecisionAssumption, SMT DEF Cents
  <1>2. PICK asked \in Nat : asked = base * bps
    BY <1>1, SMT
  <1>3. PICK owed : owed = LateCompensation(base, bps, cap, money.collected)
    OBVIOUS
  <1>4. /\ owed \in 0..money.collected
        /\ InBps(owed) >= SmallerOf(SmallerOf(asked, InBps(cap)), InBps(money.collected))
    BY <1>1, <1>2, <1>3, CompensationIsEnough
  <1>5. PICK limit : limit = SmallerOf(asked, InBps(cap))
    OBVIOUS
  <1>6. Whole(money, PlanFor(money.collected - owed, owed), limit)
    <2>1. CASE money.paid = 0
      <3>1. PaysInFull(PlanSettlement(money.collected, 0, money.collected - owed, owed,
                                      money.mode, money.reward, money.fee), owed)
        BY <1>1, <1>4, CompensationIsPaid
      <3>2. PaysInFull(PlanFor(money.collected - owed, owed), owed)
        BY <2>1, <3>1, Zenon DEF PlanFor
      <3> QED BY <1>4, <1>5, <3>2, Zenon DEF PaysInFull, Whole
    <2>2. CASE money.paid # 0
      BY <2>2, Zenon DEF Whole
    <2> QED BY <2>1, <2>2
  <1> SUFFICES ASSUME QuoteLate(base, bps, cap) PROVE DecidedIInv'
    OBVIOUS
  <1>7. /\ decision'.kind = "late" /\ decision'.owed = SmallerOf(base * bps, InBps(cap))
        /\ money' = money
        /\ plan' = PlanFor(money.collected - LateCompensation(base, bps, cap, money.collected),
                           LateCompensation(base, bps, cap, money.collected))
    BY Zenon DEF QuoteLate
  <1>8. decision'.kind = "late" /\ money' = money
    BY <1>7
  <1>9. decision'.owed = limit /\ plan' = PlanFor(money.collected - owed, owed)
    BY <1>2, <1>3, <1>5, <1>7
  <1>10. Whole(money', plan', decision'.owed)
    BY <1>6, <1>8, <1>9
  <1>11. LateCompensationIsWhole'
    BY <1>10, Zenon DEF LateCompensationIsWhole, Whole, Planned
  <1>12. AwardFollowsItsRefund'
    BY <1>8, Zenon DEF AwardFollowsItsRefund
  <1> QED BY <1>8, <1>11, <1>12, Zenon DEF DecidedIInv

LEMMA AwardFollows ==
    ASSUME money \in Money, NEW refund \in -1..(MaxCents + 1), NEW stated \in -2..(MaxCents + 1)
    PROVE  Decide(refund, stated) => DecidedIInv'
  <1>1. refund \in Int
    BY DecisionAssumption, SMT
  <1>2. Follows(money, PlanFor(refund, Unstated), refund)
    BY <1>1, PlanForLeaves
  <1> SUFFICES ASSUME Decide(refund, stated) PROVE DecidedIInv'
    OBVIOUS
  <1>3. /\ decision' = [kind |-> "award", refund |-> refund, stated |-> stated, owed |-> 0]
        /\ plan' = PlanFor(refund, stated) /\ money' = money
    BY Zenon DEF Decide
  <1>4. decision'.kind = "award" /\ decision'.stated = stated /\ decision'.refund = refund
    BY <1>3, Zenon
  <1>5. stated = Unstated => Follows(money', plan', decision'.refund)
    BY <1>2, <1>3, <1>4, Zenon
  <1>6. AwardFollowsItsRefund'
    BY <1>3, <1>4, <1>5, Zenon DEF AwardFollowsItsRefund, Follows, ShareAfter
  <1>7. LateCompensationIsWhole'
    BY <1>4, Zenon DEF LateCompensationIsWhole
  <1> QED BY <1>3, <1>6, <1>7, Zenon DEF DecidedIInv

LEMMA DecidedNext == DecidedIInv /\ [DecisionNext]_decisionVars => DecidedIInv'
  <1> SUFFICES ASSUME DecidedIInv, [DecisionNext]_decisionVars PROVE DecidedIInv'
    OBVIOUS
  <1>1. money \in Money
    BY DEF DecidedIInv
  <1>2. CASE UNCHANGED decisionVars
    <2>1. money' = money /\ decision' = decision /\ plan' = plan
      BY <1>2, Zenon DEF decisionVars
    <2>2. AwardFollowsItsRefund'
      BY <2>1, Zenon DEF DecidedIInv, AwardFollowsItsRefund
    <2>3. LateCompensationIsWhole'
      BY <2>1, Zenon DEF DecidedIInv, LateCompensationIsWhole, Planned
    <2> QED BY <2>1, <2>2, <2>3, Zenon DEF DecidedIInv
  <1> QED BY <1>1, <1>2, QuoteIsWhole, AwardFollows, Zenon DEF DecisionNext

LEMMA DecidedInvariant == DecisionSpec => []DecidedIInv
  BY DecidedInit, DecidedNext, PTL DEF DecisionSpec

(* plan_settlement for every amount and both fee modes: of two accepted    *)
(* decisions, the one that refunds more leaves the traveler no more.       *)
THEOREM RefundsComeOutOfTheShare == DecisionSpec => []LargerRefundSmallerPayout
  <1>1. ASSUME DecidedIInv, decision.kind = "award", decision.stated = Unstated, Planned,
               NEW r \in 0..plan.refund, PlanFor(r, Unstated).refused = ""
        PROVE  plan.payout <= PlanFor(r, Unstated).payout
    <2>1. money \in Money /\ plan.refund \in 0..money.collected /\ plan.payout = ShareAfter(money, plan.refund)
      BY <1>1, Zenon DEF DecidedIInv, AwardFollowsItsRefund, Follows, Planned
    <2>2. money.collected \in Nat
      BY <2>1, MoneyFields
    <2>3. r \in Int /\ r <= plan.refund
      BY <2>1, <2>2, SMT
    <2>4. r \in 0..money.collected /\ PlanFor(r, Unstated).payout = ShareAfter(money, r)
      <3>1. Follows(money, PlanFor(r, Unstated), r)
        BY <2>1, <2>3, PlanForLeaves
      <3> QED BY <1>1, <3>1, Zenon DEF Follows
    <2>5. ShareAfter(money, plan.refund) <= ShareAfter(money, r)
      BY <2>1, <2>3, <2>4, ShareShrinks
    <2> QED BY <2>1, <2>4, <2>5, Zenon
  <1>2. DecidedIInv => LargerRefundSmallerPayout
    BY <1>1, Zenon DEF LargerRefundSmallerPayout
  <1> QED BY <1>2, DecidedInvariant, PTL

(* build_quote for every reward, rate and cap: a late sender's quote is    *)
(* never refused while nothing was paid out, and never short.              *)
THEOREM LateQuotesAreWhole == DecisionSpec => []LateCompensationIsWhole
  <1>1. DecidedIInv => LateCompensationIsWhole
    BY DEF DecidedIInv
  <1> QED BY <1>1, DecidedInvariant, PTL
=============================================================================
