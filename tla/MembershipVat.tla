---------------------------- MODULE MembershipVat ----------------------------
(***************************************************************************)
(* The VAT inside a merchant's membership balance.  The fee is one sum,    *)
(* net and VAT together; batches take parts of it, may be recomputed with  *)
(* more or less to take from, and each part is split into net and VAT with *)
(* a rounding of its own.  Settlements models when a batch is recomputed;  *)
(* the row lock of lockAndResolveDue makes each recompute one step here.   *)
(***************************************************************************)
EXTENDS Integers, FiniteSets, Totals

CONSTANTS
  FeeCents,    \* priceCents + vatCents of a year
  FeeVatCents, \* vatCents of a year
  VatBatches,  \* the merchant's batches that may still be recomputed
  YearOf,      \* the membership year each of them falls into
  MaxYears     \* bound: years, the first included

ASSUME MembershipVatAssumption ==
  /\ FeeCents \in Nat
  /\ FeeVatCents \in 0 .. FeeCents
  /\ MaxYears \in Nat \ {0}
  /\ YearOf \in [VatBatches -> Nat]
  /\ IsFiniteSet(VatBatches)

VARIABLES
  balance,   \* outstandingCents and outstandingVatCents of the subscription
  taken,     \* membershipOffsetCents and membershipOffsetVatCents of each batch
  year,      \* the current period
  forgiven,  \* writtenOffCents and writtenOffVatCents
  charged    \* priceCents + vatCents and vatCents of all years so far (history)

vatVars == <<balance, taken, year, forgiven, charged>>

-----------------------------------------------------------------------------
Fee == [cents |-> FeeCents, vat |-> FeeVatCents]
NoMoney == [cents |-> 0, vat |-> 0]
Plus(a, b) == [cents |-> a.cents + b.cents, vat |-> a.vat + b.vat]
Least(a, b) == IF a <= b THEN a ELSE b
Clamped(n) == IF n < 0 THEN 0 ELSE n

Amount == [cents : 0 .. FeeCents * MaxYears, vat : 0 .. FeeCents * MaxYears]

VatTypeOK ==
  /\ balance \in Amount
  /\ taken \in [VatBatches -> Amount]
  /\ year \in 1 .. MaxYears
  /\ {forgiven, charged} \subseteq Amount

(* createForApprovedMerchant: a founding member starts with nothing due.   *)
VatInit ==
  /\ balance \in {Fee, NoMoney}
  /\ charged = balance
  /\ taken = [b \in VatBatches |-> NoMoney]
  /\ year = 1
  /\ forgiven = NoMoney

-----------------------------------------------------------------------------
(* The nearest whole kurus to part * of / whole, halves up (roundKurus).   *)
ShareOf(part, of, whole) == (2 * part * of + whole) \div (2 * whole)

(* splitMembershipOffsetVat                                                *)
OffsetVat(due, cents) ==
  IF cents = 0 \/ due.cents = 0 THEN 0
  ELSE IF cents >= due.cents THEN due.vat
  ELSE Least(ShareOf(cents, due.vat, due.cents), Least(due.vat, cents))

(* Mutant of VatOf: a batch that only restores gets all its VAT back.      *)
VatOfRestored(due, cents, restoreOnly) ==
  IF restoreOnly THEN due.vat ELSE OffsetVat(due, cents)

VatOf(due, cents, restoreOnly) == OffsetVat(due, cents)

(* lockAndResolveDue: a batch of an exempt or an earlier year may restore  *)
(* what it took, and take nothing new.                                     *)
VatDue(b, restoreOnly) ==
  IF restoreOnly THEN taken[b] ELSE Plus(balance, taken[b])

(* Mutant of BalanceAfter: nothing is written for such a batch.            *)
BalanceAfterCollecting(b, new, restoreOnly) ==
  IF restoreOnly THEN balance
  ELSE [cents |-> Clamped(balance.cents + taken[b].cents - new.cents),
        vat |-> Clamped(balance.vat + taken[b].vat - new.vat)]

(* persistOffset                                                           *)
BalanceAfter(b, new, restoreOnly) ==
  [cents |-> Clamped(balance.cents + taken[b].cents - new.cents),
   vat |-> Clamped(balance.vat + taken[b].vat - new.vat)]

(* One recompute of b, with any amount available to take from.             *)
TakesOffset(b) ==
  \E exempt \in BOOLEAN :
    LET restoreOnly == exempt \/ YearOf[b] # year
        due == VatDue(b, restoreOnly)
    IN \E cents \in 0 .. due.cents :
         LET new == [cents |-> cents, vat |-> VatOf(due, cents, restoreOnly)]
         IN /\ taken' = [taken EXCEPT ![b] = new]
            /\ balance' = BalanceAfter(b, new, restoreOnly)
            /\ UNCHANGED <<year, forgiven, charged>>

(* renewOneLocked: what is left of the old year is written off; unless the *)
(* new year is exempt, a fee is charged.                                   *)
Renews ==
  /\ year < MaxYears
  /\ year' = year + 1
  /\ forgiven' = Plus(forgiven, balance)
  /\ balance' \in {Fee, NoMoney}
  /\ charged' = Plus(charged, balance')
  /\ UNCHANGED taken

VatNext == Renews \/ \E b \in VatBatches : TakesOffset(b)

VatSpec == VatInit /\ [][VatNext]_vatVars

-----------------------------------------------------------------------------
(* Properties                                                              *)
Collected ==
  [cents |-> Total([b \in VatBatches |-> taken[b].cents], VatBatches),
   vat |-> Total([b \in VatBatches |-> taken[b].vat], VatBatches)]

(* Through every order of recomputes, clamps, exemptions and renewals, no  *)
(* kurus of fee or of its VAT is lost or collected twice: what the batches *)
(* took, what is outstanding and what was written off is what was charged. *)
VatConserved ==
  Plus(Plus(balance, forgiven), Collected) = charged

(* The rounding never leaves a part whose VAT exceeds it, which would be a *)
(* membership invoice with a negative net amount.                          *)
VatWithinAmount ==
  /\ balance.vat <= balance.cents
  /\ forgiven.vat <= forgiven.cents
  /\ \A b \in VatBatches : taken[b].vat <= taken[b].cents
=============================================================================
