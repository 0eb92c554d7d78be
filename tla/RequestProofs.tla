---------------------------- MODULE RequestProofs ----------------------------
(***************************************************************************)
(* Proofs about the services whose writers are requests: Invoicing,        *)
(* Moderation and MembershipVat here, and that what is proved of each one  *)
(* alone, here, in LockProofs and in AuthProofs, holds of all of them side *)
(* by side.                                                                *)
(***************************************************************************)
EXTENDS RequestServices, LockProofs, AuthProofs

-----------------------------------------------------------------------------
(* Invoicing: the unique key leaves one row of a type, whichever delivery  *)
(* inserted it, and the provider knows a document by the id of its row.    *)

Exists(i) == invoice[i].status # "none"

(* The unique key, and what a delivery knows of the row it works on.       *)
OneRowPerType ==
  \A i, j \in InvoiceIds :
    Exists(i) /\ Exists(j) /\ invoice[i].type = invoice[j].type => i = j

IssuersKnowRows ==
  \A d \in Issuers :
    issuer[d].phase \in {"issuing", "recording"} =>
      /\ issuer[d].id \in InvoiceIds
      /\ Exists(issuer[d].id)
      /\ issuer[d].phase = "recording" => issuer[d].id \in document

DocumentsHaveRows ==
  /\ \A i \in document : Exists(i)
  /\ \A i \in InvoiceIds : invoice[i].status = "SENT" => i \in document

InvoicingInv ==
  /\ InvoicingTypeOK
  /\ OneRowPerType
  /\ IssuersKnowRows
  /\ DocumentsHaveRows

-----------------------------------------------------------------------------
(* There is no invoice, no document and no delivery yet.                   *)
LEMMA InvoicingInit_Inv == InvoicingInit => InvoicingInv
BY InvoicingAssumption
   DEF InvoicingInit, InvoicingInv, InvoicingTypeOK, OneRowPerType, IssuersKnowRows,
       DocumentsHaveRows, Exists, NoInvoice, NoIssuer, InvoiceTypes

Issuer == [phase : {"idle", "finding", "creating", "issuing", "recording"},
           type : InvoiceTypes, id : InvoiceIds \cup {0}, admin : BOOLEAN]

(* What a delivery may go on with is the state of a delivery.              *)
LEMMA NextIssuers ==
  ASSUME InvoicingInv, NEW d \in Issuers
  PROVE  /\ issuer[d] \in Issuer
         /\ AfterInvoice(d) \in Issuer
         /\ AfterInvoice(d).phase \in {"finding", "idle"}
         /\ NoIssuer \in Issuer /\ NoIssuer.phase = "idle"
BY DEF InvoicingInv, InvoicingTypeOK, AfterInvoice, NoIssuer, Issuer, InvoiceTypes

(* A step of d that leaves the rows alone, and d at a row or at none.      *)
LEMMA InvoicesStay ==
  ASSUME InvoicingInv, NEW d \in Issuers, NEW to \in Issuer, Goes(d, to),
         UNCHANGED <<invoice, document>>,
         to.phase \in {"issuing", "recording"} =>
           /\ to.id \in InvoiceIds /\ Exists(to.id)
           /\ to.phase = "recording" => to.id \in document
  PROVE  InvoicingInv'
<1>1. InvoicingTypeOK'
  BY DEF InvoicingInv, InvoicingTypeOK, Goes, Issuer
<1>2. OneRowPerType' /\ DocumentsHaveRows'
  BY DEF InvoicingInv, OneRowPerType, DocumentsHaveRows, Exists
<1>3. IssuersKnowRows'
  BY DEF InvoicingInv, InvoicingTypeOK, IssuersKnowRows, Exists, Goes
<1> QED BY <1>1, <1>2, <1>3 DEF InvoicingInv

(* A delivery goes on with a row that exists.                              *)
LEMMA GoesOnKeeps ==
  ASSUME InvoicingInv, NEW d \in Issuers, NEW i \in InvoiceIds, Exists(i), GoesOnWith(d, i),
         UNCHANGED <<invoice, document>>
  PROVE  InvoicingInv'
<1> DEFINE at == [issuer[d] EXCEPT !.phase = "issuing", !.id = i]
<1>1. at \in Issuer /\ at.phase = "issuing" /\ at.id = i
  BY NextIssuers DEF Issuer
<1>2. Goes(d, at) \/ Goes(d, AfterInvoice(d))
  BY DEF GoesOnWith
<1> HIDE DEF at
<1>3. CASE Goes(d, at)
  BY <1>1, <1>3, InvoicesStay
<1>4. CASE Goes(d, AfterInvoice(d))
  BY <1>4, NextIssuers, InvoicesStay
<1> QED BY <1>2, <1>3, <1>4

(* The invariant is inductive.                                             *)
LEMMA InvoicingNext_Inv == InvoicingInv /\ [InvoicingNext]_invoicingVars => InvoicingInv'
<1> SUFFICES ASSUME InvoicingInv, [InvoicingNext]_invoicingVars PROVE InvoicingInv'
  OBVIOUS
<1>0. /\ invoice \in [InvoiceIds -> [type : InvoiceTypes, status : {"none", "DRAFT", "SENT"}]]
      /\ document \subseteq InvoiceIds /\ issuer \in [Issuers -> Issuer]
  BY DEF InvoicingInv, InvoicingTypeOK, Issuer
<1>1. CASE UNCHANGED invoicingVars
  BY <1>1 DEF invoicingVars, InvoicingInv, InvoicingTypeOK, OneRowPerType, IssuersKnowRows,
     DocumentsHaveRows, Exists
<1>2. ASSUME NEW d \in Issuers, Deliver(d) PROVE InvoicingInv'
  <2> DEFINE to == [NoIssuer EXCEPT !.phase = "finding"]
  <2>1. to \in Issuer /\ to.phase = "finding" /\ Goes(d, to)
    BY <1>2, NextIssuers DEF Deliver, Issuer
  <2> HIDE DEF to
  <2> QED BY <1>2, <2>1, InvoicesStay DEF Deliver
<1>3. ASSUME NEW d \in Issuers, FindDraft(d) PROVE InvoicingInv'
  <2>1. CASE \E i \in Drafted(issuer[d].type) : GoesOnWith(d, i)
    BY <1>3, <2>1, GoesOnKeeps DEF FindDraft, Drafted, Exists
  <2>2. CASE Goes(d, [issuer[d] EXCEPT !.phase = "creating"])
    <3> DEFINE to == [issuer[d] EXCEPT !.phase = "creating"]
    <3>1. to \in Issuer /\ to.phase = "creating" /\ Goes(d, to)
      BY <2>2, NextIssuers DEF Issuer
    <3> HIDE DEF to
    <3> QED BY <1>3, <3>1, InvoicesStay DEF FindDraft
  <2> QED BY <1>3, <2>1, <2>2 DEF FindDraft
<1>4. ASSUME NEW d \in Issuers, CreateDraft(d) PROVE InvoicingInv'
  <2>1. CASE \E i \in Drafted(issuer[d].type) : GoesOnWith(d, i) /\ UNCHANGED invoice
    BY <1>4, <2>1, GoesOnKeeps DEF CreateDraft, Drafted, Exists
  <2>2. CASE Drafted(issuer[d].type) = {} /\ InsertDraft(d)
    <3>1. PICK i \in InvoiceIds :
            /\ invoice[i] = NoInvoice
            /\ invoice' = [invoice EXCEPT ![i] =
                             [type |-> issuer[d].type, status |-> "DRAFT"]]
            /\ Goes(d, [issuer[d] EXCEPT !.phase = "issuing", !.id = i])
      BY <2>2 DEF InsertDraft
    <3> DEFINE at == [issuer[d] EXCEPT !.phase = "issuing", !.id = i]
               new == [type |-> issuer[d].type, status |-> "DRAFT"]
    <3>2. /\ at \in Issuer /\ at.phase = "issuing" /\ at.id = i
          /\ issuer' = [issuer EXCEPT ![d] = at]
      BY <3>1, NextIssuers DEF Issuer, Goes
    <3>3. /\ new \in [type : InvoiceTypes, status : {"none", "DRAFT", "SENT"}]
          /\ new.type = issuer[d].type /\ new.status = "DRAFT"
          /\ invoice' = [invoice EXCEPT ![i] = new]
      BY <3>1, NextIssuers DEF Issuer
    <3>4. document' = document /\ ~Exists(i)
      BY <1>4, <3>1 DEF CreateDraft, Exists, NoInvoice
    <3> HIDE DEF at, new
    <3>5. InvoicingTypeOK'
      BY <1>0, <3>2, <3>3, <3>4 DEF InvoicingTypeOK, Issuer
    <3>6. \A j \in InvoiceIds : j # i => invoice'[j] = invoice[j]
      BY <1>0, <3>3
    <3>7. invoice'[i] = new
      BY <1>0, <3>3
    <3>8. OneRowPerType'
      BY <2>2, <3>3, <3>6, <3>7 DEF OneRowPerType, Drafted, InvoicingInv, Exists
    <3>9. IssuersKnowRows'
      BY <1>0, <3>2, <3>3, <3>4, <3>6, <3>7 DEF IssuersKnowRows, InvoicingInv, Exists
    <3>10. DocumentsHaveRows'
      BY <1>0, <3>3, <3>4, <3>6, <3>7 DEF DocumentsHaveRows, InvoicingInv, Exists
    <3> QED BY <3>5, <3>8, <3>9, <3>10 DEF InvoicingInv
  <2> QED BY <1>4, <2>1, <2>2 DEF CreateDraft
<1>5. ASSUME NEW d \in Issuers, NEW i \in InvoiceIds, AdminReissue(d, i) PROVE InvoicingInv'
  <2> DEFINE to == [phase |-> "issuing", type |-> invoice[i].type, id |-> i, admin |-> TRUE]
  <2>1. to \in Issuer /\ to.phase = "issuing" /\ to.id = i /\ Goes(d, to) /\ Exists(i)
    BY <1>0, <1>5 DEF AdminReissue, Issuer, Exists
  <2> HIDE DEF to
  <2> QED BY <1>5, <2>1, InvoicesStay DEF AdminReissue
<1>6. ASSUME NEW d \in Issuers, Issue(d) PROVE InvoicingInv'
  <2>1. /\ issuer[d].id \in InvoiceIds /\ Exists(issuer[d].id)
        /\ document' = document \cup {issuer[d].id} /\ invoice' = invoice
    BY <1>6 DEF Issue, InvoicingInv, IssuersKnowRows
  <2> DEFINE to == issuer'[d]
  <2>2. /\ to \in Issuer /\ issuer' = [issuer EXCEPT ![d] = to]
        /\ \/ to.phase = "idle"
           \/ to.phase = "recording" /\ to.id = issuer[d].id
    BY <1>0, <1>6, NextIssuers DEF Issue, Goes, Issuer
  <2> HIDE DEF to
  <2>3. InvoicingTypeOK'
    BY <1>0, <2>1, <2>2 DEF InvoicingTypeOK, Issuer
  <2>4. OneRowPerType' /\ DocumentsHaveRows'
    BY <2>1 DEF InvoicingInv, OneRowPerType, DocumentsHaveRows, Exists
  <2>5. IssuersKnowRows'
    BY <1>0, <2>1, <2>2 DEF InvoicingInv, IssuersKnowRows, Exists
  <2> QED BY <2>3, <2>4, <2>5 DEF InvoicingInv
<1>7. ASSUME NEW d \in Issuers, IssueFails(d) \/ IssuerDies(d) PROVE InvoicingInv'
  BY <1>7, NextIssuers, InvoicesStay DEF IssueFails, IssuerDies
<1>8. ASSUME NEW d \in Issuers, RecordIssued(d) PROVE InvoicingInv'
  <2> DEFINE n == issuer[d].id
             sent == [invoice[n] EXCEPT !.status = "SENT"]
  <2>1. n \in InvoiceIds /\ Exists(n) /\ n \in document /\ document' = document
    BY <1>8 DEF RecordIssued, InvoicingInv, IssuersKnowRows
  <2>2. /\ sent \in [type : InvoiceTypes, status : {"none", "DRAFT", "SENT"}]
        /\ sent.type = invoice[n].type /\ sent.status = "SENT"
        /\ invoice' = [invoice EXCEPT ![n] = sent]
    BY <1>0, <1>8, <2>1 DEF RecordIssued
  <2>3. issuer' = [issuer EXCEPT ![d] = AfterInvoice(d)]
    BY <1>8 DEF RecordIssued, Goes
  <2> HIDE DEF n, sent
  <2>4. InvoicingTypeOK'
    BY <1>0, <2>1, <2>2, <2>3, NextIssuers DEF InvoicingTypeOK, Issuer
  <2>5. /\ invoice'[n] = sent
        /\ \A j \in InvoiceIds \ {n} : invoice'[j] = invoice[j]
    BY <1>0, <2>1, <2>2
  <2>6. OneRowPerType'
    BY <2>1, <2>2, <2>5 DEF InvoicingInv, OneRowPerType, Exists
  <2>7. DocumentsHaveRows'
    BY <1>0, <2>1, <2>2, <2>5 DEF InvoicingInv, DocumentsHaveRows, Exists
  <2>8. IssuersKnowRows'
    BY <1>0, <2>1, <2>2, <2>3, <2>5, NextIssuers DEF InvoicingInv, IssuersKnowRows, Exists
  <2> QED BY <2>4, <2>6, <2>7, <2>8 DEF InvoicingInv
<1> QED BY <1>1, <1>2, <1>3, <1>4, <1>5, <1>6, <1>7, <1>8 DEF InvoicingNext

-----------------------------------------------------------------------------
(* At most one e-document of a type for a batch, whatever deliveries and   *)
(* admins overlap, repeat or die, and SENT only with one                   *)
(* (createInvoicesForSentBatch, findOrCreateDraft, createAndIssue).        *)
THEOREM OneDocumentPerType == InvoicingSpec => []OneDocument
<1>1. InvoicingInv => OneDocument
  BY DEF InvoicingInv, InvoicingTypeOK, OneRowPerType, DocumentsHaveRows, OneDocument
<1> QED BY <1>1, InvoicingInit_Inv, InvoicingNext_Inv, PTL DEF InvoicingSpec

-----------------------------------------------------------------------------
(* Moderation                                                              *)

(* adminAction claims the report only once the target is taken down.       *)
Handled ==
  /\ report = "ACTIONED" => hidden = TRUE
  /\ \A a \in Admins : moderator[a] = "claiming" => hidden = TRUE

ModerationInv == ModerationTypeOK /\ Handled

(* Nobody acted yet.                                                      *)
LEMMA ModerationInit_Inv == ModerationInit => ModerationInv
BY DEF ModerationInit, ModerationInv, ModerationTypeOK, Handled

(* The invariant is inductive.                                             *)
LEMMA ModerationNext_Inv ==
  ModerationInv /\ [ModerationNext]_moderationVars => ModerationInv'
<1> SUFFICES ASSUME ModerationInv, [ModerationNext]_moderationVars PROVE ModerationInv'
  OBVIOUS
<1>1. CASE UNCHANGED moderationVars
  BY <1>1 DEF moderationVars, ModerationInv, ModerationTypeOK, Handled
<1>2. ASSUME NEW a \in Admins,
             AdminAction(a) \/ AdminDismiss(a) \/ ActFails(a) \/ ModeratorDies(a)
      PROVE  ModerationInv'
  BY <1>2 DEF AdminAction, AdminDismiss, OpensReport, ActFails, ModeratorDies,
              ModerationInv, ModerationTypeOK, Handled
<1>3. ASSUME NEW a \in Admins, ActSucceeds(a)
      PROVE  ModerationInv'
  BY <1>3 DEF ActSucceeds, ModerationInv, ModerationTypeOK, Handled
<1>4. ASSUME NEW a \in Admins, ClaimReport(a) \/ DismissReport(a)
      PROVE  ModerationInv'
  BY <1>4 DEF ClaimReport, DismissReport, ModerationInv, ModerationTypeOK, Handled
<1> QED
  BY <1>1, <1>2, <1>3, <1>4 DEF ModerationNext

(* adminAction: a report is never marked handled for an action that did    *)
(* not happen, whichever admins acted, failed, dismissed or died.          *)
THEOREM ActionedIsDone == ModerationSpec => []ActionedMeansDone
<1>1. ModerationInv => ActionedMeansDone
  BY DEF ModerationInv, Handled, ActionedMeansDone
<1> QED
  BY <1>1, ModerationInit_Inv, ModerationNext_Inv, PTL DEF ModerationSpec

-----------------------------------------------------------------------------
(* MembershipVat                                                           *)

Money == [cents : Nat, vat : Nat]

(* A sum of which some part is VAT.                                        *)
Gross == {m \in Money : m.vat <= m.cents}

(* VatConserved, a number at a time.                                       *)
Conserves ==
  /\ balance.cents + forgiven.cents + Collected.cents = charged.cents
  /\ balance.vat + forgiven.vat + Collected.vat = charged.vat

(* The fees of the years so far are all there is to charge.                *)
VatInv ==
  /\ balance \in Gross /\ forgiven \in Gross /\ charged \in Gross
  /\ taken \in [VatBatches -> Gross]
  /\ year \in Nat /\ year <= MaxYears /\ 1 <= year
  /\ charged.cents <= FeeCents * year
  /\ Conserves

-----------------------------------------------------------------------------
(* The fee, nothing, and the sum of two sums are sums with some VAT in     *)
(* them.                                                                   *)
LEMMA SomeMoney ==
  /\ Fee \in Gross /\ NoMoney \in Gross
  /\ Fee.cents = FeeCents /\ NoMoney.cents = 0 /\ NoMoney.vat = 0
  /\ FeeCents \in Nat
  /\ \A a, b \in Gross : Plus(a, b) \in Gross
BY MembershipVatAssumption DEF Fee, NoMoney, Gross, Money, Plus

(* Two numbers that make such a sum.                                       *)
LEMMA GrossOf ==
  ASSUME NEW m \in Nat, NEW n \in Nat, n <= m
  PROVE  [cents |-> m, vat |-> n] \in Gross
BY DEF Gross, Money

(* Rounding to the nearest kurus leaves at most as much VAT behind as      *)
(* there is money.                                                         *)
LEMMA ShareLeavesEnough ==
  ASSUME NEW D \in Nat \ {0}, NEW c \in 0 .. D, NEW v \in 0 .. D
  PROVE  /\ ShareOf(c, v, D) \in Nat
         /\ v - ShareOf(c, v, D) <= D - c
<1> DEFINE n == 2 * c * v + D
           q == n \div (2 * D)
<1>1. n \in Nat /\ 2 * D \in Nat /\ 2 * D > 0
  OBVIOUS
<1>2. q \in Int /\ (2 * D) * q <= n /\ n < (2 * D) * q + 2 * D
  <2> HIDE DEF n
  <2>1. \A m \in Nat \ {0} : n \div m \in Int /\ m * (n \div m) <= n /\ n < m * (n \div m) + m
    BY <1>1
  <2> QED
    BY <1>1, <2>1
<1>3. (D - c) * (D - v) >= 0
  OBVIOUS
<1>4. n = 2 * ((D - c) * (D - v)) + 2 * D * (v - D + c) + D
  OBVIOUS
<1>5. ShareOf(c, v, D) = q
  BY DEF ShareOf
<1> HIDE DEF n, q
<1>6. q >= 0
  <2> SUFFICES ASSUME q + 1 <= 0 PROVE FALSE
    BY <1>2
  <2>1. (2 * D) * (q + 1) <= 0
    BY <1>2
  <2> QED
    BY <1>1, <1>2, <2>1
<1>7. q >= v - D + c
  <2> DEFINE x == v - D + c
  <2> SUFFICES ASSUME q + 1 <= x PROVE FALSE
    BY <1>2
  <2>1. (2 * D) * (q + 1) <= (2 * D) * x
    BY <1>2
  <2>2. n < (2 * D) * (q + 1)
    BY <1>2
  <2>3. n >= (2 * D) * x
    BY <1>3, <1>4
  <2> QED
    BY <1>1, <1>2, <2>1, <2>2, <2>3
<1> QED
  BY <1>2, <1>5, <1>6, <1>7

(* splitMembershipOffsetVat: both the part and what is left of the amount  *)
(* are sums with no more VAT than they are worth.                          *)
LEMMA SplitIsSound ==
  ASSUME NEW due \in Gross, NEW cents \in 0 .. due.cents
  PROVE  /\ [cents |-> cents, vat |-> OffsetVat(due, cents)] \in Gross
         /\ [cents |-> due.cents - cents, vat |-> due.vat - OffsetVat(due, cents)] \in Gross
<1> DEFINE D == due.cents
           v == due.vat
           w == OffsetVat(due, cents)
<1>1. D \in Nat /\ v \in Nat /\ v <= D /\ cents \in Nat /\ cents <= D
  BY DEF Gross, Money
<1>2. w \in Nat /\ w <= v /\ w <= cents /\ v - w <= D - cents
  <2>1. CASE cents = 0 \/ D = 0
    BY <1>1, <2>1 DEF OffsetVat
  <2>2. CASE cents # 0 /\ D # 0 /\ cents >= D
    BY <1>1, <2>2 DEF OffsetVat
  <2>3. CASE cents # 0 /\ D # 0 /\ ~(cents >= D)
    <3>1. w = Least(ShareOf(cents, v, D), Least(v, cents))
      BY <1>1, <2>3 DEF OffsetVat
    <3>2. ShareOf(cents, v, D) \in Nat /\ v - ShareOf(cents, v, D) <= D - cents
      BY <1>1, <2>3, ShareLeavesEnough
    <3> QED
      BY <1>1, <3>1, <3>2 DEF Least
  <2> QED
    BY <2>1, <2>2, <2>3
<1> QED
  BY <1>1, <1>2 DEF Gross, Money

(* One batch takes another part of the fee: what it and the balance have   *)
(* together stays the same, and the clamps of persistOffset never bite.    *)
LEMMA OffsetMoves ==
  ASSUME VatInv, NEW b \in VatBatches, NEW restoreOnly \in BOOLEAN,
         NEW cents \in 0 .. VatDue(b, restoreOnly).cents, NEW new,
         new = [cents |-> cents, vat |-> VatOf(VatDue(b, restoreOnly), cents, restoreOnly)]
  PROVE  /\ new \in Gross /\ BalanceAfter(b, new, restoreOnly) \in Gross
         /\ BalanceAfter(b, new, restoreOnly).cents + new.cents
              = balance.cents + taken[b].cents
         /\ BalanceAfter(b, new, restoreOnly).vat + new.vat = balance.vat + taken[b].vat
<1> DEFINE due == VatDue(b, restoreOnly)
           rest == [cents |-> due.cents - cents, vat |-> due.vat - OffsetVat(due, cents)]
           moved == [cents |-> balance.cents + taken[b].cents - cents,
                     vat |-> balance.vat + taken[b].vat - OffsetVat(due, cents)]
<1>1. balance \in Gross /\ taken[b] \in Gross
  BY DEF VatInv
<1>2. due \in Gross
  BY <1>1, SomeMoney DEF VatDue
<1>3. /\ new = [cents |-> cents, vat |-> OffsetVat(due, cents)]
      /\ new.cents = cents /\ new.vat = OffsetVat(due, cents)
      /\ new \in Gross /\ rest \in Gross
  BY <1>2, SplitIsSound DEF VatOf
<1>4. moved \in Gross
  <2>1. CASE restoreOnly
    <3>1. due = taken[b]
      BY <2>1 DEF VatDue
    <3>2. /\ rest.cents = taken[b].cents - cents /\ rest.vat = taken[b].vat - OffsetVat(due, cents)
          /\ rest.cents \in Nat /\ rest.vat \in Nat /\ rest.vat <= rest.cents
      BY <1>3, <3>1 DEF Gross, Money
    <3>3. /\ balance.cents \in Nat /\ balance.vat \in Nat /\ balance.vat <= balance.cents
          /\ taken[b].cents \in Nat /\ taken[b].vat \in Nat
          /\ cents \in Nat /\ OffsetVat(due, cents) \in Nat
      BY <1>1, <1>3 DEF Gross, Money
    <3>4. /\ moved.cents = balance.cents + rest.cents
          /\ moved.vat = balance.vat + rest.vat
      BY <3>2, <3>3
    <3>5. moved.cents \in Nat /\ moved.vat \in Nat /\ moved.vat <= moved.cents
      <4> HIDE DEF rest, moved
      <4> QED
        BY <3>2, <3>3, <3>4
    <3> QED
      BY <3>5, GrossOf
  <2>2. CASE ~restoreOnly
    <3>1. due.cents = balance.cents + taken[b].cents /\ due.vat = balance.vat + taken[b].vat
      BY <2>2 DEF VatDue, Plus
    <3>2. /\ due.cents - cents \in Nat /\ due.vat - OffsetVat(due, cents) \in Nat
          /\ due.vat - OffsetVat(due, cents) <= due.cents - cents
      BY <1>3 DEF Gross, Money
    <3>3. /\ balance.cents + taken[b].cents - cents = due.cents - cents
          /\ balance.vat + taken[b].vat - OffsetVat(due, cents)
               = due.vat - OffsetVat(due, cents)
      <4>1. /\ balance.cents \in Nat /\ balance.vat \in Nat
            /\ taken[b].cents \in Nat /\ taken[b].vat \in Nat
            /\ cents \in Nat /\ OffsetVat(due, cents) \in Nat
        BY <1>1, <1>3 DEF Gross, Money
      <4> HIDE DEF due
      <4> QED
        BY <3>1, <4>1
    <3> QED
      BY <3>2, <3>3, GrossOf
  <2> QED
    BY <2>1, <2>2
<1>5. /\ moved.cents = balance.cents + taken[b].cents - cents
      /\ moved.vat = balance.vat + taken[b].vat - OffsetVat(due, cents)
      /\ moved.cents \in Nat /\ moved.vat \in Nat
  BY <1>4 DEF Gross, Money
<1>6. BalanceAfter(b, new, restoreOnly) = moved
  <2>1. /\ Clamped(balance.cents + taken[b].cents - cents) = moved.cents
        /\ Clamped(balance.vat + taken[b].vat - OffsetVat(due, cents)) = moved.vat
    BY <1>5 DEF Clamped
  <2> QED
    BY <1>3, <2>1 DEF BalanceAfter
<1>7. /\ cents \in Nat /\ OffsetVat(due, cents) \in Nat
      /\ balance.cents \in Nat /\ balance.vat \in Nat
      /\ taken[b].cents \in Nat /\ taken[b].vat \in Nat
  BY <1>1, <1>3 DEF Gross, Money
<1>8. /\ moved.cents + new.cents = balance.cents + taken[b].cents
      /\ moved.vat + new.vat = balance.vat + taken[b].vat
  BY <1>3, <1>7
<1> HIDE DEF moved
<1> QED
  BY <1>3, <1>4, <1>6, <1>8

(* What the batches took when one of them takes something else.            *)
LEMMA CollectedChanges ==
  ASSUME VatInv, NEW b \in VatBatches, NEW new \in Gross,
         taken' = [taken EXCEPT ![b] = new]
  PROVE  /\ Collected.cents \in Nat /\ Collected.vat \in Nat
         /\ Collected'.cents + taken[b].cents = Collected.cents + new.cents
         /\ Collected'.vat + taken[b].vat = Collected.vat + new.vat
         /\ Collected'.cents \in Nat /\ Collected'.vat \in Nat
<1> DEFINE f == [c \in VatBatches |-> taken[c].cents]
           g == [c \in VatBatches |-> taken'[c].cents]
           h == [c \in VatBatches |-> taken[c].vat]
           i == [c \in VatBatches |-> taken'[c].vat]
<1>1. /\ Collected.cents = Total(f, VatBatches) /\ Collected.vat = Total(h, VatBatches)
      /\ Collected'.cents = Total(g, VatBatches) /\ Collected'.vat = Total(i, VatBatches)
  BY DEF Collected
<1>2. /\ taken'[b] = new /\ \A c \in VatBatches \ {b} : taken'[c] = taken[c]
      /\ \A c \in VatBatches : taken[c] \in Gross
  BY DEF VatInv
<1>3. /\ \A c \in VatBatches : f[c] \in Nat
      /\ \A c \in VatBatches : h[c] \in Nat
      /\ f[b] = taken[b].cents /\ h[b] = taken[b].vat
      /\ g[b] = new.cents /\ i[b] = new.vat /\ g[b] \in Nat /\ i[b] \in Nat
      /\ \A c \in VatBatches \ {b} : g[c] = f[c]
      /\ \A c \in VatBatches \ {b} : i[c] = h[c]
  BY <1>2 DEF Gross, Money
<1>4. IsFiniteSet(VatBatches)
  BY MembershipVatAssumption
<1> HIDE DEF f, g, h, i
<1>5. /\ Total(g, VatBatches) = Total(f, VatBatches \ {b}) + g[b]
      /\ Total(f, VatBatches) = Total(f, VatBatches \ {b}) + f[b]
      /\ Total(f, VatBatches \ {b}) \in Nat
  BY <1>3, <1>4, TotalUpdate
<1>6. /\ Total(i, VatBatches) = Total(h, VatBatches \ {b}) + i[b]
      /\ Total(h, VatBatches) = Total(h, VatBatches \ {b}) + h[b]
      /\ Total(h, VatBatches \ {b}) \in Nat
  BY <1>3, <1>4, TotalUpdate
<1> QED
  BY <1>1, <1>3, <1>5, <1>6

-----------------------------------------------------------------------------
(* What the batches took together covers what each one took.               *)
LEMMA CollectedType ==
  ASSUME taken \in [VatBatches -> Gross]
  PROVE  /\ Collected.cents \in Nat /\ Collected.vat \in Nat
         /\ \A b \in VatBatches : taken[b].cents <= Collected.cents
<1> DEFINE f == [c \in VatBatches |-> taken[c].cents]
           h == [c \in VatBatches |-> taken[c].vat]
<1>1. Collected.cents = Total(f, VatBatches) /\ Collected.vat = Total(h, VatBatches)
  BY DEF Collected
<1>2. /\ \A c \in VatBatches : f[c] \in Nat
      /\ \A c \in VatBatches : h[c] \in Nat
      /\ \A c \in VatBatches : f[c] = taken[c].cents
  BY DEF Gross, Money
<1>3. IsFiniteSet(VatBatches)
  BY MembershipVatAssumption
<1> HIDE DEF f, h
<1>4. /\ IsFiniteSet(UnitsIn(f, VatBatches))
      /\ Total(f, VatBatches) \in Nat /\ Total(h, VatBatches) \in Nat
  BY <1>2, <1>3, TotalType
<1>5. ASSUME NEW b \in VatBatches PROVE taken[b].cents <= Collected.cents
  <2>1. /\ Total(f, VatBatches) = Total(f, VatBatches \ {b}) + f[b]
        /\ Total(f, VatBatches \ {b}) \in Nat
    BY <1>2, <1>4, TotalLeave
  <2> QED
    BY <1>1, <1>2, <2>1
<1> QED
  BY <1>1, <1>4, <1>5

(* A founding member or one that owes the first fee.                       *)
LEMMA VatInit_Inv == VatInit => VatInv
<1> SUFFICES ASSUME VatInit PROVE VatInv
  OBVIOUS
<1>1. /\ balance \in Gross /\ forgiven \in Gross /\ charged = balance
      /\ forgiven.cents = 0 /\ forgiven.vat = 0 /\ charged.cents <= FeeCents
  BY SomeMoney DEF VatInit
<1>2. taken = [b \in VatBatches |-> NoMoney] /\ taken \in [VatBatches -> Gross]
  BY SomeMoney DEF VatInit
<1>3. Collected.cents = 0 /\ Collected.vat = 0
  <2> DEFINE f == [c \in VatBatches |-> taken[c].cents]
             h == [c \in VatBatches |-> taken[c].vat]
  <2>1. \A c \in VatBatches : f[c] = 0
    BY <1>2, SomeMoney
  <2>2. \A c \in VatBatches : h[c] = 0
    BY <1>2, SomeMoney
  <2>3. Collected.cents = Total(f, VatBatches) /\ Collected.vat = Total(h, VatBatches)
    BY DEF Collected
  <2> HIDE DEF f, h
  <2> QED
    BY <2>1, <2>2, <2>3, TotalZero
<1>4. Conserves
  BY <1>1, <1>3 DEF Conserves, Gross, Money
<1> QED
  BY <1>1, <1>2, <1>4, SomeMoney, MembershipVatAssumption DEF VatInit, VatInv

(* A recompute keeps the invariant.                                        *)
LEMMA TakesOffsetKeeps ==
  ASSUME VatInv, NEW b \in VatBatches, TakesOffset(b)
  PROVE  VatInv'
<1>1. PICK restoreOnly \in BOOLEAN :
        \E cents \in 0 .. VatDue(b, restoreOnly).cents :
          LET new == [cents |-> cents,
                      vat |-> VatOf(VatDue(b, restoreOnly), cents, restoreOnly)]
          IN /\ taken' = [taken EXCEPT ![b] = new]
             /\ balance' = BalanceAfter(b, new, restoreOnly)
             /\ UNCHANGED <<year, forgiven, charged>>
  <2>1. PICK exempt \in BOOLEAN :
          \E cents \in 0 .. VatDue(b, exempt \/ YearOf[b] # year).cents :
            LET new == [cents |-> cents,
                        vat |-> VatOf(VatDue(b, exempt \/ YearOf[b] # year), cents,
                                      exempt \/ YearOf[b] # year)]
            IN /\ taken' = [taken EXCEPT ![b] = new]
               /\ balance' = BalanceAfter(b, new, exempt \/ YearOf[b] # year)
               /\ UNCHANGED <<year, forgiven, charged>>
    BY Zenon DEF TakesOffset
  <2>2. (exempt \/ YearOf[b] # year) \in BOOLEAN
    OBVIOUS
  <2> QED
    BY <2>1, <2>2, Zenon
<1>2. PICK cents \in 0 .. VatDue(b, restoreOnly).cents :
        LET new == [cents |-> cents,
                    vat |-> VatOf(VatDue(b, restoreOnly), cents, restoreOnly)]
        IN /\ taken' = [taken EXCEPT ![b] = new]
           /\ balance' = BalanceAfter(b, new, restoreOnly)
           /\ UNCHANGED <<year, forgiven, charged>>
  BY <1>1
<1> DEFINE new == [cents |-> cents, vat |-> VatOf(VatDue(b, restoreOnly), cents, restoreOnly)]
<1>3. /\ new \in Gross /\ balance' \in Gross
      /\ balance'.cents + new.cents = balance.cents + taken[b].cents
      /\ balance'.vat + new.vat = balance.vat + taken[b].vat
  <2>1. \A n : n = new =>
          /\ n \in Gross /\ BalanceAfter(b, n, restoreOnly) \in Gross
          /\ BalanceAfter(b, n, restoreOnly).cents + n.cents = balance.cents + taken[b].cents
          /\ BalanceAfter(b, n, restoreOnly).vat + n.vat = balance.vat + taken[b].vat
    BY OffsetMoves
  <2> QED
    BY <1>2, <2>1
<1>4. taken' = [taken EXCEPT ![b] = new] /\ UNCHANGED <<year, forgiven, charged>>
  BY <1>2
<1> HIDE DEF new
<1>5. /\ Collected.cents \in Nat /\ Collected.vat \in Nat
      /\ Collected'.cents + taken[b].cents = Collected.cents + new.cents
      /\ Collected'.vat + taken[b].vat = Collected.vat + new.vat
      /\ Collected'.cents \in Nat /\ Collected'.vat \in Nat
  BY <1>3, <1>4, CollectedChanges
<1>6. /\ balance \in Gross /\ taken[b] \in Gross /\ forgiven \in Gross /\ charged \in Gross
      /\ Conserves
  BY DEF VatInv
<1>7. /\ balance'.cents + forgiven.cents + Collected'.cents = charged.cents
      /\ balance'.vat + forgiven.vat + Collected'.vat = charged.vat
  BY <1>3, <1>5, <1>6 DEF Conserves, Gross, Money
<1>8. Conserves'
  BY <1>4, <1>7 DEF Conserves
<1>9. taken' \in [VatBatches -> Gross]
  BY <1>3, <1>4 DEF VatInv
<1> QED
  BY <1>3, <1>4, <1>8, <1>9 DEF VatInv

(* A renewal writes off what is left and charges at most one more fee.     *)
LEMMA RenewsKeeps ==
  ASSUME VatInv, Renews
  PROVE  VatInv'
<1>1. /\ balance \in Gross /\ forgiven \in Gross /\ charged \in Gross
      /\ taken \in [VatBatches -> Gross] /\ Conserves
      /\ year \in Nat /\ charged.cents <= FeeCents * year
  BY DEF VatInv
<1>2. /\ balance' \in Gross /\ balance'.cents <= FeeCents
      /\ forgiven' = Plus(forgiven, balance) /\ charged' = Plus(charged, balance')
      /\ year' = year + 1 /\ year < MaxYears /\ UNCHANGED taken
  BY SomeMoney DEF Renews
<1>3. forgiven' \in Gross /\ charged' \in Gross
  BY <1>1, <1>2, SomeMoney
<1>4. charged'.cents <= FeeCents * year'
  <2>1. FeeCents * (year + 1) = FeeCents * year + FeeCents
    BY <1>1, SomeMoney
  <2>2. charged'.cents = charged.cents + balance'.cents
    BY <1>2 DEF Plus
  <2>3. FeeCents * year \in Nat
    BY <1>1, SomeMoney
  <2> QED
    BY <1>1, <1>2, <2>1, <2>2, <2>3, SomeMoney DEF Gross, Money
<1>5. Conserves'
  <2>1. Collected' = Collected
    BY <1>2 DEF Collected
  <2>2. Collected.cents \in Nat /\ Collected.vat \in Nat
    BY <1>1, CollectedType
  <2>3. /\ forgiven'.cents = forgiven.cents + balance.cents
        /\ forgiven'.vat = forgiven.vat + balance.vat
        /\ charged'.cents = charged.cents + balance'.cents
        /\ charged'.vat = charged.vat + balance'.vat
    BY <1>2 DEF Plus
  <2> QED
    BY <1>1, <1>2, <2>1, <2>2, <2>3 DEF Conserves, Gross, Money
<1> QED
  BY <1>1, <1>2, <1>3, <1>4, <1>5, MembershipVatAssumption DEF VatInv

(* The invariant is inductive.                                             *)
LEMMA VatNext_Inv == VatInv /\ [VatNext]_vatVars => VatInv'
<1>1. ASSUME VatInv, UNCHANGED vatVars PROVE VatInv'
  BY <1>1 DEF vatVars, VatInv, Conserves, Collected
<1> QED
  BY <1>1, TakesOffsetKeeps, RenewsKeeps DEF VatNext

(* No sum exceeds the fees of all the years.                               *)
LEMMA VatInv_TypeOK == VatInv => VatTypeOK
<1> SUFFICES ASSUME VatInv PROVE VatTypeOK
  OBVIOUS
<1>1. FeeCents * year <= FeeCents * MaxYears /\ FeeCents * MaxYears \in Nat
      /\ FeeCents * year \in Nat
  <2>1. PICK d \in Nat : MaxYears = year + d
    <3>1. MaxYears - year \in Nat /\ MaxYears = year + (MaxYears - year)
      BY MembershipVatAssumption DEF VatInv
    <3> QED
      BY <3>1
  <2>2. FeeCents * MaxYears = FeeCents * year + FeeCents * d /\ FeeCents * d \in Nat
    BY <2>1, SomeMoney DEF VatInv
  <2>3. FeeCents * year \in Nat
    BY SomeMoney DEF VatInv
  <2> QED
    BY <2>2, <2>3
<1>2. \A m \in Gross : m.cents <= charged.cents => m \in Amount
  BY <1>1 DEF VatInv, Gross, Money, Amount
<1>3. /\ Collected.cents \in Nat
      /\ \A b \in VatBatches : taken[b].cents <= Collected.cents
  BY CollectedType DEF VatInv
<1>4. /\ balance.cents <= charged.cents /\ forgiven.cents <= charged.cents
      /\ Collected.cents <= charged.cents
  BY <1>3 DEF VatInv, Conserves, Gross, Money
<1>5. \A b \in VatBatches : taken[b].cents <= charged.cents
  <2> SUFFICES ASSUME NEW b \in VatBatches PROVE taken[b].cents <= charged.cents
    OBVIOUS
  <2>1. taken[b].cents \in Nat /\ charged.cents \in Nat
    BY DEF VatInv, Gross, Money
  <2> QED
    BY <1>3, <1>4, <2>1
<1>6. charged.cents \in Nat /\ charged.cents <= charged.cents
  BY DEF VatInv, Gross, Money
<1> QED
  BY <1>2, <1>4, <1>5, <1>6 DEF VatInv, VatTypeOK

(* lockAndResolveDue and persistOffset, through every order of recomputes  *)
(* and renewals: no kurus of fee or of its VAT is lost or collected twice, *)
(* whatever the fee, its VAT and the number of batches and years.          *)
THEOREM FeesAreConserved == VatSpec => []VatConserved
<1>1. VatInv => VatConserved
  <2> SUFFICES ASSUME VatInv PROVE VatConserved
    OBVIOUS
  <2>1. charged = [cents |-> charged.cents, vat |-> charged.vat]
    BY DEF VatInv, Gross, Money
  <2>2. Plus(Plus(balance, forgiven), Collected) =
          [cents |-> balance.cents + forgiven.cents + Collected.cents,
           vat |-> balance.vat + forgiven.vat + Collected.vat]
    BY DEF Plus
  <2> QED
    BY <2>1, <2>2 DEF VatInv, Conserves, VatConserved
<1> QED
  BY <1>1, VatInit_Inv, VatNext_Inv, PTL DEF VatSpec

(* splitMembershipOffsetVat: no rounding ever leaves a part of the fee     *)
(* with more VAT than it is worth.                                         *)
THEOREM PartsCoverTheirVat == VatSpec => []VatWithinAmount
<1>1. VatInv => VatWithinAmount
  BY DEF VatInv, VatWithinAmount, Gross
<1> QED
  BY <1>1, VatInit_Inv, VatNext_Inv, PTL DEF VatSpec

-----------------------------------------------------------------------------
(* All of them side by side                                                *)

(* Each service starts as it does alone.                                   *)
LEMMA ServicesStart ==
  RequestInit =>
    /\ Init /\ SessionsInit /\ OtpInit /\ RatingsInit /\ InvoicingInit
    /\ ModerationInit /\ VatInit /\ service \in RequestServiceNames
BY DEF RequestInit

(* A step of one service is a step of that one and none of the others.     *)
LEMMA ServicesStep ==
  [RequestNext]_requestVars =>
    /\ [Next]_vars
    /\ [SessionsNext]_sessionVars
    /\ [OtpNext]_otpVars
    /\ [RatingsNext]_ratingsVars
    /\ [InvoicingNext]_invoicingVars
    /\ [ModerationNext]_moderationVars
    /\ [VatNext]_vatVars
    /\ UNCHANGED service
BY Zenon DEF RequestNext, Moves, requestVars

(* Side by side, each service behaves as its own specification says, so    *)
(* what is proved of it alone holds of it here.                            *)
THEOREM EachServiceRuns ==
  RequestSpec =>
    /\ Spec /\ SessionsSpec /\ OtpSpec /\ RatingsSpec /\ InvoicingSpec
    /\ ModerationSpec /\ VatSpec
BY ServicesStart, ServicesStep, PTL
   DEF RequestSpec, Spec, SessionsSpec, OtpSpec, RatingsSpec, InvoicingSpec,
       ModerationSpec, VatSpec

(* The transactions of the ratings, the idle ones included.                *)
LEMMA RatingsInv_TypeOK == RatingsInv => RatingsTypeOK
<1> SUFFICES ASSUME RatingsInv PROVE RatingsTypeOK
  OBVIOUS
<1>1. Tx = RatingTx
  BY DEF Tx, RatingTx, Phases
<1>2. NoRatingTx \in Tx
  <2>1. (CHOOSE i \in RatingIds : TRUE) \in RatingIds
    BY RatingsAssumption
  <2> QED
    BY <2>1 DEF NoRatingTx, Tx, Phases, RatingStatuses
<1>3. ratingTx \in [RatingTxs -> RatingTx]
  BY <1>1, <1>2 DEF RatingsInv, TxTypes
<1> QED
  BY <1>3 DEF RatingsInv, TxTypes, AggregateIsFresh, RatingsTypeOK

(* Every service keeps its variables within their types.                   *)
THEOREM RequestTypes == RequestSpec => []RequestTypeOK
<1>1. service \in RequestServiceNames /\ UNCHANGED service => (service \in RequestServiceNames)'
  OBVIOUS
<1>2. /\ service \in RequestServiceNames
      /\ SessionsInv /\ OtpInv /\ RatingsInv /\ InvoicingInv /\ ModerationInv /\ VatInv
      => RequestTypeOK
  BY VatInv_TypeOK, RatingsInv_TypeOK, Zenon
     DEF RequestTypeOK, SessionsInv, OtpInv, InvoicingInv, ModerationInv
<1> QED
  BY <1>1, <1>2, ServicesStart, ServicesStep, SessionsInit_Inv, SessionsNext_Inv,
     OtpInit_Inv, OtpNext_Inv, RatingsInit_Inv, RatingsNext_Inv, InvoicingInit_Inv,
     InvoicingNext_Inv, ModerationInit_Inv, ModerationNext_Inv, VatInit_Inv, VatNext_Inv, PTL
     DEF RequestSpec
=============================================================================
