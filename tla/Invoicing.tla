------------------------------ MODULE Invoicing ------------------------------
(***************************************************************************)
(* The commission invoices of one settlement batch that was sent: every    *)
(* delivery of the outbox event drafts and issues them, one type after the *)
(* other, and an admin may issue a draft again.  Deliveries overlap and    *)
(* repeat (OutboxWorker), and die at any statement.                        *)
(***************************************************************************)
EXTENDS Naturals, FiniteSets

CONSTANTS
  InvoiceIds,   \* bound: ids that commission_invoices rows may get
  Issuers,      \* bound: deliveries and admin requests at the same time
  MembershipToo \* the batch also has a membership offset to invoice

ASSUME InvoicingAssumption == InvoiceIds \subseteq Nat /\ MembershipToo \in BOOLEAN

VARIABLES
  invoice,   \* the commission_invoices rows of the batch
  document,  \* the invoice ids the e-document provider holds a document for
  issuer     \* what each delivery or admin request is doing

invoicingVars == <<invoice, document, issuer>>

-----------------------------------------------------------------------------
InvoiceTypes == {"BAG_FEE", "MEMBERSHIP"}

NoInvoice == [type |-> "BAG_FEE", status |-> "none"]

NoIssuer == [phase |-> "idle", type |-> "BAG_FEE", id |-> 0, admin |-> FALSE]

InvoicingTypeOK ==
  /\ invoice \in [InvoiceIds -> [type : InvoiceTypes, status : {"none", "DRAFT", "SENT"}]]
  /\ document \subseteq InvoiceIds
  /\ issuer \in [Issuers ->
       [phase : {"idle", "finding", "creating", "issuing", "recording"},
        type : InvoiceTypes, id : InvoiceIds \cup {0}, admin : BOOLEAN]]

InvoicingInit ==
  /\ invoice = [i \in InvoiceIds |-> NoInvoice]
  /\ document = {}
  /\ issuer = [d \in Issuers |-> NoIssuer]

-----------------------------------------------------------------------------
Drafted(type) == {i \in InvoiceIds : invoice[i].status # "none" /\ invoice[i].type = type}

(* createInvoicesForSentBatch goes on to the membership once the bag fee   *)
(* is done; adminReissue is about one invoice only.                        *)
AfterInvoice(d) ==
  IF MembershipToo /\ issuer[d].type = "BAG_FEE" /\ ~issuer[d].admin
  THEN [NoIssuer EXCEPT !.phase = "finding", !.type = "MEMBERSHIP"]
  ELSE NoIssuer

Goes(d, to) == issuer' = [issuer EXCEPT ![d] = to]

(* createAndIssue leaves an invoice alone that is not a draft any more.    *)
GoesOnWith(d, i) ==
  Goes(d, IF invoice[i].status = "DRAFT"
          THEN [issuer[d] EXCEPT !.phase = "issuing", !.id = i]
          ELSE AfterInvoice(d))

Deliver(d) ==
  /\ issuer[d].phase = "idle"
  /\ Goes(d, [NoIssuer EXCEPT !.phase = "finding"])
  /\ UNCHANGED <<invoice, document>>

(* findOrCreateDraft                                                       *)
FindDraft(d) ==
  /\ issuer[d].phase = "finding"
  /\ \/ \E i \in Drafted(issuer[d].type) : GoesOnWith(d, i)
     \/ /\ Drafted(issuer[d].type) = {}
        /\ Goes(d, [issuer[d] EXCEPT !.phase = "creating"])
  /\ UNCHANGED <<invoice, document>>

InsertDraft(d) ==
  \E i \in InvoiceIds :
    /\ invoice[i] = NoInvoice
    /\ invoice' = [invoice EXCEPT ![i] = [type |-> issuer[d].type, status |-> "DRAFT"]]
    /\ Goes(d, [issuer[d] EXCEPT !.phase = "issuing", !.id = i])

(* Mutant of CreateDraft: no unique (batchId, type), so nothing to adopt.  *)
CreateAnotherDraft(d) ==
  /\ issuer[d].phase = "creating"
  /\ InsertDraft(d)
  /\ UNCHANGED document

(* The unique (batchId, type) holds: the loser adopts the winner's row.    *)
CreateDraft(d) ==
  /\ issuer[d].phase = "creating"
  /\ \/ Drafted(issuer[d].type) = {} /\ InsertDraft(d)
     \/ /\ \E i \in Drafted(issuer[d].type) : GoesOnWith(d, i)
        /\ UNCHANGED invoice
  /\ UNCHANGED document

AdminReissue(d, i) ==
  /\ issuer[d].phase = "idle"
  /\ invoice[i].status = "DRAFT"
  /\ Goes(d, [phase |-> "issuing", type |-> invoice[i].type, id |-> i, admin |-> TRUE])
  /\ UNCHANGED <<invoice, document>>

(* facade.issue: the provider knows an invoice id it has seen before; its  *)
(* refusal, or an answer that is lost, ends the delivery with a throw.     *)
Issue(d) ==
  /\ issuer[d].phase = "issuing"
  /\ document' = document \cup {issuer[d].id}
  /\ \/ Goes(d, [issuer[d] EXCEPT !.phase = "recording"])
     \/ Goes(d, NoIssuer)
  /\ UNCHANGED invoice

(* Mutant of IssueFails: the catch logs and goes on.                       *)
IssueFailsQuietly(d) ==
  /\ issuer[d].phase = "issuing"
  /\ Goes(d, [issuer[d] EXCEPT !.phase = "recording"])
  /\ UNCHANGED <<invoice, document>>

IssueFails(d) ==
  /\ issuer[d].phase = "issuing"
  /\ Goes(d, NoIssuer)
  /\ UNCHANGED <<invoice, document>>

(* The update is by id alone.                                              *)
RecordIssued(d) ==
  /\ issuer[d].phase = "recording"
  /\ invoice' = [invoice EXCEPT ![issuer[d].id].status = "SENT"]
  /\ Goes(d, AfterInvoice(d))
  /\ UNCHANGED document

IssuerDies(d) ==
  /\ issuer[d].phase # "idle"
  /\ Goes(d, NoIssuer)
  /\ UNCHANGED <<invoice, document>>

-----------------------------------------------------------------------------
InvoicingNext ==
  \E d \in Issuers :
    \/ Deliver(d) \/ FindDraft(d) \/ CreateDraft(d)
    \/ \E i \in InvoiceIds : AdminReissue(d, i)
    \/ Issue(d) \/ IssueFails(d) \/ RecordIssued(d) \/ IssuerDies(d)

InvoicingSpec == InvoicingInit /\ [][InvoicingNext]_invoicingVars

-----------------------------------------------------------------------------
(* Properties                                                              *)

(* Overlapping deliveries, redeliveries after a lost answer or a failed    *)
(* record, and admins who issue a stuck draft again leave at most one      *)
(* e-document of a type behind, and an invoice is SENT only if it has one. *)
OneDocument ==
  /\ \A i, j \in document : invoice[i].type = invoice[j].type => i = j
  /\ \A i \in InvoiceIds : invoice[i].status = "SENT" => i \in document
=============================================================================
