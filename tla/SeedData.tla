------------------------------ MODULE SeedData ------------------------------
(***************************************************************************)
(* The constant tables of dispute-mcp-server, by the ids of their rows.    *)
(* Of a row the model keeps what refers to other rows, and the amount in   *)
(* cents; dates, names and texts are left out, and so is the currency,     *)
(* which is USD in all of them.  Where the code has a tuple of rows, here  *)
(* is the set of them; where it has one row, a set of one.                 *)
(***************************************************************************)
EXTENDS TLC

CaseRecord(c, customer, merchant, transaction, cents) ==
    [case_id |-> c, customer_id |-> customer, merchant_id |-> merchant,
     transaction_id |-> transaction, amount |-> cents]
\* Wrong on purpose: the customer and the merchant are swapped.
TransactionRecordSwapped(transaction, c, customer, merchant, cents) ==
    {CaseRecord(c, merchant, customer, transaction, cents)}

TransactionRecord(transaction, c, customer, merchant, cents) ==
    {CaseRecord(c, customer, merchant, transaction, cents)}
AuthorizationRecord(transaction, cents) ==
    {[transaction_id |-> transaction, amount |-> cents]}
SettlementRecord(transaction, cents) ==
    {[transaction_id |-> transaction, amount |-> cents]}
RefundOrReversalRecord(transaction, refund, cents) ==
    {[transaction_id |-> transaction, refund_id |-> refund, amount |-> cents]}
CustomerProfileRecord(customer) == {[customer_id |-> customer]}
PriorDisputeRecord(dispute, customer, c) ==
    {[dispute_id |-> dispute, customer_id |-> customer, case_id |-> c]}
RefundHistoryEntry(refund, customer, transaction, cents) ==
    {[refund_id |-> refund, customer_id |-> customer,
      transaction_id |-> transaction, amount |-> cents]}
MerchantEvidenceRecord(c, merchant) ==
    {[case_id |-> c, merchant_id |-> merchant]}
DeliveryDetailsRecord(c, delivered) ==
    {[case_id |-> c, delivered |-> delivered]}
CancellationDetailsRecord(c, cancelled) ==
    {[case_id |-> c, cancelled |-> cancelled]}

-----------------------------------------------------------------------------
CASES ==
    "CASE-1001" :> CaseRecord("CASE-1001", "CUST-3001", "MERCH-4001",
                    "TXN-2001", 8999)
 @@ "CASE-1002" :> CaseRecord("CASE-1002", "CUST-3002", "MERCH-4001",
                    "TXN-2002", 4500)
 @@ "CASE-1003" :> CaseRecord("CASE-1003", "CUST-3003", "MERCH-4002",
                    "TXN-2003", 12050)

TRANSACTIONS ==
    "TXN-2001" :> TransactionRecord("TXN-2001", "CASE-1001", "CUST-3001",
                    "MERCH-4001", 8999)
 @@ "TXN-2002" :> TransactionRecord("TXN-2002", "CASE-1002", "CUST-3002",
                    "MERCH-4001", 4500)
 @@ "TXN-2003" :> TransactionRecord("TXN-2003", "CASE-1003", "CUST-3003",
                    "MERCH-4002", 12050)

AUTHORIZATIONS ==
    "TXN-2001" :> AuthorizationRecord("TXN-2001", 8999)
 @@ "TXN-2002" :> AuthorizationRecord("TXN-2002", 4500)
 @@ "TXN-2003" :> AuthorizationRecord("TXN-2003", 12050)

SETTLEMENTS ==
    "TXN-2001" :> SettlementRecord("TXN-2001", 8999)
 @@ "TXN-2002" :> SettlementRecord("TXN-2002", 4500)
 @@ "TXN-2003" :> SettlementRecord("TXN-2003", 12050)

REFUNDS_OR_REVERSALS ==
    "TXN-2001" :> {}
 @@ "TXN-2002" :> RefundOrReversalRecord("TXN-2002", "REFUND-7001", 4500)
 @@ "TXN-2003" :> {}

CUSTOMER_PROFILES ==
    [customer \in {"CUST-3001", "CUST-3002", "CUST-3003"} |->
        CustomerProfileRecord(customer)]

\* The closed cases and the old transactions of the two histories are in no table.
PRIOR_DISPUTES ==
    "CUST-3001" :> PriorDisputeRecord("PRIORDISP-5001", "CUST-3001", "CASE-0501")
 @@ "CUST-3002" :> {}
 @@ "CUST-3003" :> PriorDisputeRecord("PRIORDISP-5002", "CUST-3003", "CASE-0502")
            \cup PriorDisputeRecord("PRIORDISP-5003", "CUST-3003", "CASE-0503")

REFUND_HISTORY ==
    "CUST-3001" :> RefundHistoryEntry("REFUNDHIST-6001", "CUST-3001", "TXN-1501", 1500)
 @@ "CUST-3002" :> {}
 @@ "CUST-3003" :> RefundHistoryEntry("REFUNDHIST-6002", "CUST-3003", "TXN-1502", 3000)

MERCHANT_EVIDENCE ==
    "CASE-1001" :> MerchantEvidenceRecord("CASE-1001", "MERCH-4001")
 @@ "CASE-1002" :> MerchantEvidenceRecord("CASE-1002", "MERCH-4001")
 @@ "CASE-1003" :> MerchantEvidenceRecord("CASE-1003", "MERCH-4002")

DELIVERY_DETAILS ==
    "CASE-1001" :> DeliveryDetailsRecord("CASE-1001", FALSE)
 @@ "CASE-1002" :> DeliveryDetailsRecord("CASE-1002", TRUE)
 @@ "CASE-1003" :> DeliveryDetailsRecord("CASE-1003", TRUE)

CANCELLATION_DETAILS ==
    "CASE-1001" :> CancellationDetailsRecord("CASE-1001", FALSE)
 @@ "CASE-1002" :> CancellationDetailsRecord("CASE-1002", FALSE)
 @@ "CASE-1003" :> CancellationDetailsRecord("CASE-1003", TRUE)

-----------------------------------------------------------------------------
\* The histories of a customer that has a profile; one without entries is empty.
History(table) ==
    [customer \in DOMAIN CUSTOMER_PROFILES |->
        IF customer \in DOMAIN table THEN table[customer] ELSE {}]

\* What the read tools answer, by tool and by the id they are given.
ReadTables ==
    [get_transaction          |-> TRANSACTIONS,
     get_authorization        |-> AUTHORIZATIONS,
     get_settlement           |-> SETTLEMENTS,
     get_refund_or_reversal   |-> REFUNDS_OR_REVERSALS,
     get_customer_profile     |-> CUSTOMER_PROFILES,
     get_prior_disputes       |-> History(PRIOR_DISPUTES),
     get_refund_history       |-> History(REFUND_HISTORY),
     get_merchant_evidence    |-> MERCHANT_EVIDENCE,
     get_delivery_details     |-> DELIVERY_DETAILS,
     get_cancellation_details |-> CANCELLATION_DETAILS]
=============================================================================
