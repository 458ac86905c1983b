--------------------------- MODULE WorkflowRegistry ---------------------------
(***************************************************************************)
(* The catalogue of complaint workflows (workflows/workflow_registry.py):  *)
(* who may file a complaint, which transactions it is about, and which     *)
(* statuses confirm or refute it.                                          *)
(***************************************************************************)

TopupSpec ==
  [subjects |-> {"wallet_user"}, services |-> {"wallet_topup"},
   issue |-> {"pending", "failed", "error", "processing"},
   no_issue |-> {"completed", "success", "confirmed"}]

TrainSpec ==
  [subjects |-> {"wallet_user"}, services |-> {"train_ticket"},
   issue |-> {"pending", "failed", "error"},
   no_issue |-> {"completed", "success"}]

UtilitySpec ==
  [subjects |-> {"wallet_user"}, services |-> {"electric_bill", "water_bill"},
   issue |-> {"pending", "failed", "error"},
   no_issue |-> {"completed", "success"}]

AccountLockSpec ==
  [subjects |-> {"wallet_user"}, services |-> {},
   issue |-> {"locked", "suspended", "under_review"},
   no_issue |-> {"active"}]

SettlementSpec ==
  [subjects |-> {"merchant"}, services |-> {},
   issue |-> {"pending", "delayed", "failed"},
   no_issue |-> {"completed", "paid"}]

\* The registry after _register_builtin_workflows.
Registry ==
  [wallet_topup |-> TopupSpec, train_ticket |-> TrainSpec,
   utility_bill |-> UtilitySpec, fraud_account_lock |-> AccountLockSpec,
   merchant_settlement_delay |-> SettlementSpec]

KnownWorkflows == DOMAIN Registry

TransactionWorkflows == {"wallet_topup", "train_ticket", "utility_bill"}

\* What the message analyzer may hint at.
Hints == KnownWorkflows \cup {"unknown"}

\* get_service_types: an unregistered workflow, and a registered one that is
\* not about transactions, filters nothing.
InScope(service, workflow) ==
  \/ workflow \notin KnownWorkflows
  \/ Registry[workflow].services = {}
  \/ service \in Registry[workflow].services
=============================================================================
