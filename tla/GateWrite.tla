------------------------------ MODULE GateWrite ------------------------------
(***************************************************************************)
(* One write on its way into the database: the door that authorizes and    *)
(* signs its rows, persist that verifies them again, the SECURITY DEFINER  *)
(* functions of the schema gate that verify them a third time, with the    *)
(* secret of the vault, and execute them, and the bridge that commits or   *)
(* rolls back.  Every refusal is to leave a trace: a row of reject_data or *)
(* of service_alerts, written in a session of its own because the session  *)
(* of the write is rolled back.                                            *)
(*                                                                         *)
(* The secret is kept in three places: the vault, the settings a process   *)
(* reads when it starts, and the process that has read them.  An operator  *)
(* changes the first two one after the other, and restarts processes.      *)
(*                                                                         *)
(* The pipelined writers (PoolWriter, SitemapWalk, Matching) call the gate *)
(* without these steps and are modelled in their modules.                  *)
(***************************************************************************)
EXTENDS Integers, FiniteSets, Sequences

CONSTANTS
    Secret,         \* the values the signing secret takes
    NoSecret,       \* no secret is set
    MaxDefects,     \* bound: what may be wrong with one row
    MaxFaults,      \* bound: isolated writes, statements and processes that fail
    MaxChanges      \* bound: changes of the vault and of the settings

VARIABLES
    vault,          \* the secret the gate verifies with
    setting,        \* the secret a process reads when it starts
    cached,         \* the secret this process signs with
    pc,             \* where the write is
    req,            \* its door, table, operation and rows; a row is what is wrong with it
    rejects,        \* the rows of the request that have a committed row in reject_data
    alerted,        \* a service alert about the request is committed
    stored,         \* the rows that are committed
    reason,         \* why persist or the gate refused it
    answer,         \* what the caller of the bridge is told
    lost,           \* an isolated write about this request failed
    faults, changes

vars == <<vault, setting, cached, pc, req, rejects, alerted, stored, reason, answer, lost, faults, changes>>

-----------------------------------------------------------------------------
\* The windows of retention: the tables a cutoff may empty.
RETENTION_TABLES == {"service_alerts", "reject_data", "scrape_logs", "api_logs"}

\* What the doors of the scraper sign: updates by kind, deletes by locator.
SCRAPE_UPDATE_ALLOWLIST == {"fact_listing", "dim_category", "dim_product"} \X {"update"}
SCRAPE_DELETE_TABLES == {"fact_listing", "dim_product"} \X {"delete"}

\* What the callers ask the META door for.
MetaCallers ==
    ({"dim_date", "dim_product", "dim_brand", "dim_category", "fact_listing", "fact_currency_rate",
      "fact_crypto_price", "fact_commodity_price", "dim_marketplace", "scrape_jobs", "service_alerts"} \X {"insert"})
    \cup ({"dim_marketplace", "scrape_jobs", "service_alerts"} \X {"update"})
    \cup {<<"dim_marketplace", "delete">>}

\* The kinds of the alert door name their table and operation.
KIND_TARGETS == ({"alerts"} \X {"insert", "update", "delete"}) \cup {<<"alert_events", "insert">>}

USER_KINDS == {"users"} \X {"insert", "update", "delete"}
CHAT_INSERT_ALLOWLIST == {"ai_chat_sessions", "ai_chat_messages"} \X {"insert"}

\* The tables and operations each door is asked for.
Targets ==
    [scrape    |-> SCRAPE_UPDATE_ALLOWLIST \cup SCRAPE_DELETE_TABLES,
     meta      |-> MetaCallers,
     ecommerce |-> {<<"fact_price", "insert">>},
     logs      |-> {"scrape_logs", "api_logs"} \X {"insert"},
     user      |-> USER_KINDS,
     chat      |-> CHAT_INSERT_ALLOWLIST,
     alert     |-> KIND_TARGETS,
     retention |-> RETENTION_TABLES \X {"retention_delete"}]

\* The checks of a door, in their order; the first that fails is the reason of the refusal.
ScrapeUpdateChecks == <<"kind", "locator", "nothing", "column", "reactivation">>
ScrapeDeleteChecks == <<"kind", "locator", "column">>
UserChecks(op) ==
    CASE op = "insert" -> <<"locator", "kind", "column", "semantic", "contract">>
      [] op = "update" -> <<"locator", "kind", "nothing", "column", "semantic", "contract">>
      [] op = "delete" -> <<"locator", "kind", "column">>
ChatChecks == <<"operation", "kind", "locator", "owner", "column", "role", "contract">>
AlertChecks == <<"kind", "column", "semantic", "contract", "locator">>
MarketChecks == <<"contract", "locator">>
EcommerceChecks == <<"rules", "page_role", "contract">>
RetentionChecks == <<"table", "fields", "cutoff_column", "cutoff">>

Checks(door, op) ==
    CASE door = "scrape"    -> IF op = "delete" THEN ScrapeDeleteChecks ELSE ScrapeUpdateChecks
      [] door = "meta"      -> MarketChecks
      [] door = "ecommerce" -> EcommerceChecks
      [] door = "logs"      -> <<"contract">>
      [] door = "user"      -> UserChecks(op)
      [] door = "chat"      -> ChatChecks
      [] door = "alert"     -> AlertChecks
      [] door = "retention" -> RetentionChecks

\* extract_locator raises in the doors that do not look for the locator themselves.
Raises(door, check) == check = "locator" /\ door \in {"meta", "alert"}

\* The first check a row fails; a row that passes them all still needs the secret.
Verdict(door, op, row) ==
    LET checks == Checks(door, op)
        failed == {k \in DOMAIN checks : checks[k] \in row}
    IN  IF failed # {} THEN checks[CHOOSE k \in failed : \A j \in failed : k <= j]
        ELSE IF cached = NoSecret THEN "signing_unavailable" ELSE "passed"

-----------------------------------------------------------------------------
\* persist's own table of the operations it writes.
Crud == {"insert", "update", "delete"}
SUPPORTED_WRITE_OPERATIONS(table) ==
    CASE table \in {"dim_product", "dim_marketplace", "alerts", "scrape_jobs", "fact_listing", "users"} -> Crud
      [] table \in {"dim_brand", "dim_category"} -> {"insert", "update"}
      [] table \in {"fact_price", "fact_currency_rate", "fact_crypto_price", "fact_commodity_price"} -> {"insert", "delete"}
      [] table \in {"scrape_logs", "api_logs"} -> {"insert", "retention_delete"}
      [] table = "service_alerts" -> {"insert", "update", "retention_delete"}
      [] table = "reject_data" -> {"retention_delete"}
      [] table \in {"dim_date", "alert_events", "ai_chat_sessions", "ai_chat_messages"} -> {"insert"}

\* Mutant: the gate without the migration that lets an administrator resolve a service alert.
OperationAllowedBefore050(table) ==
    IF table = "service_alerts" THEN {"insert", "retention_delete"} ELSE SUPPORTED_WRITE_OPERATIONS(table)

\* The gate's table of them, as the migrations 039 to 050 leave it.
OperationAllowed(table) ==
    CASE table \in {"dim_product", "dim_marketplace", "scrape_jobs", "fact_listing", "users"} -> Crud
      [] table \in {"dim_brand", "dim_category"} -> {"insert", "update"}
      [] table = "alerts" -> Crud
      [] table \in {"fact_price", "fact_currency_rate", "fact_crypto_price", "fact_commodity_price"} -> {"insert", "delete"}
      [] table \in {"scrape_logs", "api_logs"} -> {"insert", "retention_delete"}
      [] table = "service_alerts" -> {"insert", "update", "retention_delete"}
      [] table = "reject_data" -> {"retention_delete"}
      [] table \in {"dim_date", "alert_events", "ai_chat_sessions", "ai_chat_messages"} -> {"insert"}
      [] OTHER -> {}

\* The columns that name a row: those the doors sign as its locator, and those the gate looks for.
TABLE_LOCATORS(table) ==
    CASE table \in {"alert_events", "scrape_logs", "api_logs", "reject_data"} -> {}
      [] table = "dim_date" -> {"date_id"}
      [] table = "fact_price" -> {"listing_id", "date_id"}
      [] table = "fact_listing" -> {"url_hash"}
      [] table = "fact_currency_rate" -> {"date_id", "currency_code", "source"}
      [] table \in {"fact_crypto_price", "fact_commodity_price"} -> {"date_id", "symbol", "source"}
      [] OTHER -> {"id"}

LocatorKeys(table) ==
    CASE table \in {"alert_events", "scrape_logs", "api_logs", "reject_data"} -> {}
      [] table = "dim_date" -> {"date_id"}
      [] table = "fact_price" -> {"listing_id", "date_id"}
      [] table = "fact_listing" -> {"url_hash"}
      [] table = "fact_currency_rate" -> {"date_id", "currency_code", "source"}
      [] table \in {"fact_crypto_price", "fact_commodity_price"} -> {"date_id", "symbol", "source"}
      [] OTHER -> {"id"}

-----------------------------------------------------------------------------
\* A log batch has several rows, every other request one.
Defects(door, op) == LET checks == Checks(door, op) IN {checks[k] : k \in DOMAIN checks}
RowsOf(door, op) ==
    LET row == {d \in SUBSET Defects(door, op) : Cardinality(d) <= MaxDefects}
    IN  IF door = "logs" THEN [1..2 -> row] ELSE [1..1 -> row]

NoRequest == [door |-> "none", table |-> "none", op |-> "none", rows |-> <<>>]

Init ==
    /\ vault \in Secret /\ setting = vault /\ cached = vault
    /\ pc = "idle" /\ req = NoRequest
    /\ rejects = {} /\ alerted = FALSE /\ stored = {} /\ reason = "none" /\ answer = "none"
    /\ lost = FALSE /\ faults = 0 /\ changes = 0

Secrets == <<vault, setting, cached, changes>>
Traces == <<rejects, alerted, lost>>

\* The rows the door has signed.
Signed == {k \in DOMAIN req.rows : Verdict(req.door, req.op, req.rows[k]) = "passed"}

\* write_reject_data_isolated, write_service_alert_isolated: they log their own failure.
Isolated(written, failing) ==
    /\ failing => faults < MaxFaults
    /\ faults' = IF failing THEN faults + 1 ELSE faults
    /\ lost' = (lost \/ failing)
    /\ IF failing THEN UNCHANGED <<rejects, alerted>> ELSE written

RejectRows(rows) == rejects' = rejects \cup rows /\ UNCHANGED alerted
RaiseAlert == alerted' = TRUE /\ UNCHANGED rejects

\* The bridge rolls back, and answers.
Answer(a) == pc' = "done" /\ answer' = a /\ UNCHANGED <<stored, req>>

-----------------------------------------------------------------------------
\* A caller opens the bridge; the request before has been answered.
Submit ==
    /\ pc \in {"idle", "done"}
    /\ \E door \in DOMAIN Targets : \E target \in Targets[door] : \E rows \in RowsOf(door, target[2]) :
         req' = [door |-> door, table |-> target[1], op |-> target[2], rows |-> rows]
    /\ pc' = "door"
    /\ rejects' = {} /\ alerted' = FALSE /\ stored' = {} /\ reason' = "none" /\ answer' = "none" /\ lost' = FALSE
    /\ UNCHANGED <<vault, setting, cached, faults, changes>>

\* The door: refused rows go to reject_data at once, each in a session of its own.
Authorize ==
    /\ pc = "door"
    /\ LET verdict(k) == Verdict(req.door, req.op, req.rows[k])
           refused == DOMAIN req.rows \ Signed
       IN  IF \E k \in refused : Raises(req.door, verdict(k))
             THEN Answer("error") /\ UNCHANGED <<Traces, faults>>
             ELSE /\ IF refused = {} THEN UNCHANGED <<Traces, faults>>
                       ELSE \E failing \in BOOLEAN : Isolated(RejectRows(refused), failing)
                  /\ IF Signed # {} THEN pc' = "persist" /\ UNCHANGED <<answer, stored, req>>
                       ELSE IF req.door = "retention" THEN pc' = "failure_alert" /\ UNCHANGED <<answer, stored, req>>
                       ELSE Answer("refused")
    /\ UNCHANGED <<Secrets, reason>>

\* write_sync, write_batch_sync: the second look at what the door has signed.
PersistRefuses ==
    \/ TABLE_LOCATORS(req.table) # {} /\ \E k \in Signed : "locator" \in req.rows[k]
    \/ req.op \notin SUPPORTED_WRITE_OPERATIONS(req.table)
    \/ req.op = "update" /\ \E k \in Signed : "nothing" \in req.rows[k]

\* A refusal of persist leaves its row in the session that is about to be rolled back.
RejectPersist ==
    /\ pc = "persist" /\ PersistRefuses
    /\ reason' = "persist"
    /\ IF req.door = "retention" THEN pc' = "failure_alert" /\ UNCHANGED <<answer, stored, req>> ELSE Answer("refused")
    /\ UNCHANGED <<Secrets, Traces, faults>>

\* retention_delete_table: a refusal is also reported through the META door, if that is open.
EmitFailureAlert ==
    /\ pc = "failure_alert"
    /\ IF cached # NoSecret /\ cached = vault
         THEN \E failing \in BOOLEAN : Isolated(RaiseAlert, failing)
         ELSE UNCHANGED <<Traces, faults>>
    /\ Answer("refused")
    /\ UNCHANGED <<Secrets, reason>>

\* exec_write, exec_write_batch as far as the signature.
AssertSignature ==
    /\ pc = "persist" /\ ~PersistRefuses
    /\ pc' = CASE vault = NoSecret  -> "signing_unavailable"
               [] vault # cached    -> "invalid_signature"
               [] OTHER             -> "execute"
    /\ UNCHANGED <<Secrets, req, Traces, stored, reason, answer, faults>>

\* Mutant: the row of reject_data is taken for the backup it is documented as.
HandleInvalidSignatureSilently ==
    /\ pc = "invalid_signature"
    /\ reason' = "invalid_signature" /\ Answer("refused") /\ UNCHANGED <<Secrets, Traces, faults>>

\* _handle_gate_invalid_signature: the transaction is aborted, so the row of reject_data cannot be
\* flushed; the service alert has a session of its own.
HandleInvalidSignature ==
    /\ pc = "invalid_signature"
    /\ \E failing \in BOOLEAN : Isolated(RaiseAlert, failing)
    /\ reason' = "invalid_signature"
    /\ IF req.door = "retention" THEN pc' = "failure_alert" /\ UNCHANGED <<answer, stored, req>> ELSE Answer("refused")
    /\ UNCHANGED Secrets

\* _handle_gate_signing_unavailable: an alert, and the exception goes to the caller.
HandleSigningUnavailable ==
    /\ pc = "signing_unavailable"
    /\ \E failing \in BOOLEAN : Isolated(RaiseAlert, failing)
    /\ reason' = "signing_unavailable" /\ Answer("raised")
    /\ UNCHANGED Secrets

\* _handle_gate_rpc_error: whatever else the gate or the database raises.
HandleRpcError ==
    /\ pc = "rpc_error"
    /\ \E failing \in BOOLEAN : Isolated(RaiseAlert, failing)
    /\ Answer("raised")
    /\ UNCHANGED <<Secrets, reason>>

\* The statement: an operation the gate does not know and a statement that fails both raise.
Execute ==
    /\ pc = "execute"
    /\ \/ /\ req.op \notin OperationAllowed(req.table)
          /\ pc' = "rpc_error" /\ reason' = "unsupported_operation" /\ UNCHANGED faults
       \/ /\ req.op \in OperationAllowed(req.table)
          /\ pc' = "commit" /\ UNCHANGED <<reason, faults>>
       \/ /\ faults < MaxFaults
          /\ faults' = faults + 1 /\ pc' = "rpc_error" /\ reason' = "database"
    /\ UNCHANGED <<Secrets, req, Traces, stored, answer>>

\* The bridge commits and answers. An update or a delete reaches its row by the columns the gate
\* looks for in the locator that was sent, and a row that is gone is an answer of its own.
Commit ==
    /\ pc = "commit" /\ pc' = "done"
    /\ \E found \in BOOLEAN :
         LET reached == \/ req.op \in {"insert", "retention_delete"}
                        \/ found /\ LocatorKeys(req.table) \subseteq TABLE_LOCATORS(req.table)
         IN  /\ stored' = IF reached THEN Signed ELSE {}
             /\ answer' = IF reached THEN "ok" ELSE IF found THEN "missed" ELSE "no_target"
    /\ UNCHANGED <<Secrets, req, Traces, reason, faults>>

\* The process dies, and the next one reads the settings again.
Restart ==
    /\ (pc \in {"idle", "done"} \/ faults < MaxFaults)
    /\ faults' = IF pc \in {"idle", "done"} THEN faults ELSE faults + 1
    /\ pc' = "idle" /\ cached' = setting
    /\ req' = NoRequest /\ rejects' = {} /\ alerted' = FALSE /\ stored' = {} /\ reason' = "none"
    /\ answer' = "none" /\ lost' = FALSE
    /\ UNCHANGED <<vault, setting, changes>>

\* An operator changes the secret, in the vault or in the settings first.
RotateVault ==
    /\ changes < MaxChanges
    /\ \E s \in Secret \cup {NoSecret} : s # vault /\ vault' = s
    /\ changes' = changes + 1
    /\ UNCHANGED <<setting, cached, pc, req, Traces, stored, reason, answer, faults>>

RotateSetting ==
    /\ changes < MaxChanges
    /\ \E s \in Secret \cup {NoSecret} : s # setting /\ setting' = s
    /\ changes' = changes + 1
    /\ UNCHANGED <<vault, cached, pc, req, Traces, stored, reason, answer, faults>>

Next ==
    \/ Submit \/ Authorize \/ RejectPersist \/ EmitFailureAlert \/ AssertSignature
    \/ HandleInvalidSignature \/ HandleSigningUnavailable \/ HandleRpcError
    \/ Execute \/ Commit \/ Restart \/ RotateVault \/ RotateSetting

Spec == Init /\ [][Next]_vars

-----------------------------------------------------------------------------
TypeOK ==
    /\ {vault, setting, cached} \subseteq Secret \cup {NoSecret}
    /\ pc \in {"idle", "door", "persist", "execute", "commit", "failure_alert", "invalid_signature",
               "signing_unavailable", "rpc_error", "done"}
    /\ rejects \cup stored \subseteq DOMAIN req.rows
    /\ alerted \in BOOLEAN /\ lost \in BOOLEAN
    /\ answer \in {"none", "ok", "refused", "raised", "error", "missed", "no_target"}
    /\ faults \in 0..MaxFaults /\ changes \in 0..MaxChanges

\* A row that was asked to be written is written, or it has left a trace: its row in reject_data, or a
\* service alert about the request. (data_firewall/reject_store.py: a reject that cannot be recorded is
\* a silent data loss.) Not so when the row named no row at all, when the row to write is gone, and
\* when the trace itself could not be written.
RefusalLeavesTrace ==
    pc = "done" /\ answer \notin {"error", "no_target"} /\ ~lost =>
        \A k \in DOMAIN req.rows : k \in stored \cup rejects \/ alerted

\* What a door has signed, persist and the gate write, as long as they share the secret: the three
\* tables of operations and the two of locators (contracts.py, writer.py, migrations 039 to 050) agree.
SignedIsAccepted ==
    /\ reason \notin {"persist", "unsupported_operation"}
    /\ answer # "missed"

=============================================================================
