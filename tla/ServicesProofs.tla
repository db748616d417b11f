--------------------------- MODULE ServicesProofs ---------------------------
(***************************************************************************)
(* Theorems about the writes through the gate, the prices of a listing,    *)
(* the alerts on them, and the path of a fetch.  Each is proved of the     *)
(* specification of its own module, and carried over to MCSpec, whose run  *)
(* checks it.                                                              *)
(***************************************************************************)
EXTENDS MCServices, FiniteSetTheorems, SequenceTheorems, WellFoundedInduction, TLAPS

allVars == <<part, vars, aVars, gVars>>

\* What a step of the composition is for the part it takes.
LEMMA GatePart ==
    ASSUME [MCNext]_allVars
    PROVE  part' = part /\ (part = "gate" => [G!Next]_gVars)
BY DEF allVars, MCNext, AlertParts

LEMMA AlertPart ==
    ASSUME [MCNext]_allVars
    PROVE  part' = part /\ (part \in AlertParts => [A!Next]_aVars)
BY DEF allVars, MCNext, AlertParts

LEMMA LeastOf == ASSUME NEW S \in SUBSET Nat, S # {} PROVE \E n \in S : \A m \in S : n <= m
<1>1. \A m, n \in Nat : m < n => <<m, n>> \in OpToRel(<, Nat)  BY DEF OpToRel
<1>2. \E less : (\A m, n \in Nat : m < n => <<m, n>> \in less) /\ \E n \in S : \A m \in S : ~(<<m, n>> \in less)
  BY <1>1, NatLessThanWellFounded, WFMin, Zenon
<1>3. PICK less : (\A m, n \in Nat : m < n => <<m, n>> \in less) /\ \E n \in S : \A m \in S : ~(<<m, n>> \in less)
  BY <1>2
<1>4. PICK n \in S : \A m \in S : ~(<<m, n>> \in less)  BY <1>3
<1>5. ASSUME NEW m \in S PROVE n <= m
  <2>1. m \in Nat /\ n \in Nat  OBVIOUS
  <2>2. ~(m < n)  BY <1>3, <1>4, <2>1, Zenon
  <2> QED  BY <2>1, <2>2
<1> QED  BY <1>5

-----------------------------------------------------------------------------
(***************************************************************************)
(* The gate.  A row that is wrong in any way fails a check of its door, so *)
(* that a row the door has signed is in order; and whatever a door is      *)
(* asked for, persist and the gate know.                                   *)
(***************************************************************************)
LEMMA DoorsAre ==
    DOMAIN G!Targets = {"scrape", "meta", "ecommerce", "logs", "user", "chat", "alert", "retention"}
BY DEF G!Targets

LEMMA TargetsKnown ==
    ASSUME NEW door \in DOMAIN G!Targets, NEW target \in G!Targets[door]
    PROVE  /\ target[2] \in G!SUPPORTED_WRITE_OPERATIONS(target[1])
           /\ target[2] \in G!OperationAllowed(target[1])
           /\ door = "user" => target[2] \in {"insert", "update", "delete"}
<1> USE DEF G!SUPPORTED_WRITE_OPERATIONS, G!OperationAllowed, G!Crud
<1>1. CASE door = "scrape"
  BY <1>1 DEF G!Targets, G!SCRAPE_UPDATE_ALLOWLIST, G!SCRAPE_DELETE_TABLES
<1>2. CASE door = "meta"
  BY <1>2 DEF G!Targets, G!MetaCallers
<1>3. CASE door = "ecommerce"  BY <1>3 DEF G!Targets
<1>4. CASE door = "logs"  BY <1>4 DEF G!Targets
<1>5. CASE door = "user"  BY <1>5 DEF G!Targets, G!USER_KINDS
<1>6. CASE door = "chat"  BY <1>6 DEF G!Targets, G!CHAT_INSERT_ALLOWLIST
<1>7. CASE door = "alert"  BY <1>7 DEF G!Targets, G!KIND_TARGETS
<1>8. CASE door = "retention"  BY <1>8 DEF G!Targets, G!RETENTION_TABLES
<1> QED  BY <1>1, <1>2, <1>3, <1>4, <1>5, <1>6, <1>7, <1>8, DoorsAre

\* No door has a check that is called what Verdict calls a row without a defect.
LEMMA ChecksAre ==
    ASSUME NEW door \in DOMAIN G!Targets, NEW op, door = "user" => op \in {"insert", "update", "delete"}
    PROVE  /\ DOMAIN G!Checks(door, op) \subseteq Nat
           /\ \A k \in DOMAIN G!Checks(door, op) : G!Checks(door, op)[k] # "passed"
<1> USE DEF G!Checks
<1>1. CASE door = "scrape"  BY <1>1 DEF G!ScrapeDeleteChecks, G!ScrapeUpdateChecks
<1>2. CASE door = "meta"  BY <1>2 DEF G!MarketChecks
<1>3. CASE door = "ecommerce"  BY <1>3 DEF G!EcommerceChecks
<1>4. CASE door = "logs"  BY <1>4
<1>5. CASE door = "user"  BY <1>5 DEF G!UserChecks
<1>6. CASE door = "chat"  BY <1>6 DEF G!ChatChecks
<1>7. CASE door = "alert"  BY <1>7 DEF G!AlertChecks
<1>8. CASE door = "retention"  BY <1>8 DEF G!RetentionChecks
<1> QED  BY <1>1, <1>2, <1>3, <1>4, <1>5, <1>6, <1>7, <1>8, DoorsAre

\* A row that passes has nothing wrong with it.
LEMMA PassedIsClean ==
    ASSUME NEW door \in DOMAIN G!Targets, NEW op, door = "user" => op \in {"insert", "update", "delete"},
           NEW row \in SUBSET G!Defects(door, op), G!Verdict(door, op, row) = "passed"
    PROVE  row = {} /\ cached # NoSecret
<1> DEFINE checks == G!Checks(door, op)
           failed == {k \in DOMAIN checks : checks[k] \in row}
<1>1. CASE failed # {}
  <2>1. failed \in SUBSET Nat  BY ChecksAre
  <2>2. \E k \in failed : \A j \in failed : k <= j  BY <1>1, <2>1, LeastOf
  <2>3. (CHOOSE k \in failed : \A j \in failed : k <= j) \in failed  BY <2>2
  <2>4. G!Verdict(door, op, row) = checks[CHOOSE k \in failed : \A j \in failed : k <= j]
    BY <1>1 DEF G!Verdict
  <2>5. G!Verdict(door, op, row) # "passed"  BY <2>3, <2>4, ChecksAre
  <2> QED  BY <2>5
<1>2. CASE failed = {}
  <2>1. \A d \in row : \E k \in DOMAIN checks : d = checks[k]  BY DEF G!Defects
  <2>2. row = {}  BY <1>2, <2>1
  <2>3. cached # NoSecret  BY <1>2 DEF G!Verdict
  <2> QED  BY <2>2, <2>3
<1> QED  BY <1>1, <1>2

\* What a bridge is opened for.
WellAsked ==
    /\ req.door \in DOMAIN G!Targets /\ <<req.table, req.op>> \in G!Targets[req.door]
    /\ \A k \in DOMAIN req.rows : req.rows[k] \in SUBSET G!Defects(req.door, req.op)

LEMMA SignedIsClean ==
    ASSUME WellAsked, NEW k \in G!Signed
    PROVE  req.rows[k] = {}
<1>1. req.door = "user" => req.op \in {"insert", "update", "delete"}
  <2> DEFINE target == <<req.table, req.op>>
  <2>1. target \in G!Targets[req.door]  BY DEF WellAsked
  <2> QED  BY <2>1, TargetsKnown DEF WellAsked
<1>2. k \in DOMAIN req.rows /\ G!Verdict(req.door, req.op, req.rows[k]) = "passed"  BY DEF G!Signed
<1> QED  BY <1>1, <1>2, PassedIsClean DEF WellAsked

LEMMA PersistAccepts == ASSUME WellAsked PROVE ~G!PersistRefuses /\ req.op \in G!OperationAllowed(req.table)
<1> DEFINE target == <<req.table, req.op>>
<1>1. target \in G!Targets[req.door]  BY DEF WellAsked
<1>2. req.op \in G!SUPPORTED_WRITE_OPERATIONS(req.table) /\ req.op \in G!OperationAllowed(req.table)
  BY <1>1, TargetsKnown DEF WellAsked
<1>3. \A k \in G!Signed : "locator" \notin req.rows[k] /\ "nothing" \notin req.rows[k]  BY SignedIsClean
<1> QED  BY <1>2, <1>3 DEF G!PersistRefuses

LEMMA LocatorsAgree == ASSUME NEW table PROVE G!LocatorKeys(table) = G!TABLE_LOCATORS(table)
BY DEF G!LocatorKeys, G!TABLE_LOCATORS

-----------------------------------------------------------------------------
\* A request is one its door was asked for, and neither persist nor the gate refuses it for what
\* its door has signed.
SignInv ==
    /\ wpc # "idle" => WellAsked
    /\ reason \notin {"persist", "unsupported_operation"}
    /\ answer # "missed"

LEMMA AskedStays == ASSUME req' = req PROVE WellAsked' = WellAsked
<1>1. G!Targets' = G!Targets
  BY DEF G!Targets, G!SCRAPE_UPDATE_ALLOWLIST, G!SCRAPE_DELETE_TABLES, G!MetaCallers,
         G!USER_KINDS, G!CHAT_INSERT_ALLOWLIST, G!KIND_TARGETS, G!RETENTION_TABLES
<1>2. G!Checks(req.door, req.op)' = G!Checks(req.door, req.op)
  BY DEF G!Checks, G!ScrapeDeleteChecks, G!ScrapeUpdateChecks, G!MarketChecks, G!EcommerceChecks,
         G!UserChecks, G!ChatChecks, G!AlertChecks, G!RetentionChecks
<1>3. G!Defects(req.door, req.op)' = G!Defects(req.door, req.op)  BY <1>2 DEF G!Defects
<1> QED  BY <1>1, <1>3 DEF WellAsked

LEMMA SignStep == ASSUME SignInv, G!Next PROVE SignInv'
<1> USE DEF SignInv, G!Secrets, G!Traces
<1>0. req' = req => WellAsked' = WellAsked
  BY AskedStays
<1>1. CASE G!Submit
  <2>0. PICK door \in DOMAIN G!Targets : \E target \in G!Targets[door] : \E rows \in G!RowsOf(door, target[2]) :
           req' = [door |-> door, table |-> target[1], op |-> target[2], rows |-> rows]
    BY <1>1 DEF G!Submit
  <2>a. PICK target \in G!Targets[door] : \E rows \in G!RowsOf(door, target[2]) :
           req' = [door |-> door, table |-> target[1], op |-> target[2], rows |-> rows]
    BY <2>0
  <2>1. PICK rows \in G!RowsOf(door, target[2]) :
           req' = [door |-> door, table |-> target[1], op |-> target[2], rows |-> rows]
    BY <2>a
  <2>2. <<target[1], target[2]>> \in G!Targets[door]
    BY DoorsAre DEF G!Targets, G!SCRAPE_UPDATE_ALLOWLIST, G!SCRAPE_DELETE_TABLES, G!MetaCallers,
                    G!USER_KINDS, G!CHAT_INSERT_ALLOWLIST, G!KIND_TARGETS, G!RETENTION_TABLES
  <2>3. \A k \in DOMAIN rows : rows[k] \in SUBSET G!Defects(door, target[2])
    <3> DEFINE row == {d \in SUBSET G!Defects(door, target[2]) : G!Cardinality(d) <= MaxDefects}
    <3>1. rows \in [1..2 -> row] \/ rows \in [1..1 -> row]  BY DEF G!RowsOf
    <3> QED  BY <3>1
  <2>4. WellAsked'  BY <2>1, <2>2, <2>3 DEF WellAsked
  <2> QED  BY <1>1, <2>4 DEF G!Submit
<1>2. CASE G!Authorize
  <2>1. wpc = "door" /\ reason' = reason /\ req' = req
    BY <1>2 DEF G!Authorize, G!Answer
  <2>2. answer' = answer \/ answer' \in {"error", "refused"}
    BY <1>2 DEF G!Authorize, G!Answer
  <2> QED  BY <1>0, <2>1, <2>2
<1>3. CASE G!RejectPersist
  BY <1>3, PersistAccepts DEF G!RejectPersist
<1>4. CASE G!EmitFailureAlert  BY <1>0, <1>4 DEF G!EmitFailureAlert, G!Answer
<1>5. CASE G!AssertSignature  BY <1>0, <1>5 DEF G!AssertSignature
<1>6. CASE G!HandleInvalidSignature
  <2>1. wpc = "invalid_signature" /\ reason' = "invalid_signature" /\ req' = req
    BY <1>6 DEF G!HandleInvalidSignature, G!Answer
  <2>2. answer' = answer \/ answer' = "refused"
    BY <1>6 DEF G!HandleInvalidSignature, G!Answer
  <2> QED  BY <1>0, <2>1, <2>2
<1>7. CASE G!HandleSigningUnavailable  BY <1>0, <1>7 DEF G!HandleSigningUnavailable, G!Answer
<1>8. CASE G!HandleRpcError  BY <1>0, <1>8 DEF G!HandleRpcError, G!Answer
<1>9. CASE G!Execute  BY <1>0, <1>9, PersistAccepts DEF G!Execute
<1>10. CASE G!Commit  BY <1>0, <1>10, LocatorsAgree DEF G!Commit
<1>11. CASE G!Restart  BY <1>11 DEF G!Restart
<1>12. CASE G!RotateVault  BY <1>0, <1>12 DEF G!RotateVault
<1>13. CASE G!RotateSetting  BY <1>0, <1>13 DEF G!RotateSetting
<1> QED
  BY <1>1, <1>2, <1>3, <1>4, <1>5, <1>6, <1>7, <1>8, <1>9, <1>10, <1>11, <1>12, <1>13 DEF G!Next

LEMMA SignStays == ASSUME SignInv, [G!Next]_gVars PROVE SignInv'
<1>1. CASE UNCHANGED gVars  BY <1>1, AskedStays DEF gVars, SignInv
<1> QED  BY <1>1, SignStep

LEMMA SignInit == G!Init => SignInv
BY DEF G!Init, SignInv

\* What a door has signed, persist and the gate do not refuse: whatever is asked for, whoever changes
\* the secret and whenever the process restarts, the tables of persist/contracts.py and of the
\* migrations 039 to 050 agree with what the doors sign (data_firewall/gate_write.py).
THEOREM SignedIsWritten == (G!Spec => []G!SignedIsAccepted) /\ (MCSpec => []SignedIsAccepted)
<1>1. SignInv => G!SignedIsAccepted  BY DEF SignInv, G!SignedIsAccepted
<1>2. G!Spec => []G!SignedIsAccepted
  <2>1. UNCHANGED G!vars <=> UNCHANGED gVars  BY DEF G!vars, gVars
  <2>2. ASSUME SignInv, [G!Next]_(G!vars) PROVE SignInv'  BY <2>1, <2>2, SignStays
  <2> QED  BY <1>1, <2>2, SignInit, PTL DEF G!Spec
<1>3. MCInit => (part = "gate" => SignInv)  BY SignInit DEF MCInit
<1>4. ASSUME part = "gate" => SignInv, [MCNext]_allVars PROVE (part = "gate" => SignInv)'
  BY <1>4, GatePart, SignStays
<1>5. (part = "gate" => SignInv) => SignedIsAccepted  BY <1>1 DEF SignedIsAccepted
<1>6. MCSpec => []SignedIsAccepted  BY <1>3, <1>4, <1>5, PTL DEF MCSpec, allVars
<1> QED  BY <1>2, <1>6

-----------------------------------------------------------------------------
\* Until the answer, the rows a door has refused have their row in reject_data; a write that is
\* refused as a whole has an alert, or all its rows have theirs.
RefusedRows == DOMAIN req.rows \ G!Signed

TraceInv ==
    /\ SignInv
    /\ wpc \in {"persist", "execute", "commit", "invalid_signature", "signing_unavailable", "rpc_error"} =>
          lost \/ RefusedRows \subseteq rejects
    /\ wpc = "failure_alert" => lost \/ alerted \/ DOMAIN req.rows \subseteq rejects
    /\ G!RefusalLeavesTrace

LEMMA SignedStays == ASSUME UNCHANGED <<req, cached>> PROVE RefusedRows' = RefusedRows
BY DEF RefusedRows, G!Signed, G!Verdict, G!Checks

LEMMA TraceStep == ASSUME TraceInv, G!Next PROVE TraceInv'
<1> USE DEF G!RefusalLeavesTrace, G!Secrets, G!Traces
<1>0. SignInv /\ SignInv'  BY SignStep DEF TraceInv
<1>1. CASE G!Submit  BY <1>0, <1>1 DEF G!Submit, TraceInv
<1>2. CASE G!Authorize
  <2>1. wpc = "door" /\ UNCHANGED <<req, cached>>  BY <1>2 DEF G!Authorize, G!Answer
  <2>2. CASE wpc' = "done" /\ answer' = "error"  BY <1>0, <2>2 DEF TraceInv
  <2>3. CASE ~(wpc' = "done" /\ answer' = "error")
    <3>1. lost' \/ RefusedRows \subseteq rejects'
      BY <1>2, <2>3 DEF G!Authorize, G!Isolated, G!RejectRows, RefusedRows, G!Answer
    <3>2. wpc' # "persist" => G!Signed = {}
      BY <1>2, <2>3 DEF G!Authorize, G!Answer
    <3>3. wpc' \in {"persist", "failure_alert", "done"}  BY <1>2 DEF G!Authorize, G!Answer
    <3>4. wpc' # "persist" => lost' \/ DOMAIN req'.rows \subseteq rejects'
      BY <2>1, <3>1, <3>2 DEF RefusedRows
    <3> QED  BY <1>0, <2>1, <3>1, <3>3, <3>4, SignedStays DEF TraceInv
  <2> QED  BY <2>2, <2>3
<1>3. CASE G!RejectPersist
  BY <1>0, <1>3, PersistAccepts DEF G!RejectPersist, SignInv
<1>4. CASE G!EmitFailureAlert
  <2>1. wpc = "failure_alert" /\ wpc' = "done" /\ req' = req
    BY <1>4 DEF G!EmitFailureAlert, G!Answer
  <2>2. lost' \/ alerted' \/ DOMAIN req.rows \subseteq rejects'
    BY <1>4 DEF G!EmitFailureAlert, G!Isolated, G!RaiseAlert, TraceInv
  <2> QED  BY <1>0, <2>1, <2>2 DEF TraceInv
<1>5. CASE G!AssertSignature
  <2>1. wpc = "persist" /\ wpc' \in {"signing_unavailable", "invalid_signature", "execute"}
    BY <1>5 DEF G!AssertSignature
  <2>2. UNCHANGED <<req, cached, lost, rejects>>  BY <1>5 DEF G!AssertSignature
  <2> QED  BY <1>0, <2>1, <2>2, SignedStays DEF TraceInv
<1>6. CASE G!HandleInvalidSignature
  <2>1. wpc' \in {"done", "failure_alert"} /\ req' = req
    BY <1>6 DEF G!HandleInvalidSignature, G!Answer
  <2>2. lost' \/ alerted'
    BY <1>6 DEF G!HandleInvalidSignature, G!Isolated, G!RaiseAlert
  <2> QED  BY <1>0, <2>1, <2>2 DEF TraceInv
<1>7. CASE G!HandleSigningUnavailable
  <2>1. wpc' = "done" /\ req' = req  BY <1>7 DEF G!HandleSigningUnavailable, G!Answer
  <2>2. lost' \/ alerted'  BY <1>7 DEF G!HandleSigningUnavailable, G!Isolated, G!RaiseAlert
  <2> QED  BY <1>0, <2>1, <2>2 DEF TraceInv
<1>8. CASE G!HandleRpcError
  <2>1. wpc' = "done" /\ req' = req  BY <1>8 DEF G!HandleRpcError, G!Answer
  <2>2. lost' \/ alerted'  BY <1>8 DEF G!HandleRpcError, G!Isolated, G!RaiseAlert
  <2> QED  BY <1>0, <2>1, <2>2 DEF TraceInv
<1>9. CASE G!Execute
  <2>1. wpc = "execute" /\ wpc' \in {"rpc_error", "commit"}  BY <1>9 DEF G!Execute
  <2>2. UNCHANGED <<req, cached, lost, rejects>>  BY <1>9 DEF G!Execute
  <2> QED  BY <1>0, <2>1, <2>2, SignedStays DEF TraceInv
<1>10. CASE G!Commit
  <2>1. wpc = "commit" /\ wpc' = "done" /\ UNCHANGED <<req, cached, lost, rejects>>
    BY <1>10 DEF G!Commit
  <2>2. answer' = "no_target" \/ stored' = G!Signed
    BY <1>0, <1>10, LocatorsAgree DEF G!Commit, SignInv
  <2>3. lost \/ RefusedRows \subseteq rejects  BY <2>1 DEF TraceInv
  <2> QED  BY <1>0, <2>1, <2>2, <2>3 DEF TraceInv, RefusedRows
<1>11. CASE G!Restart  BY <1>0, <1>11 DEF G!Restart, TraceInv
<1>12. CASE G!RotateVault  BY <1>0, <1>12, SignedStays DEF G!RotateVault, TraceInv
<1>13. CASE G!RotateSetting  BY <1>0, <1>13, SignedStays DEF G!RotateSetting, TraceInv
<1> QED
  BY <1>1, <1>2, <1>3, <1>4, <1>5, <1>6, <1>7, <1>8, <1>9, <1>10, <1>11, <1>12, <1>13 DEF G!Next

LEMMA TraceStays == ASSUME TraceInv, [G!Next]_gVars PROVE TraceInv'
<1>1. CASE UNCHANGED gVars
  <2>1. SignInv'  BY <1>1, SignStays DEF TraceInv
  <2> QED  BY <1>1, <2>1, SignedStays DEF gVars, TraceInv, G!RefusalLeavesTrace
<1> QED  BY <1>1, TraceStep

LEMMA TraceInit == G!Init => TraceInv
BY SignInit DEF G!Init, TraceInv, G!RefusalLeavesTrace

\* Every row that was asked to be written is written or has left a trace that is committed, in
\* reject_data or in service_alerts, whatever the door, persist or the gate refuses it for and however
\* vault, settings and processes disagree about the secret: the traces have a session of their own
\* (reject_store.py, write_reject_data_isolated and write_service_alert_isolated).
THEOREM NoSilentRefusal == (G!Spec => []G!RefusalLeavesTrace) /\ (MCSpec => []RefusalLeavesTrace)
<1>1. TraceInv => G!RefusalLeavesTrace  BY DEF TraceInv
<1>2. G!Spec => []G!RefusalLeavesTrace
  <2>1. UNCHANGED G!vars <=> UNCHANGED gVars  BY DEF G!vars, gVars
  <2>2. ASSUME TraceInv, [G!Next]_(G!vars) PROVE TraceInv'  BY <2>1, <2>2, TraceStays
  <2> QED  BY <1>1, <2>2, TraceInit, PTL DEF G!Spec
<1>3. MCInit => (part = "gate" => TraceInv)  BY TraceInit DEF MCInit
<1>4. ASSUME part = "gate" => TraceInv, [MCNext]_allVars PROVE (part = "gate" => TraceInv)'
  BY <1>4, GatePart, TraceStays
<1>5. (part = "gate" => TraceInv) => RefusalLeavesTrace  BY <1>1 DEF RefusalLeavesTrace
<1>6. MCSpec => []RefusalLeavesTrace  BY <1>3, <1>4, <1>5, PTL DEF MCSpec, allVars
<1> QED  BY <1>2, <1>6

-----------------------------------------------------------------------------
(***************************************************************************)
(* The prices of a listing.  While no two ingests of it cross, the one     *)
(* that is under way holds the listing as it is, and its stamp is later    *)
(* than any row of the history.                                            *)
(***************************************************************************)
Known == Price \cup {A!NoPrice}
Shown == [price : Known, from : Known]
PriceRow == [at : Nat, price : Price, from : Known]
Ingests == [copy : Shown, seen : Known, at : Nat, replaces : SUBSET PriceRow]

IngestTypes ==
    /\ stamp \in Nat
    /\ listing \in Shown /\ fact_price \in SUBSET PriceRow
    /\ \A r \in fact_price : r.at <= stamp
    /\ ipc \in [A!Ingestor -> {"idle", "loaded", "seen", "inserted"}]
    /\ ingest \in [A!Ingestor -> Ingests]
    /\ \A i \in A!Ingestor : ingest[i].at <= stamp
    /\ \A i \in A!Ingestor : ipc[i] \in {"seen", "inserted"} => ingest[i].seen \in Price

\* The listing shows the one row that is later than all others.
ShowsLast ==
    IF fact_price = {} THEN listing.price = A!NoPrice
    ELSE \E r \in fact_price : /\ listing = [price |-> r.price, from |-> r.from]
                              /\ \A s \in fact_price \ {r} : s.at < r.at

\* The ingest under way is the only one, and later than the history.
Freshest(i) ==
    /\ ingest[i].copy = listing
    /\ \A j \in A!Ingestor \ {i} : ipc[j] = "idle"
    /\ ipc[i] \in {"seen", "inserted"} => \A r \in fact_price : r.at < ingest[i].at

ShownInv ==
    /\ IngestTypes
    /\ ~crossed => ShowsLast /\ \A i \in A!Ingestor : ipc[i] # "idle" => Freshest(i)

LEMMA FreshIs == A!Fresh \in Ingests /\ (IngestTypes => A!Fresh.at <= stamp)
BY DEF A!Fresh, Ingests, Shown, Known, IngestTypes

LEMMA ShownIsNewest == ShownInv => A!ListingShowsNewest
<1> SUFFICES ASSUME ShownInv, ~crossed, fact_price # {}
             PROVE  listing = [price |-> A!Newest(fact_price).price, from |-> A!Newest(fact_price).from]
  BY DEF ShownInv, ShowsLast, A!ListingShowsNewest
<1>1. PICK r \in fact_price : /\ listing = [price |-> r.price, from |-> r.from]
                              /\ \A s \in fact_price \ {r} : s.at < r.at
  BY DEF ShownInv, ShowsLast
<1>2. \A s \in fact_price : s.at \in Nat  BY DEF ShownInv, IngestTypes, PriceRow
<1>3. \A s \in fact_price : s.at <= r.at  BY <1>1, <1>2
<1>4. \A s \in fact_price : (\A t \in fact_price : t.at <= s.at) => s = r  BY <1>1, <1>2
<1>5. A!Newest(fact_price) = r  BY <1>3, <1>4 DEF A!Newest
<1> QED  BY <1>1, <1>5

\* The place of the one that moves, and what it holds.
LEMMA OneMoves ==
    ASSUME IngestTypes, NEW i \in A!Ingestor, NEW place \in {"idle", "loaded", "seen", "inserted"}, NEW held \in Ingests,
           ipc' = [ipc EXCEPT ![i] = place], ingest' = [ingest EXCEPT ![i] = held]
    PROVE  /\ ipc' \in [A!Ingestor -> {"idle", "loaded", "seen", "inserted"}] /\ ingest' \in [A!Ingestor -> Ingests]
           /\ ipc'[i] = place /\ ingest'[i] = held
           /\ \A j \in A!Ingestor \ {i} : ipc'[j] = ipc[j] /\ ingest'[j] = ingest[j]
BY DEF IngestTypes

\* An ingest that ends without a write.
LEMMA EndsQuietly ==
    ASSUME ShownInv, NEW i \in A!Ingestor, UNCHANGED <<stamp, listing, fact_price, crossed>>,
           ipc' = [ipc EXCEPT ![i] = "idle"], ingest' = [ingest EXCEPT ![i] = A!Fresh]
    PROVE  ShownInv'
<1> HIDE DEF A!Fresh
<1>1. /\ ipc' \in [A!Ingestor -> {"idle", "loaded", "seen", "inserted"}] /\ ingest' \in [A!Ingestor -> Ingests]
      /\ ipc'[i] = "idle" /\ ingest'[i] = A!Fresh
      /\ \A j \in A!Ingestor \ {i} : ipc'[j] = ipc[j] /\ ingest'[j] = ingest[j]
  BY FreshIs, OneMoves DEF ShownInv
<1>2. IngestTypes'  BY <1>1, FreshIs DEF ShownInv, IngestTypes
<1>3. ASSUME ~crossed' PROVE ShowsLast' /\ \A j \in A!Ingestor : ipc'[j] # "idle" => Freshest(j)'
  <2>1. ShowsLast'  BY <1>3 DEF ShownInv, ShowsLast
  <2>2. ASSUME NEW j \in A!Ingestor, ipc'[j] # "idle" PROVE Freshest(j)'
    <3>1. j # i /\ ipc[j] # "idle"  BY <1>1, <2>2
    <3>2. Freshest(j)  BY <1>3, <3>1 DEF ShownInv
    <3> QED  BY <1>1, <3>1, <3>2 DEF Freshest
  <2> QED  BY <2>1, <2>2
<1> QED  BY <1>2, <1>3 DEF ShownInv

LEMMA IngestStep ==
    ASSUME ShownInv, NEW i \in A!Ingestor,
           \/ A!Load(i) \/ A!Reject(i) \/ A!Insert(i) \/ A!CommitNoChange(i) \/ A!CommitPrice(i) \/ A!Rollback(i)
           \/ \E p \in Price : A!See(i, p)
    PROVE  ShownInv'
<1>0. IngestTypes /\ ingest[i] \in Ingests /\ ipc[i] \in {"idle", "loaded", "seen", "inserted"}
  BY DEF ShownInv, IngestTypes
<1>1. CASE A!Load(i)
  <2> DEFINE held == [A!Fresh EXCEPT !.copy = listing]
  <2>1. held \in Ingests /\ held.copy = listing /\ held.at <= stamp
    BY <1>0, FreshIs DEF IngestTypes, A!Fresh, Ingests, Shown
  <2>2. ipc' = [ipc EXCEPT ![i] = "loaded"] /\ ingest' = [ingest EXCEPT ![i] = held]
    BY <1>1 DEF A!Load
  <2> HIDE DEF held
  <2>3. /\ ipc' \in [A!Ingestor -> {"idle", "loaded", "seen", "inserted"}] /\ ingest' \in [A!Ingestor -> Ingests]
        /\ ipc'[i] = "loaded" /\ ingest'[i] = held
        /\ \A j \in A!Ingestor \ {i} : ipc'[j] = ipc[j] /\ ingest'[j] = ingest[j]
    BY <1>0, <2>1, <2>2, OneMoves
  <2>4. UNCHANGED <<stamp, listing, fact_price>>  BY <1>1 DEF A!Load
  <2>5. IngestTypes'  BY <1>0, <2>1, <2>3, <2>4 DEF IngestTypes
  <2>6. ASSUME ~crossed' PROVE ShowsLast' /\ \A j \in A!Ingestor : ipc'[j] # "idle" => Freshest(j)'
    <3>1. ~crossed /\ \A j \in A!Ingestor \ {i} : ipc[j] = "idle"  BY <1>1, <2>6 DEF A!Load
    <3>2. ShowsLast'  BY <2>4, <3>1 DEF ShownInv, ShowsLast
    <3>3. Freshest(i)'  BY <2>1, <2>3, <2>4, <3>1 DEF Freshest
    <3> QED  BY <2>3, <3>1, <3>2, <3>3
  <2> QED  BY <2>5, <2>6 DEF ShownInv
<1>2. CASE A!Reject(i) \/ A!Rollback(i)
  BY <1>2, EndsQuietly DEF A!Reject, A!Rollback
<1>3. ASSUME NEW p \in Price, A!See(i, p) PROVE ShownInv'
  <2> DEFINE held == [ingest[i] EXCEPT !.seen = p, !.at = stamp']
  <2>0. stamp' = stamp + 1 /\ stamp \in Nat  BY <1>0, <1>3 DEF A!See, A!Stamp, IngestTypes
  <2>1. held \in Ingests /\ held.copy = ingest[i].copy /\ held.at = stamp' /\ held.seen = p
    <3>1. p \in Known /\ stamp' \in Nat  BY <2>0 DEF Known
    <3> QED  BY <1>0, <3>1 DEF Ingests
  <2>2. ipc' = [ipc EXCEPT ![i] = "seen"] /\ ingest' = [ingest EXCEPT ![i] = held] /\ ipc[i] = "loaded"
    BY <1>0, <1>3 DEF A!See, IngestTypes
  <2> HIDE DEF held
  <2>3. /\ ipc' \in [A!Ingestor -> {"idle", "loaded", "seen", "inserted"}] /\ ingest' \in [A!Ingestor -> Ingests]
        /\ ipc'[i] = "seen" /\ ingest'[i] = held
        /\ \A j \in A!Ingestor \ {i} : ipc'[j] = ipc[j] /\ ingest'[j] = ingest[j]
    BY <1>0, <2>1, <2>2, OneMoves
  <2>4. UNCHANGED <<listing, fact_price, crossed>>  BY <1>3 DEF A!See
  <2>a. \A r \in fact_price : r.at \in Nat /\ r.at <= stamp  BY <1>0 DEF IngestTypes, PriceRow
  <2>b. \A r \in fact_price : r.at <= stamp' /\ r.at < stamp'  BY <2>0, <2>a
  <2>5. IngestTypes'
    <3>1. stamp' \in Nat  BY <2>0
    <3>2. \A j \in A!Ingestor : ipc'[j] \in {"seen", "inserted"} => ingest'[j].seen \in Price
      BY <1>0, <2>1, <2>3 DEF IngestTypes
    <3>3. ASSUME NEW j \in A!Ingestor PROVE ingest'[j].at <= stamp'
      <4>1. CASE j = i  BY <2>0, <2>1, <2>3, <4>1
      <4>2. CASE j # i
        <5>1. ingest[j].at \in Nat /\ ingest[j].at <= stamp  BY <1>0 DEF IngestTypes, Ingests
        <5> QED  BY <2>0, <2>3, <4>2, <5>1
      <4> QED  BY <4>1, <4>2
    <3> QED  BY <1>0, <2>3, <2>4, <2>b, <3>1, <3>2, <3>3 DEF IngestTypes
  <2>6. ASSUME ~crossed' PROVE ShowsLast' /\ \A j \in A!Ingestor : ipc'[j] # "idle" => Freshest(j)'
    <3>1. ShowsLast /\ Freshest(i)  BY <2>2, <2>4, <2>6 DEF ShownInv
    <3>2. ShowsLast'  BY <2>4, <3>1 DEF ShowsLast
    <3>3. Freshest(i)'  BY <2>1, <2>3, <2>4, <2>b, <3>1 DEF Freshest
    <3> QED  BY <2>3, <3>1, <3>2, <3>3 DEF Freshest
  <2> QED  BY <2>5, <2>6 DEF ShownInv
<1>4. CASE A!Insert(i)
  <2> DEFINE rows == {r \in fact_price : A!Day(r.at) = A!Day(ingest[i].at)}
             held == [ingest[i] EXCEPT !.replaces = rows]
  <2>1. rows \in SUBSET PriceRow  BY <1>0 DEF IngestTypes
  <2>2. ipc' = [ipc EXCEPT ![i] = "inserted"] /\ ingest' = [ingest EXCEPT ![i] = held] /\ ipc[i] = "seen"
    BY <1>0, <1>4 DEF A!Insert, IngestTypes
  <2> HIDE DEF rows
  <2>3. held \in Ingests /\ held.copy = ingest[i].copy /\ held.at = ingest[i].at /\ held.seen = ingest[i].seen
    BY <1>0, <2>1 DEF Ingests
  <2> HIDE DEF held
  <2>4. /\ ipc' \in [A!Ingestor -> {"idle", "loaded", "seen", "inserted"}] /\ ingest' \in [A!Ingestor -> Ingests]
        /\ ipc'[i] = "inserted" /\ ingest'[i] = held
        /\ \A j \in A!Ingestor \ {i} : ipc'[j] = ipc[j] /\ ingest'[j] = ingest[j]
    BY <1>0, <2>2, <2>3, OneMoves
  <2>5. UNCHANGED <<stamp, listing, fact_price, crossed>>  BY <1>4 DEF A!Insert
  <2>6. IngestTypes'
    <3>1. \A j \in A!Ingestor : ipc'[j] \in {"seen", "inserted"} => ingest'[j].seen \in Price
      BY <1>0, <2>2, <2>3, <2>4 DEF IngestTypes
    <3>2. \A j \in A!Ingestor : ingest'[j].at <= stamp'
      BY <1>0, <2>3, <2>4, <2>5 DEF IngestTypes
    <3> QED  BY <1>0, <2>4, <2>5, <3>1, <3>2 DEF IngestTypes
  <2>7. ASSUME ~crossed' PROVE ShowsLast' /\ \A j \in A!Ingestor : ipc'[j] # "idle" => Freshest(j)'
    <3>1. ShowsLast /\ Freshest(i)  BY <2>2, <2>5, <2>7 DEF ShownInv
    <3>2. ShowsLast'  BY <2>5, <3>1 DEF ShowsLast
    <3>3. Freshest(i)'  BY <2>2, <2>3, <2>4, <2>5, <3>1 DEF Freshest
    <3> QED  BY <2>4, <3>1, <3>2, <3>3 DEF Freshest
  <2> QED  BY <2>6, <2>7 DEF ShownInv
<1>5. CASE A!CommitNoChange(i)
  <2>0. ipc[i] = "seen" /\ ingest[i].seen = ingest[i].copy.price  BY <1>5 DEF A!CommitNoChange, A!Unchanged
  <2>1. /\ ipc' = [ipc EXCEPT ![i] = "idle"] /\ ingest' = [ingest EXCEPT ![i] = A!Fresh]
        /\ UNCHANGED <<stamp, fact_price, crossed>>
        /\ listing' = [listing EXCEPT !.price = ingest[i].seen]
    BY <1>5 DEF A!CommitNoChange
  <2>2. CASE ~crossed
    <3>1. ingest[i].copy = listing  BY <2>0, <2>2 DEF ShownInv, Freshest
    <3>2. listing' = listing  BY <1>0, <2>0, <2>1, <3>1 DEF IngestTypes, Shown
    <3> QED  BY <2>1, <3>2, EndsQuietly
  <2>3. CASE crossed
    <3> HIDE DEF A!Fresh
    <3>1. /\ ipc' \in [A!Ingestor -> {"idle", "loaded", "seen", "inserted"}] /\ ingest' \in [A!Ingestor -> Ingests]
          /\ ipc'[i] = "idle" /\ ingest'[i] = A!Fresh
          /\ \A j \in A!Ingestor \ {i} : ipc'[j] = ipc[j] /\ ingest'[j] = ingest[j]
      BY <1>0, <2>1, FreshIs, OneMoves
    <3>2. listing' \in Shown  BY <1>0, <2>1 DEF IngestTypes, Ingests, Shown
    <3>3. IngestTypes'  BY <1>0, <2>1, <3>1, <3>2, FreshIs DEF IngestTypes
    <3> QED  BY <2>1, <2>3, <3>3 DEF ShownInv
  <2> QED  BY <2>2, <2>3
<1>6. CASE A!CommitPrice(i)
  <2> DEFINE l == ingest[i]
             new == [at |-> l.at, price |-> l.seen, from |-> l.copy.price]
  <2>0. ipc[i] = "inserted" /\ l.seen \in Price  BY <1>0, <1>6 DEF A!CommitPrice, IngestTypes
  <2>1. /\ ipc' = [ipc EXCEPT ![i] = "idle"] /\ ingest' = [ingest EXCEPT ![i] = A!Fresh]
        /\ UNCHANGED <<stamp, crossed>>
        /\ fact_price' = (fact_price \ l.replaces) \cup {new}
        /\ listing' = [price |-> l.seen, from |-> l.copy.price]
    BY <1>6 DEF A!CommitPrice
  <2>2. new \in PriceRow /\ listing' \in Shown /\ new.at = l.at /\ l.at \in Nat
        /\ listing' = [price |-> new.price, from |-> new.from]
    BY <1>0, <2>0, <2>1 DEF PriceRow, Ingests, Shown, Known
  <2> HIDE DEF new, A!Fresh
  <2>3. /\ ipc' \in [A!Ingestor -> {"idle", "loaded", "seen", "inserted"}] /\ ingest' \in [A!Ingestor -> Ingests]
        /\ ipc'[i] = "idle" /\ ingest'[i] = A!Fresh
        /\ \A j \in A!Ingestor \ {i} : ipc'[j] = ipc[j] /\ ingest'[j] = ingest[j]
    BY <1>0, <2>1, FreshIs, OneMoves
  <2>4. IngestTypes'
    <3>1. l.at <= stamp  BY <1>0 DEF IngestTypes
    <3>2. fact_price' \in SUBSET PriceRow /\ \A r \in fact_price' : r.at <= stamp'
      BY <1>0, <2>1, <2>2, <3>1 DEF IngestTypes
    <3> QED  BY <1>0, <2>1, <2>2, <2>3, <3>2, FreshIs DEF IngestTypes
  <2>5. ASSUME ~crossed' PROVE ShowsLast' /\ \A j \in A!Ingestor : ipc'[j] # "idle" => Freshest(j)'
    <3>1. Freshest(i)  BY <2>0, <2>1, <2>5 DEF ShownInv
    <3>2. \A r \in fact_price : r.at < new.at  BY <2>0, <2>2, <3>1 DEF Freshest
    <3>3. new \in fact_price' /\ \A s \in fact_price' \ {new} : s.at < new.at  BY <2>1, <3>2
    <3>4. ShowsLast'  BY <2>2, <3>3 DEF ShowsLast
    <3> QED  BY <2>3, <3>1, <3>4 DEF Freshest
  <2> QED  BY <2>4, <2>5 DEF ShownInv
<1> QED  BY <1>1, <1>2, <1>3, <1>4, <1>5, <1>6


\* Around the ingests only time passes.
LEMMA OnlyTimePasses ==
    ASSUME ShownInv, UNCHANGED <<listing, fact_price, ipc, ingest, crossed>>,
           \/ stamp' = stamp
           \/ stamp' = stamp + 1
    PROVE  ShownInv'
<1>0. stamp \in Nat  BY DEF ShownInv, IngestTypes
<1>1. stamp \in Nat /\ stamp' \in Nat /\ stamp <= stamp'  BY <1>0
<1>2. \A r \in fact_price : r.at \in Nat /\ r.at <= stamp  BY DEF ShownInv, IngestTypes, PriceRow
<1>3. \A i \in A!Ingestor : ingest[i].at \in Nat /\ ingest[i].at <= stamp  BY DEF ShownInv, IngestTypes, Ingests
<1>4. IngestTypes'
  <2>1. \A r \in fact_price' : r.at <= stamp'  BY <1>1, <1>2
  <2>2. \A i \in A!Ingestor : ingest'[i].at <= stamp'  BY <1>1, <1>3
  <2> QED  BY <1>1, <2>1, <2>2 DEF ShownInv, IngestTypes
<1>5. (ShowsLast <=> ShowsLast') /\ \A i \in A!Ingestor : Freshest(i) <=> Freshest(i)'
  BY DEF ShowsLast, Freshest
<1> QED  BY <1>4, <1>5 DEF ShownInv

LEMMA ShownStays == ASSUME ShownInv, [A!Next]_aVars PROVE ShownInv'
<1>1. CASE A!Ingest  BY <1>1, IngestStep DEF A!Ingest
<1>2. CASE ~A!Ingest
  <2>1. UNCHANGED <<listing, fact_price, ipc, ingest, crossed>> /\ (stamp' = stamp \/ stamp' = stamp + 1)
    BY <1>2 DEF A!Next, A!Stamp, A!Evaluate, A!Begin, A!ReadFacts, A!Skip, A!Deliver, A!RecordEvent, A!EventRefused,
                A!MarkRule, A!MarkRefused, A!Abort, A!ListingFlips, A!UpdateRule, A!Passes, A!ingestVars, aVars
  <2>2. UNCHANGED <<listing, fact_price, ipc, ingest, crossed>>  BY <2>1
  <2>3. CASE stamp' = stamp  BY <2>2, <2>3, OnlyTimePasses
  <2>4. CASE stamp' = stamp + 1  BY <2>2, <2>4, OnlyTimePasses
  <2> QED  BY <2>1, <2>3, <2>4
<1> QED  BY <1>1, <1>2

LEMMA ShownInit == A!Init => ShownInv
<1> SUFFICES ASSUME A!Init PROVE ShownInv  OBVIOUS
<1>1. stamp = 1 /\ ipc = [i \in A!Ingestor |-> "idle"] /\ ingest = [i \in A!Ingestor |-> A!Fresh]
  BY DEF A!Init, A!IngestInit
<1>2. listing \in Shown /\ fact_price \in SUBSET PriceRow /\ ShowsLast /\ \A r \in fact_price : r.at = 1
  <2>1. CASE listing = [price |-> A!NoPrice, from |-> A!NoPrice] /\ fact_price = {}
    BY <2>1 DEF Shown, Known, ShowsLast
  <2>2. ASSUME NEW p \in Price, listing = [price |-> p, from |-> A!NoPrice],
               fact_price = {[at |-> 1, price |-> p, from |-> A!NoPrice]}
        PROVE  listing \in Shown /\ fact_price \in SUBSET PriceRow /\ ShowsLast /\ \A r \in fact_price : r.at = 1
    <3>1. listing \in Shown /\ fact_price \in SUBSET PriceRow  BY <2>2 DEF Shown, Known, PriceRow
    <3>2. [at |-> 1, price |-> p, from |-> A!NoPrice] \in fact_price  BY <2>2
    <3>3. ShowsLast  BY <2>2, <3>2 DEF ShowsLast
    <3> QED  BY <2>2, <3>1, <3>3
  <2> QED  BY <2>1, <2>2 DEF A!Init, A!IngestInit
<1>3. A!Fresh \in Ingests /\ A!Fresh.at = 0  BY FreshIs DEF A!Fresh
<1> HIDE DEF A!Fresh
<1> QED  BY <1>1, <1>2, <1>3 DEF ShownInv, IngestTypes

\* The listing shows the newest row of its history, whatever is refused, rolled back, skipped as
\* unchanged or replaced within a day, as long as no two ingests of it cross: the copy is written in the
\* transaction of the row, from the listing as the ingest read it (ingestion/service.py, models/facts.py).
THEOREM ListingFollowsHistory == (A!Spec => []A!ListingShowsNewest) /\ (MCSpec => []ListingShowsNewest)
<1>1. A!Spec => []A!ListingShowsNewest
  <2>1. UNCHANGED A!vars <=> UNCHANGED aVars  BY DEF A!vars, A!ingestVars, A!alertVars, aVars
  <2>2. ASSUME ShownInv, [A!Next]_(A!vars) PROVE ShownInv'  BY <2>1, <2>2, ShownStays
  <2> QED  BY <2>2, ShownInit, ShownIsNewest, PTL DEF A!Spec
<1>2. MCInit => (part \in AlertParts => ShownInv)  BY ShownInit DEF MCInit
<1>3. ASSUME part \in AlertParts => ShownInv, [MCNext]_allVars PROVE (part \in AlertParts => ShownInv)'
  BY <1>3, AlertPart, ShownStays
<1>4. (part \in AlertParts => ShownInv) => ListingShowsNewest  BY ShownIsNewest DEF ListingShowsNewest
<1>5. MCSpec => []ListingShowsNewest  BY <1>2, <1>3, <1>4, PTL DEF MCSpec, allVars
<1> QED  BY <1>1, <1>5

-----------------------------------------------------------------------------
(***************************************************************************)
(* Alerts.  An evaluation that runs beside no other has read the watermark *)
(* of every alert that was marked before it, and what the last event of a  *)
(* rule says; and it fires a rule once.                                    *)
(***************************************************************************)
RuleRow == [type : AlertTypes, triggered : Nat]
EventRow == [rule : Rule, type : AlertTypes, at : Nat, alone : BOOLEAN, marked : BOOLEAN,
             row : Nat, new : Known \cup {0, 1}]
FactRow == [at : Nat, price : Known, from : Known]
Evals == [now : Nat, rules : {<<>>} \cup [Rule -> RuleRow], active : BOOLEAN, row : FactRow,
          was : {<<>>} \cup UNION {[watch -> BOOLEAN] : watch \in SUBSET Rule},
          todo : SUBSET Rule, firing : SUBSET Rule, alone : BOOLEAN]
EPlaces == {"idle", "started", "deciding", "delivered", "recorded"}

Event == DOMAIN alert_events

AlertsTyped ==
    /\ is_active \in BOOLEAN
    /\ alerts \in [Rule -> RuleRow]
    /\ alert_events \in Seq(EventRow)
    /\ \A n \in Event : alert_events[n].at <= stamp
    /\ \A n \in Event : alert_events[n].type = "availability" => alert_events[n].new \in {0, 1}
    /\ epc \in [Evaluator -> EPlaces]
    /\ eval \in [Evaluator -> Evals]
    /\ \A e \in Evaluator : eval[e].now <= stamp

\* The rules an evaluation asks the events for, and those it may still record an event of.
Watch(e) == {r \in Rule : eval[e].rules[r].type = "availability"}
Open(e) == eval[e].todo \cup (IF epc[e] = "delivered" THEN eval[e].firing ELSE {})

\* What an evaluation holds, at each place.
Holds(e) ==
    /\ eval[e].rules \in [Rule -> RuleRow]
    /\ eval[e].firing \cap eval[e].todo = {}
    /\ epc[e] = "delivered" => \A r \in eval[e].firing : A!Fires(eval[e], r)
    /\ \A n \in Event : alert_events[n].at = eval[e].now => alert_events[n].rule \notin Open(e)

\* What it also holds as long as it runs beside no other.
HoldsAlone(e) ==
    /\ \A n \in Event : alert_events[n].at <= eval[e].now
    /\ \A n \in Event :
          alert_events[n].alone /\ alert_events[n].marked /\ alert_events[n].at # eval[e].now =>
             eval[e].rules[alert_events[n].rule].triggered >= alert_events[n].at
    /\ epc[e] # "started" =>
          \A r \in Watch(e) \cap Open(e) : eval[e].was[r] = A!PreviousAvailability(r)

Holding ==
    \A e \in Evaluator : epc[e] # "idle" => Holds(e) /\ (eval[e].alone => HoldsAlone(e))

\* Evaluations have times of their own, and one that is alone is.
Apart ==
    \A e \in Evaluator : \A f \in Evaluator \ {e} :
        epc[e] # "idle" =>
           /\ epc[f] # "idle" => eval[e].now # eval[f].now
           /\ eval[e].alone => epc[f] = "idle"

\* An event recorded alone is no later than any evaluation under way, later than those of its rule
\* before it, and once marked, no later than the watermark of its rule.
Settled ==
    \A n \in Event : alert_events[n].alone =>
       /\ \A f \in Evaluator : epc[f] # "idle" => alert_events[n].at <= eval[f].now
       /\ \A m \in Event :
             m < n /\ alert_events[m].rule = alert_events[n].rule => alert_events[m].at < alert_events[n].at
       /\ alert_events[n].marked => alert_events[n].at <= alerts[alert_events[n].rule].triggered

AlertInv == ShownInv /\ AlertsTyped /\ Holding /\ Apart /\ Settled /\ A!NothingReportedTwice

\* The events are those of before; a mark can only be one of evaluation e.
SameButMarks(e) ==
    /\ DOMAIN alert_events' = DOMAIN alert_events
    /\ \A n \in DOMAIN alert_events :
          /\ alert_events'[n].rule = alert_events[n].rule /\ alert_events'[n].type = alert_events[n].type
          /\ alert_events'[n].at = alert_events[n].at /\ alert_events'[n].alone = alert_events[n].alone
          /\ alert_events'[n].row = alert_events[n].row /\ alert_events'[n].new = alert_events[n].new
          /\ alert_events'[n].marked => alert_events[n].marked \/ alert_events[n].at = eval[e].now

LEMMA NewestIs == ASSUME ShownInv, fact_price # {} PROVE A!Newest(fact_price) \in fact_price
<1> DEFINE ages == {stamp - r.at : r \in fact_price}
<1>1. stamp \in Nat /\ \A r \in fact_price : r.at \in Nat /\ r.at <= stamp
  BY DEF ShownInv, IngestTypes, PriceRow
<1>2. ages \in SUBSET Nat /\ ages # {}  BY <1>1
<1>3. PICK k \in ages : \A m \in ages : k <= m  BY <1>2, LeastOf
<1>4. PICK r \in fact_price : k = stamp - r.at  BY <1>3
<1>5. \A s \in fact_price : s.at <= r.at
  <2> SUFFICES ASSUME NEW s \in fact_price PROVE s.at <= r.at  OBVIOUS
  <2>1. stamp - s.at \in ages  OBVIOUS
  <2>2. stamp - r.at <= stamp - s.at  BY <1>3, <1>4, <2>1
  <2> QED  BY <1>1, <2>2
<1> QED  BY <1>5 DEF A!Newest

\* What the last event of a rule says depends on no mark.
LEMMA PreviousStays ==
    ASSUME NEW e, SameButMarks(e), NEW r
    PROVE  A!PreviousAvailability(r) <=> A!PreviousAvailability(r)'
BY DEF SameButMarks, A!PreviousAvailability, A!Says

LEMMA ReportedStays ==
    ASSUME A!NothingReportedTwice, UNCHANGED alert_events
    PROVE  A!NothingReportedTwice'
BY DEF A!NothingReportedTwice, A!PriceReportedOnce, A!AvailabilityAlternates, A!Successive

\* A turn of an evaluation that is under way.
LEMMA Turn ==
    ASSUME AlertInv, ShownInv', NEW e \in Evaluator, epc[e] # "idle",
           stamp' = stamp, is_active' = is_active, SameButMarks(e),
           NEW place \in EPlaces, NEW held \in Evals, held.now <= stamp,
           epc' = [epc EXCEPT ![e] = place], eval' = [eval EXCEPT ![e] = held],
           alerts' \in [Rule -> RuleRow], alert_events' \in Seq(EventRow),
           \A n \in Event : alert_events[n].alone /\ alert_events'[n].marked =>
               alert_events[n].at <= alerts'[alert_events[n].rule].triggered,
           A!NothingReportedTwice',
           \/ place = "idle"
           \/ /\ held.now = eval[e].now /\ held.alone = eval[e].alone
              /\ Holds(e)' /\ (eval[e].alone => HoldsAlone(e)')
    PROVE  AlertInv'
<1>0. /\ AlertsTyped /\ Holding /\ Apart /\ Settled
      /\ epc \in [Evaluator -> EPlaces] /\ eval \in [Evaluator -> Evals]
  BY DEF AlertInv, AlertsTyped
<1>1. /\ epc' \in [Evaluator -> EPlaces] /\ eval' \in [Evaluator -> Evals]
      /\ epc'[e] = place /\ eval'[e] = held
      /\ \A f \in Evaluator \ {e} : epc'[f] = epc[f] /\ eval'[f] = eval[f]
  BY <1>0
<1>2. AlertsTyped'
  <2>1. \A n \in Event' : alert_events'[n].at <= stamp'
    BY <1>0 DEF AlertsTyped, SameButMarks, Event
  <2>2. \A n \in Event' : alert_events'[n].type = "availability" => alert_events'[n].new \in {0, 1}
    BY <1>0 DEF AlertsTyped, SameButMarks, Event
  <2>3. \A f \in Evaluator : eval'[f].now <= stamp'
    BY <1>0, <1>1 DEF AlertsTyped
  <2>4. is_active' \in BOOLEAN  BY <1>0 DEF AlertsTyped
  <2> QED  BY <1>1, <2>1, <2>2, <2>3, <2>4 DEF AlertsTyped
<1>3. Holding'
  <2> SUFFICES ASSUME NEW f \in Evaluator, epc'[f] # "idle"
               PROVE  Holds(f)' /\ (eval'[f].alone => HoldsAlone(f)')
    BY DEF Holding
  <2>1. CASE f = e  BY <1>1, <2>1
  <2>2. CASE f # e
    <3>1. epc'[f] = epc[f] /\ eval'[f] = eval[f] /\ epc[f] # "idle"  BY <1>1, <2>2
    <3>2. ~eval[f].alone  BY <1>0, <2>2, <3>1 DEF Apart
    <3>3. Holds(f)  BY <1>0, <3>1 DEF Holding
    <3>4. Open(f)' = Open(f)  BY <3>1 DEF Open
    <3>5. \A n \in Event' : alert_events'[n].at = eval'[f].now => alert_events'[n].rule \notin Open(f)'
      BY <3>1, <3>3, <3>4 DEF Holds, SameButMarks, Event
    <3>6. epc'[f] = "delivered" => \A r \in eval'[f].firing : A!Fires(eval[f], r)'
      BY <3>1, <3>3, SMTT(30) DEF Holds, A!Fires, A!InCooldown, A!AvailabilityTrigger, A!PriceTrigger
    <3>7. Holds(f)'  BY <3>1, <3>3, <3>5, <3>6 DEF Holds
    <3> QED  BY <3>1, <3>2, <3>7
  <2> QED  BY <2>1, <2>2
<1>4. Apart'
  <2> SUFFICES ASSUME NEW f \in Evaluator, NEW g \in Evaluator \ {f}, epc'[f] # "idle"
               PROVE  /\ epc'[g] # "idle" => eval'[f].now # eval'[g].now
                      /\ eval'[f].alone => epc'[g] = "idle"
    BY DEF Apart
  <2>1. epc[f] # "idle" /\ eval'[f].now = eval[f].now /\ eval'[f].alone = eval[f].alone
    BY <1>1
  <2>2. epc'[g] # "idle" => epc[g] # "idle" /\ eval'[g].now = eval[g].now
    BY <1>1
  <2>3. epc'[g] \in EPlaces  BY <1>1
  <2> QED  BY <1>0, <2>1, <2>2, <2>3 DEF Apart
<1>5. Settled'
  <2> SUFFICES ASSUME NEW n \in Event, alert_events[n].alone
               PROVE  /\ \A f \in Evaluator : epc'[f] # "idle" => alert_events[n].at <= eval'[f].now
                      /\ \A m \in Event : m < n /\ alert_events[m].rule = alert_events[n].rule
                                             => alert_events[m].at < alert_events[n].at
                      /\ alert_events'[n].marked => alert_events[n].at <= alerts'[alert_events[n].rule].triggered
    BY DEF Settled, SameButMarks, Event
  <2>1. \A f \in Evaluator : epc'[f] # "idle" => epc[f] # "idle" /\ eval'[f].now = eval[f].now
    BY <1>1
  <2> QED  BY <1>0, <2>1 DEF Settled
<1> QED  BY <1>2, <1>3, <1>4, <1>5 DEF AlertInv

-----------------------------------------------------------------------------
\* An evaluation that is over leaves its locals.
LEMMA OffIs ==
    /\ A!Off \in Evals /\ A!Off.now = 0
BY DEF A!Off, Evals, FactRow, Known, A!NoRow

LEMMA EventsStay ==
    ASSUME AlertInv, UNCHANGED <<alerts, alert_events>>, NEW e
    PROVE  /\ SameButMarks(e) /\ alerts' \in [Rule -> RuleRow] /\ alert_events' \in Seq(EventRow)
           /\ \A n \in Event : alert_events[n].alone /\ alert_events'[n].marked =>
                  alert_events[n].at <= alerts'[alert_events[n].rule].triggered
           /\ A!NothingReportedTwice'
<1>1. A!NothingReportedTwice'  BY ReportedStays DEF AlertInv
<1>2. SameButMarks(e)  BY DEF SameButMarks
<1>3. alerts' \in [Rule -> RuleRow] /\ alert_events' \in Seq(EventRow)  BY DEF AlertInv, AlertsTyped
<1> QED  BY <1>1, <1>2, <1>3 DEF AlertInv, Settled

LEMMA AbortStep == ASSUME AlertInv, ShownInv', NEW e \in Evaluator, A!Abort(e) PROVE AlertInv'
<1>1. /\ epc[e] # "idle" /\ UNCHANGED <<stamp, is_active>> /\ UNCHANGED <<alerts, alert_events>>
      /\ epc' = [epc EXCEPT ![e] = "idle"] /\ eval' = [eval EXCEPT ![e] = A!Off]
  BY DEF A!Abort
<1>2. 0 <= stamp  BY DEF AlertInv, ShownInv, IngestTypes
<1> HIDE DEF A!Off
<1> QED  BY <1>1, <1>2, OffIs, EventsStay, Turn DEF EPlaces

\* The rules left, and the one that fires, were among those to do.
LEMMA Narrows ==
    ASSUME AlertInv, NEW e \in Evaluator, epc[e] \notin {"idle", "started"}, SameButMarks(e),
           NEW T \in SUBSET eval[e].todo, NEW F \in SUBSET eval[e].todo, T \cap F = {},
           \A r \in F : A!Fires(eval[e], r),
           epc'[e] \in {"deciding", "delivered"}, eval'[e] = [eval[e] EXCEPT !.todo = T, !.firing = F]
    PROVE  Holds(e)' /\ (eval[e].alone => HoldsAlone(e)')
<1>0. eval[e] \in Evals /\ Holds(e) /\ (eval[e].alone => HoldsAlone(e))
  BY DEF AlertInv, AlertsTyped, Holding
<1>1. /\ eval'[e].now = eval[e].now /\ eval'[e].rules = eval[e].rules /\ eval'[e].active = eval[e].active
      /\ eval'[e].row = eval[e].row /\ eval'[e].was = eval[e].was /\ eval'[e].alone = eval[e].alone
      /\ eval'[e].todo = T /\ eval'[e].firing = F
  BY <1>0 DEF Evals
<1>2. Open(e)' \subseteq Open(e)
  BY <1>1 DEF Open
<1>3. Holds(e)'
  <2>1. \A r \in F : A!Fires(eval[e], r)'
    BY <1>1 DEF A!Fires, A!InCooldown, A!AvailabilityTrigger, A!PriceTrigger
  <2>2. \A n \in Event' : alert_events'[n].at = eval'[e].now => alert_events'[n].rule \notin Open(e)'
    BY <1>0, <1>1, <1>2 DEF Holds, SameButMarks, Event
  <2> QED  BY <1>0, <1>1, <2>1, <2>2 DEF Holds
<1>4. ASSUME eval[e].alone PROVE HoldsAlone(e)'
  <2>1. \A n \in Event' : alert_events'[n].at <= eval'[e].now
    BY <1>0, <1>1, <1>4 DEF HoldsAlone, SameButMarks, Event
  <2>2. ASSUME NEW n \in Event', alert_events'[n].alone, alert_events'[n].marked, alert_events'[n].at # eval'[e].now
        PROVE  eval'[e].rules[alert_events'[n].rule].triggered >= alert_events'[n].at
    BY <1>0, <1>1, <1>4, <2>2 DEF HoldsAlone, SameButMarks, Event
  <2>3. ASSUME NEW r \in Watch(e)' \cap Open(e)' PROVE eval'[e].was[r] = A!PreviousAvailability(r)'
    <3>1. r \in Watch(e) \cap Open(e)  BY <1>1, <1>2, <2>3 DEF Watch
    <3>2. eval[e].was[r] = A!PreviousAvailability(r)  BY <1>0, <1>4, <3>1 DEF HoldsAlone
    <3>3. A!PreviousAvailability(r) = A!PreviousAvailability(r)'
      BY PreviousStays DEF A!PreviousAvailability
    <3> QED  BY <1>1, <3>2, <3>3
  <2> QED  BY <2>1, <2>2, <2>3 DEF HoldsAlone
<1> QED  BY <1>3, <1>4

\* The next rule, or the end.
LEMMA ProceedStep ==
    ASSUME AlertInv, ShownInv', NEW e \in Evaluator, epc[e] \notin {"idle", "started"},
           stamp' = stamp, is_active' = is_active, SameButMarks(e),
           alerts' \in [Rule -> RuleRow], alert_events' \in Seq(EventRow),
           \A n \in Event : alert_events[n].alone /\ alert_events'[n].marked =>
               alert_events[n].at <= alerts'[alert_events[n].rule].triggered,
           A!NothingReportedTwice',
           NEW T \in SUBSET eval[e].todo, NEW l, l = [eval[e] EXCEPT !.todo = T], A!Proceed(e, l)
    PROVE  AlertInv'
<1>0. /\ eval[e] \in Evals /\ eval[e].now <= stamp /\ epc \in [Evaluator -> EPlaces] /\ eval \in [Evaluator -> Evals]
      /\ 0 <= stamp
  BY DEF AlertInv, AlertsTyped, ShownInv, IngestTypes
<1>1. l.todo = T  BY <1>0 DEF Evals
<1>2. CASE T = {}
  <2>1. epc' = [epc EXCEPT ![e] = "idle"] /\ eval' = [eval EXCEPT ![e] = A!Off]
    BY <1>1, <1>2 DEF A!Proceed
  <2> HIDE DEF A!Off
  <2> QED  BY <1>0, <2>1, OffIs, Turn DEF EPlaces
<1>3. CASE T # {}
  <2> DEFINE held == [eval[e] EXCEPT !.todo = T, !.firing = {}]
  <2>1. held = [l EXCEPT !.firing = {}]  BY <1>0 DEF Evals
  <2>2. epc' = [epc EXCEPT ![e] = "deciding"] /\ eval' = [eval EXCEPT ![e] = held]
    BY <1>1, <1>3, <2>1 DEF A!Proceed
  <2>3. held \in Evals /\ held.now = eval[e].now /\ held.alone = eval[e].alone
    BY <1>0 DEF Evals
  <2>4. epc'[e] = "deciding" /\ eval'[e] = held  BY <1>0, <2>2
  <2>5. Holds(e)' /\ (eval[e].alone => HoldsAlone(e)')
    <3> DEFINE F == {}
    <3>1. F \in SUBSET eval[e].todo /\ T \cap F = {} /\ \A r \in F : A!Fires(eval[e], r)  OBVIOUS
    <3>2. epc'[e] \in {"deciding", "delivered"} /\ eval'[e] = [eval[e] EXCEPT !.todo = T, !.firing = F]
      BY <2>4
    <3> HIDE DEF F
    <3> QED  BY <3>1, <3>2, Narrows
  <2> HIDE DEF held
  <2> QED  BY <1>0, <2>2, <2>3, <2>5, Turn DEF EPlaces
<1> QED  BY <1>2, <1>3

LEMMA SkipStep == ASSUME AlertInv, ShownInv', NEW e \in Evaluator, A!Skip(e) PROVE AlertInv'
<1>1. /\ epc[e] = "deciding" /\ UNCHANGED <<stamp, is_active>> /\ UNCHANGED <<alerts, alert_events>>
  BY DEF A!Skip
<1>2. PICK r \in eval[e].todo : A!Proceed(e, [eval[e] EXCEPT !.todo = @ \ {r}])
  BY DEF A!Skip
<1> DEFINE T == eval[e].todo \ {r}
           l == [eval[e] EXCEPT !.todo = T]
<1>3. A!Proceed(e, l) /\ T \in SUBSET eval[e].todo /\ l = [eval[e] EXCEPT !.todo = T]  BY <1>2
<1> HIDE DEF l, T
<1> QED  BY <1>1, <1>3, EventsStay, ProceedStep

LEMMA RefusedStep ==
    ASSUME AlertInv, ShownInv', NEW e \in Evaluator, A!EventRefused(e) \/ A!MarkRefused(e)
    PROVE  AlertInv'
<1>1. /\ epc[e] \in {"delivered", "recorded"} /\ UNCHANGED <<stamp, is_active>> /\ UNCHANGED <<alerts, alert_events>>
      /\ A!Proceed(e, eval[e])
  BY DEF A!EventRefused, A!MarkRefused
<1>2. eval[e] = [eval[e] EXCEPT !.todo = eval[e].todo]
  BY DEF AlertInv, AlertsTyped, Evals
<1> QED  BY <1>1, <1>2, EventsStay, ProceedStep

LEMMA DeliverStep == ASSUME AlertInv, ShownInv', NEW e \in Evaluator, A!Deliver(e) PROVE AlertInv'
<1>0. /\ eval[e] \in Evals /\ eval[e].now <= stamp /\ epc \in [Evaluator -> EPlaces] /\ eval \in [Evaluator -> Evals]
  BY DEF AlertInv, AlertsTyped
<1>1. /\ epc[e] = "deciding" /\ UNCHANGED <<stamp, is_active>> /\ UNCHANGED <<alerts, alert_events>>
      /\ epc' = [epc EXCEPT ![e] = "delivered"]
  BY DEF A!Deliver
<1>2. PICK r \in eval[e].todo :
        /\ A!Fires(eval[e], r)
        /\ eval' = [eval EXCEPT ![e].todo = @ \ {r}, ![e].firing = {r}]
  BY DEF A!Deliver
<1> DEFINE held == [eval[e] EXCEPT !.todo = eval[e].todo \ {r}, !.firing = {r}]
<1>3. eval' = [eval EXCEPT ![e] = held]  BY <1>0, <1>2
<1>4. held \in Evals /\ held.now = eval[e].now /\ held.alone = eval[e].alone
  BY <1>0 DEF Evals
<1>5. epc'[e] = "delivered" /\ eval'[e] = held  BY <1>0, <1>1, <1>3
<1>6. SameButMarks(e)  BY <1>1, EventsStay
<1>7. Holds(e)' /\ (eval[e].alone => HoldsAlone(e)')
  <2> DEFINE T == eval[e].todo \ {r}
             F == {r}
  <2>1. T \in SUBSET eval[e].todo /\ F \in SUBSET eval[e].todo /\ T \cap F = {}  OBVIOUS
  <2> QED  BY <1>1, <1>2, <1>5, <1>6, <2>1, Narrows
<1> HIDE DEF held
<1> QED  BY <1>0, <1>1, <1>3, <1>4, <1>7, EventsStay, Turn DEF EPlaces

LEMMA ReadStep == ASSUME AlertInv, ShownInv', NEW e \in Evaluator, A!ReadFacts(e) PROVE AlertInv'
<1>0. /\ eval[e] \in Evals /\ eval[e].now <= stamp /\ epc \in [Evaluator -> EPlaces] /\ eval \in [Evaluator -> Evals]
  BY DEF AlertInv, AlertsTyped
<1>1. /\ epc[e] = "started" /\ UNCHANGED <<stamp, is_active>> /\ UNCHANGED <<alerts, alert_events>>
      /\ epc' = [epc EXCEPT ![e] = "deciding"]
  BY DEF A!ReadFacts
<1>a. Holds(e) /\ (eval[e].alone => HoldsAlone(e))  BY <1>1 DEF AlertInv, Holding
<1> DEFINE watch == {r \in Rule : eval[e].rules[r].type = "availability"}
           row == IF watch = Rule \/ fact_price = {} THEN A!NoRow ELSE A!Newest(fact_price)
           was == [r \in watch |-> A!PreviousAvailability(r)]
           held == [eval[e] EXCEPT !.row = row, !.was = was]
<1>2. row \in FactRow
  <2>1. A!NoRow \in FactRow  BY DEF A!NoRow, FactRow, Known
  <2>2. fact_price # {} => A!Newest(fact_price) \in FactRow
    BY NewestIs DEF AlertInv, ShownInv, IngestTypes, PriceRow, FactRow, Known
  <2> QED  BY <2>1, <2>2
<1>3. was \in [watch -> BOOLEAN]  BY DEF A!PreviousAvailability
<1>4. eval' = [eval EXCEPT ![e] = held]  BY <1>0 DEF A!ReadFacts
<1>b. was \in UNION {[w -> BOOLEAN] : w \in SUBSET Rule}  BY <1>3
<1> HIDE DEF row, was
<1>5. held \in Evals  BY <1>0, <1>2, <1>b DEF Evals
<1>6. /\ held.now = eval[e].now /\ held.alone = eval[e].alone /\ held.rules = eval[e].rules
      /\ held.todo = eval[e].todo /\ held.firing = eval[e].firing /\ held.was = was
  BY <1>0 DEF Evals
<1> HIDE DEF held
<1>7. epc'[e] = "deciding" /\ eval'[e] = held  BY <1>0, <1>1, <1>4
<1>8. Open(e)' = eval[e].todo /\ Open(e) = eval[e].todo  BY <1>1, <1>6, <1>7 DEF Open
<1>9. Holds(e)'  BY <1>1, <1>a, <1>6, <1>7, <1>8 DEF Holds, Event
<1>10. ASSUME eval[e].alone PROVE HoldsAlone(e)'
  <2>1. HoldsAlone(e)  BY <1>a, <1>10
  <2>2. ASSUME NEW r \in Watch(e)' PROVE eval'[e].was[r] = A!PreviousAvailability(r)'
    <3>1. r \in watch  BY <1>6, <1>7, <2>2 DEF Watch
    <3>2. was[r] = A!PreviousAvailability(r)  BY <3>1 DEF was
    <3>3. A!PreviousAvailability(r)' = A!PreviousAvailability(r)  BY <1>1 DEF A!PreviousAvailability
    <3> QED  BY <1>6, <1>7, <3>2, <3>3
  <2> QED  BY <1>1, <1>6, <1>7, <2>1, <2>2 DEF HoldsAlone, Event
<1> QED  BY <1>0, <1>1, <1>4, <1>5, <1>6, <1>9, <1>10, EventsStay, Turn DEF EPlaces

-----------------------------------------------------------------------------
\* A new evaluation is later than everything there is, and nobody is alone beside it.
LEMMA BeginStep == ASSUME AlertInv, ShownInv', NEW e \in Evaluator, A!Begin(e) PROVE AlertInv'
<1>0. /\ AlertsTyped /\ Holding /\ Apart /\ Settled /\ A!NothingReportedTwice
      /\ epc \in [Evaluator -> EPlaces] /\ eval \in [Evaluator -> Evals] /\ alerts \in [Rule -> RuleRow]
      /\ is_active \in BOOLEAN /\ stamp \in Nat
  BY DEF AlertInv, AlertsTyped, ShownInv, IngestTypes
<1>1. /\ epc[e] = "idle" /\ stamp' = stamp + 1 /\ epc' = [epc EXCEPT ![e] = "started"]
      /\ UNCHANGED <<is_active, alerts, alert_events>>
  BY DEF A!Begin, A!Stamp
<1> DEFINE others == {f \in Evaluator \ {e} : epc[f] # "idle"}
           new == [A!Off EXCEPT !.now = stamp', !.rules = alerts, !.active = is_active, !.todo = Rule, !.alone = (others = {})]
<1>2. eval' = [f \in Evaluator |-> IF f = e THEN new
                                   ELSE IF f \in others THEN [eval[f] EXCEPT !.alone = FALSE] ELSE eval[f]]
  BY DEF A!Begin
<1>3. /\ new \in Evals /\ new.now = stamp + 1 /\ new.rules = alerts /\ new.todo = Rule /\ new.firing = {}
      /\ (new.alone => others = {})
  <2> DEFINE alone == others = {}
  <2>1. alone \in BOOLEAN /\ new = [A!Off EXCEPT !.now = stamp', !.rules = alerts, !.active = is_active,
                                                !.todo = Rule, !.alone = alone]
    OBVIOUS
  <2>2. A!Off \in Evals /\ A!Off.firing = {} /\ stamp' \in Nat /\ Rule \in SUBSET Rule
    BY <1>0, <1>1, OffIs DEF A!Off
  <2>3. alone => others = {}  OBVIOUS
  <2> HIDE DEF alone, A!Off, new
  <2> QED  BY <1>0, <1>1, <2>1, <2>2, <2>3 DEF Evals
<1> HIDE DEF new
<1>4. eval'[e] = new /\ epc'[e] = "started"  BY <1>0, <1>1, <1>2
<1>5. ASSUME NEW f \in Evaluator \ {e}
      PROVE  /\ epc'[f] = epc[f] /\ eval'[f] \in Evals
             /\ eval'[f].now = eval[f].now /\ eval'[f].rules = eval[f].rules /\ eval'[f].active = eval[f].active
             /\ eval'[f].row = eval[f].row /\ eval'[f].was = eval[f].was
             /\ eval'[f].todo = eval[f].todo /\ eval'[f].firing = eval[f].firing
             /\ epc[f] # "idle" => ~eval'[f].alone
  <2>1. epc'[f] = epc[f] /\ eval[f] \in Evals  BY <1>0, <1>1
  <2>2. CASE f \in others
    <3>1. eval'[f] = [eval[f] EXCEPT !.alone = FALSE]  BY <1>2, <2>2
    <3> QED  BY <2>1, <3>1 DEF Evals
  <2>3. CASE f \notin others  BY <1>2, <2>1, <2>3
  <2> QED  BY <2>2, <2>3
<1>6. \A n \in Event : alert_events[n].at \in Nat /\ alert_events[n].at <= stamp /\ alert_events[n].rule \in Rule
  <2>1. \A n \in Event : alert_events[n] \in EventRow  BY <1>0 DEF AlertsTyped, Event
  <2> QED  BY <1>0, <2>1 DEF AlertsTyped, EventRow
<1>7. \A f \in Evaluator : eval[f].now \in Nat /\ eval[f].now <= stamp
  BY <1>0 DEF AlertsTyped, Evals
<1>8. AlertsTyped'
  <2>1. epc' \in [Evaluator -> EPlaces]  BY <1>0, <1>1 DEF EPlaces
  <2>2. eval' \in [Evaluator -> Evals]
    <3>1. \A f \in Evaluator : eval'[f] \in Evals  BY <1>3, <1>4, <1>5
    <3> HIDE DEF others
    <3> QED  BY <1>2, <3>1
  <2>3. \A f \in Evaluator : eval'[f].now <= stamp'
    BY <1>0, <1>1, <1>3, <1>4, <1>5, <1>7
  <2>4. \A n \in Event : alert_events[n].at <= stamp'  BY <1>0, <1>1, <1>6
  <2> QED  BY <1>0, <1>1, <2>1, <2>2, <2>3, <2>4 DEF AlertsTyped, Event
<1>9. Holding'
  <2>1. Holds(e)' /\ (eval'[e].alone => HoldsAlone(e)')
    <3>1. \A n \in Event : alert_events[n].at < eval'[e].now  BY <1>0, <1>3, <1>4, <1>6
    <3>2. Holds(e)'
      <4>1. \A n \in Event' : alert_events'[n].at # eval'[e].now  BY <1>1, <1>3, <1>4, <1>6, <3>1 DEF Event
      <4> QED  BY <1>0, <1>3, <1>4, <4>1 DEF Holds
    <3>3. ASSUME NEW n \in Event, alert_events[n].alone, alert_events[n].marked
          PROVE  alerts[alert_events[n].rule].triggered >= alert_events[n].at
      <4>1. alert_events[n].at <= alerts[alert_events[n].rule].triggered  BY <1>0, <3>3 DEF Settled
      <4>2. alerts[alert_events[n].rule] \in RuleRow  BY <1>0, <1>6
      <4> QED  BY <1>6, <4>1, <4>2 DEF RuleRow
    <3>4. HoldsAlone(e)'
      <4>1. \A n \in Event' : alert_events'[n].at <= eval'[e].now  BY <1>0, <1>1, <1>3, <1>4, <1>6 DEF Event
      <4> QED  BY <1>1, <1>3, <1>4, <3>3, <4>1 DEF HoldsAlone, Event
    <3> QED  BY <3>2, <3>4
  <2>2. ASSUME NEW f \in Evaluator \ {e}, epc'[f] # "idle"
        PROVE  Holds(f)' /\ ~eval'[f].alone
    <3>1. Holds(f) /\ ~eval'[f].alone  BY <1>0, <1>5, <2>2 DEF Holding
    <3>2. Open(f)' = Open(f)  BY <1>5 DEF Open
    <3>3. epc'[f] = "delivered" => \A r \in eval'[f].firing : A!Fires(eval[f], r)'
      BY <1>5, <3>1 DEF Holds, A!Fires, A!InCooldown, A!AvailabilityTrigger, A!PriceTrigger
    <3>4. \A n \in Event' : alert_events'[n].at = eval'[f].now => alert_events'[n].rule \notin Open(f)'
      BY <1>1, <1>5, <3>1, <3>2 DEF Holds, Event
    <3> QED  BY <1>5, <3>1, <3>3, <3>4 DEF Holds
  <2> QED  BY <2>1, <2>2 DEF Holding
<1>10. Apart'
  <2> SUFFICES ASSUME NEW f \in Evaluator, NEW g \in Evaluator \ {f}, epc'[f] # "idle"
               PROVE  /\ epc'[g] # "idle" => eval'[f].now # eval'[g].now
                      /\ eval'[f].alone => epc'[g] = "idle"
    BY DEF Apart
  <2>1. CASE f = e
    <3>1. eval'[f].alone => epc[g] = "idle"  BY <1>3, <1>4, <2>1
    <3>2. eval'[f].now # eval'[g].now  BY <1>0, <1>3, <1>4, <1>5, <1>7, <2>1
    <3> QED  BY <1>5, <2>1, <3>1, <3>2
  <2>2. CASE f # e
    <3>1. epc[f] # "idle" /\ ~eval'[f].alone  BY <1>5, <2>2
    <3>2. CASE g = e  BY <1>0, <1>3, <1>4, <1>5, <1>7, <2>2, <3>1, <3>2
    <3>3. CASE g # e  BY <1>0, <1>5, <2>2, <3>1, <3>3 DEF Apart
    <3> QED  BY <3>2, <3>3
  <2> QED  BY <2>1, <2>2
<1>11. Settled'
  <2>1. ASSUME NEW n \in Event, alert_events[n].alone, NEW f \in Evaluator, epc'[f] # "idle"
        PROVE  alert_events[n].at <= eval'[f].now
    <3>1. CASE f = e  BY <1>0, <1>3, <1>4, <1>6, <3>1
    <3>2. CASE f # e  BY <1>0, <1>5, <2>1, <3>2 DEF Settled
    <3> QED  BY <3>1, <3>2
  <2> QED  BY <1>0, <1>1, <2>1 DEF Settled, Event
<1>12. A!NothingReportedTwice'  BY <1>0, <1>1, ReportedStays
<1> QED  BY <1>8, <1>9, <1>10, <1>11, <1>12 DEF AlertInv

\* Around the evaluations time passes, the listing goes and comes, and rules get another type.
LEMMA AroundStep ==
    ASSUME AlertInv, ShownInv', UNCHANGED <<alert_events, epc, eval>>, is_active' \in BOOLEAN,
           alerts' \in [Rule -> RuleRow], \A r \in Rule : alerts'[r].triggered = alerts[r].triggered,
           \/ stamp' = stamp
           \/ stamp' = stamp + 1
    PROVE  AlertInv'
<1>0. /\ AlertsTyped /\ Holding /\ Apart /\ Settled /\ A!NothingReportedTwice /\ stamp \in Nat
  BY DEF AlertInv, ShownInv, IngestTypes
<1>6. \A n \in Event : alert_events[n].at \in Nat /\ alert_events[n].at <= stamp /\ alert_events[n].rule \in Rule
  <2>1. \A n \in Event : alert_events[n] \in EventRow  BY <1>0 DEF AlertsTyped, Event
  <2> QED  BY <1>0, <2>1 DEF AlertsTyped, EventRow
<1>7. \A f \in Evaluator : eval[f].now \in Nat /\ eval[f].now <= stamp
  BY <1>0 DEF AlertsTyped, Evals
<1>8. AlertsTyped'
  <2>1. \A f \in Evaluator : eval'[f].now <= stamp'  BY <1>0, <1>7
  <2>2. \A n \in Event : alert_events[n].at <= stamp'  BY <1>0, <1>6
  <2> QED  BY <1>0, <2>1, <2>2 DEF AlertsTyped, Event
<1>9. Holding'
  <2> SUFFICES ASSUME NEW f \in Evaluator, epc[f] # "idle"
               PROVE  Holds(f)' /\ (eval[f].alone => HoldsAlone(f)')
    BY DEF Holding
  <2>1. Holds(f) /\ (eval[f].alone => HoldsAlone(f))  BY <1>0 DEF Holding
  <2>2. Open(f)' = Open(f) /\ Watch(f)' = Watch(f)  BY DEF Open, Watch
  <2>3. \A r \in eval[f].firing : A!Fires(eval[f], r) => A!Fires(eval[f], r)'
    BY DEF A!Fires, A!InCooldown, A!AvailabilityTrigger, A!PriceTrigger
  <2>4. Holds(f)'  BY <2>1, <2>2, <2>3 DEF Holds, Event
  <2>5. \A r \in Rule : A!PreviousAvailability(r)' = A!PreviousAvailability(r)
    BY DEF A!PreviousAvailability, A!Says
  <2>6. HoldsAlone(f) => HoldsAlone(f)'  BY <2>2, <2>5 DEF HoldsAlone, Event, Watch
  <2> QED  BY <2>1, <2>4, <2>6
<1>10. Apart'  BY <1>0 DEF Apart
<1>11. Settled'
  <2>1. \A n \in Event : alerts'[alert_events[n].rule].triggered = alerts[alert_events[n].rule].triggered
    BY <1>6
  <2> QED  BY <1>0, <2>1 DEF Settled, Event
<1>12. A!NothingReportedTwice'  BY <1>0, ReportedStays
<1> QED  BY <1>8, <1>9, <1>10, <1>11, <1>12 DEF AlertInv

-----------------------------------------------------------------------------
\* What is said of pairs of events, said of their places.
Successors(m, n) ==
    /\ m < n /\ alert_events[m].rule = alert_events[n].rule
    /\ alert_events[m].alone /\ alert_events[n].alone

PricesOnce ==
    \A m, n \in Event :
        Successors(m, n) /\ alert_events[m].row # 0 /\ alert_events[m].row = alert_events[n].row =>
            ~alert_events[m].marked \/ alert_events[m].row > alert_events[m].at

Alternates ==
    \A m, n \in Event :
        Successors(m, n) /\ alert_events[m].type = "availability" /\ alert_events[n].type = "availability"
        /\ (\A k \in (m + 1)..(n - 1) : alert_events[k].rule # alert_events[m].rule) =>
            alert_events[m].new # alert_events[n].new

LEMMA TwiceIs ==
    /\ A!NothingReportedTwice => PricesOnce /\ Alternates
    /\ (PricesOnce /\ Alternates)' => A!NothingReportedTwice'
    /\ PricesOnce /\ Alternates => A!NothingReportedTwice
<1>1. A!NothingReportedTwice => PricesOnce /\ Alternates
  <2> SUFFICES ASSUME A!NothingReportedTwice, NEW m \in Event, NEW n \in Event, Successors(m, n)
               PROVE  /\ alert_events[m].row # 0 /\ alert_events[m].row = alert_events[n].row =>
                            ~alert_events[m].marked \/ alert_events[m].row > alert_events[m].at
                      /\ alert_events[m].type = "availability" /\ alert_events[n].type = "availability"
                         /\ (\A k \in (m + 1)..(n - 1) : alert_events[k].rule # alert_events[m].rule) =>
                            alert_events[m].new # alert_events[n].new
    BY DEF PricesOnce, Alternates
  <2> DEFINE p == <<m, n>>
  <2>1. p \in A!Successive /\ p[1] = m /\ p[2] = n  BY DEF A!Successive, Successors, Event
  <2> HIDE DEF p
  <2> QED  BY <2>1 DEF A!NothingReportedTwice, A!PriceReportedOnce, A!AvailabilityAlternates
<1>2. \A p \in A!Successive : p[1] \in Event /\ p[2] \in Event /\ Successors(p[1], p[2])
  BY DEF A!Successive, Successors, Event
<1>3. \A p \in A!Successive' : p[1] \in Event' /\ p[2] \in Event' /\ Successors(p[1], p[2])'
  BY DEF A!Successive, Successors, Event
<1>4. PricesOnce /\ Alternates => A!NothingReportedTwice
  BY <1>2 DEF PricesOnce, Alternates, A!NothingReportedTwice, A!PriceReportedOnce, A!AvailabilityAlternates
<1>5. (PricesOnce /\ Alternates)' => A!NothingReportedTwice'
  BY <1>3 DEF PricesOnce, Alternates, A!NothingReportedTwice, A!PriceReportedOnce, A!AvailabilityAlternates
<1> QED  BY <1>1, <1>4, <1>5

LEMMA EventsTyped ==
    ASSUME AlertInv
    PROVE  /\ Event = 1..Len(alert_events) /\ Len(alert_events) \in Nat
           /\ \A n \in Event : n \in Nat /\ alert_events[n] \in EventRow
<1>1. alert_events \in Seq(EventRow)  BY DEF AlertInv, AlertsTyped
<1> QED  BY <1>1 DEF Event

\* The mark of an alert is its own evaluation's.
LEMMA MarkStep == ASSUME AlertInv, ShownInv', NEW e \in Evaluator, A!MarkRule(e) PROVE AlertInv'
<1>0. /\ eval[e] \in Evals /\ alerts \in [Rule -> RuleRow] /\ Apart /\ Settled
      /\ \A n \in Event : n \in Nat /\ alert_events[n] \in EventRow
      /\ alert_events \in [Event -> EventRow]
  BY EventsTyped DEF AlertInv, AlertsTyped, Event
<1>1. epc[e] = "recorded" /\ UNCHANGED <<stamp, is_active>> /\ A!Proceed(e, eval[e])
  BY DEF A!MarkRule
<1>2. PICK r \in eval[e].firing :
         /\ alerts' = [alerts EXCEPT ![r].triggered = eval[e].now]
         /\ alert_events' = [n \in DOMAIN alert_events |->
                               IF alert_events[n].rule = r /\ alert_events[n].at = eval[e].now
                               THEN [alert_events[n] EXCEPT !.marked = TRUE] ELSE alert_events[n]]
  BY DEF A!MarkRule
<1>3. r \in Rule /\ eval[e].now \in Nat  BY <1>0 DEF Evals
<1>4. /\ alerts' \in [Rule -> RuleRow] /\ alerts'[r].triggered = eval[e].now
      /\ \A s \in Rule \ {r} : alerts'[s] = alerts[s]
  <2> DEFINE rule == [alerts[r] EXCEPT !.triggered = eval[e].now]
  <2>1. alerts' = [alerts EXCEPT ![r] = rule]  BY <1>0, <1>2, <1>3
  <2>2. rule \in RuleRow /\ rule.triggered = eval[e].now  BY <1>0, <1>3 DEF RuleRow
  <2> HIDE DEF rule
  <2> QED  BY <1>0, <1>3, <2>1, <2>2
<1>5. ASSUME NEW n \in Event
      PROVE  /\ alert_events'[n] \in EventRow
             /\ alert_events'[n].rule = alert_events[n].rule /\ alert_events'[n].type = alert_events[n].type
             /\ alert_events'[n].at = alert_events[n].at /\ alert_events'[n].alone = alert_events[n].alone
             /\ alert_events'[n].row = alert_events[n].row /\ alert_events'[n].new = alert_events[n].new
             /\ alert_events'[n].marked => \/ alert_events[n].marked
                                           \/ alert_events[n].rule = r /\ alert_events[n].at = eval[e].now
  <2>1. alert_events[n] \in EventRow  BY <1>0
  <2>2. CASE alert_events[n].rule = r /\ alert_events[n].at = eval[e].now
    <3>1. alert_events'[n] = [alert_events[n] EXCEPT !.marked = TRUE]  BY <1>2, <2>2 DEF Event
    <3> QED  BY <2>1, <2>2, <3>1 DEF EventRow
  <2>3. CASE ~(alert_events[n].rule = r /\ alert_events[n].at = eval[e].now)
    <3>1. alert_events'[n] = alert_events[n]  BY <1>2, <2>3 DEF Event
    <3> QED  BY <2>1, <3>1
  <2> QED  BY <2>2, <2>3
<1>6. DOMAIN alert_events' = Event  BY <1>2 DEF Event
<1>7. SameButMarks(e)  BY <1>5, <1>6 DEF SameButMarks, Event
<1>8. alert_events' \in Seq(EventRow)
  <2>1. alert_events' \in [1..Len(alert_events) -> EventRow]
    <3>1. alert_events' = [n \in Event |-> alert_events'[n]]  BY <1>2 DEF Event
    <3> QED  BY <1>5, <3>1, EventsTyped
  <2>2. Len(alert_events) \in Nat  BY EventsTyped
  <2> QED  BY <2>1, <2>2
<1>9. ASSUME NEW n \in Event, alert_events[n].alone, alert_events'[n].marked
      PROVE  alert_events[n].at <= alerts'[alert_events[n].rule].triggered
  <2>1. alert_events[n].at \in Nat /\ alert_events[n].rule \in Rule  BY <1>0 DEF EventRow
  <2>2. CASE alert_events[n].rule = r
    <3>1. alert_events[n].at <= eval[e].now  BY <1>0, <1>1, <1>9 DEF Settled
    <3> QED  BY <1>4, <2>2, <3>1
  <2>3. CASE alert_events[n].rule # r
    <3>1. alert_events[n].marked  BY <1>5, <1>9, <2>3
    <3> QED  BY <1>0, <1>4, <1>9, <2>1, <2>3, <3>1 DEF Settled
  <2> QED  BY <2>2, <2>3
<1>10. A!NothingReportedTwice'
  <2>1. PricesOnce /\ Alternates  BY TwiceIs DEF AlertInv
  <2>2. \A m, n \in Event : Successors(m, n)' => Successors(m, n)  BY <1>5 DEF Successors
  <2>3. Alternates'
    <3> SUFFICES ASSUME NEW m \in Event, NEW n \in Event, Successors(m, n),
                        alert_events[m].type = "availability", alert_events[n].type = "availability",
                        \A k \in (m + 1)..(n - 1) : alert_events'[k].rule # alert_events[m].rule
                 PROVE  alert_events[m].new # alert_events[n].new
      BY <1>5, <1>6, <2>2 DEF Alternates, Event
    <3>1. \A k \in (m + 1)..(n - 1) : k \in Event
      <4>1. Event = 1..Len(alert_events) /\ Len(alert_events) \in Nat  BY EventsTyped
      <4> QED  BY <4>1
    <3> QED  BY <1>5, <2>1, <3>1 DEF Alternates
  <2>4. PricesOnce'
    <3> SUFFICES ASSUME NEW m \in Event, NEW n \in Event, Successors(m, n), alert_events'[m].marked,
                        alert_events[m].row # 0, alert_events[m].row = alert_events[n].row
                 PROVE  alert_events[m].row > alert_events[m].at
      BY <1>5, <1>6, <2>2 DEF PricesOnce, Event
    <3>1. CASE alert_events[m].marked  BY <2>1, <3>1 DEF PricesOnce
    <3>2. CASE alert_events[m].at = eval[e].now
      <4>1. alert_events[n].at <= eval[e].now /\ alert_events[m].at < alert_events[n].at
        BY <1>0, <1>1 DEF Settled, Successors
      <4>2. alert_events[m].at \in Nat /\ alert_events[n].at \in Nat  BY <1>0 DEF EventRow
      <4> QED  BY <1>3, <3>2, <4>1, <4>2
    <3> QED  BY <1>5, <3>1, <3>2
  <2> QED  BY <2>3, <2>4, TwiceIs
<1>11. eval[e] = [eval[e] EXCEPT !.todo = eval[e].todo]  BY <1>0 DEF Evals
<1> QED  BY <1>1, <1>4, <1>7, <1>8, <1>9, <1>10, <1>11, ProceedStep

-----------------------------------------------------------------------------
\* The last event of a rule, if recorded alone, says whether the listing was there.
LEMMA LastEvent ==
    ASSUME AlertInv, NEW m \in Event, alert_events[m].alone,
           \A k \in Event : m < k => alert_events[k].rule # alert_events[m].rule
    PROVE  A!PreviousAvailability(alert_events[m].rule) <=> A!Says(alert_events[m])
<1> DEFINE r == alert_events[m].rule
           mine == {n \in Event : alert_events[n].rule = r}
<1>1. \A n \in Event : n \in Nat /\ alert_events[n] \in EventRow  BY EventsTyped
<1>2. \A k \in mine : k = m \/ k < m  BY <1>1
<1>3. \A k \in mine : k < m => alert_events[k].at < alert_events[m].at  BY DEF AlertInv, Settled
<1>4. \A k \in mine : alert_events[k].at \in Nat  BY <1>1 DEF EventRow
<1>5. \A k \in mine : alert_events[k].at <= alert_events[m].at  BY <1>2, <1>3, <1>4
<1>6. \A k \in mine : alert_events[m].at <= alert_events[k].at => k = m  BY <1>2, <1>3, <1>4
<1>7. m \in mine  OBVIOUS
<1>8. A!PreviousAvailability(r) <=>
         \E n \in mine : (\A k \in mine : alert_events[k].at <= alert_events[n].at) /\ A!Says(alert_events[n])
  BY <1>7 DEF A!PreviousAvailability, Event
<1> QED  BY <1>5, <1>6, <1>7, <1>8

LEMMA RecordStep == ASSUME AlertInv, ShownInv', NEW e \in Evaluator, A!RecordEvent(e) PROVE AlertInv'
<1>0. /\ AlertsTyped /\ Holding /\ Apart /\ Settled
      /\ eval[e] \in Evals /\ epc \in [Evaluator -> EPlaces]
      /\ Event = 1..Len(alert_events) /\ Len(alert_events) \in Nat
      /\ alert_events \in Seq(EventRow)
      /\ \A n \in Event : n \in Nat /\ alert_events[n] \in EventRow
  BY EventsTyped DEF AlertInv, AlertsTyped
<1>1. /\ epc[e] = "delivered" /\ epc' = [epc EXCEPT ![e] = "recorded"]
      /\ UNCHANGED <<stamp, is_active>> /\ alerts' = alerts /\ eval' = eval
  BY DEF A!RecordEvent
<1> DEFINE l == eval[e]
           event(r) == [rule |-> r, type |-> l.rules[r].type, at |-> l.now, alone |-> l.alone, marked |-> FALSE,
                        row |-> IF l.rules[r].type = "availability" THEN 0 ELSE l.row.at,
                        new |-> IF l.rules[r].type # "availability" THEN l.row.price
                                ELSE IF l.active THEN 1 ELSE 0]
<1>2. PICK r \in l.firing : alert_events' = Append(alert_events, event(r))
  BY DEF A!RecordEvent
<1> DEFINE ev == event(r)
<1>n. PICK N : N = Len(alert_events) + 1  OBVIOUS
<1>3. Holds(e) /\ (l.alone => HoldsAlone(e))  BY <1>0, <1>1 DEF Holding
<1>4. /\ r \in Rule /\ l.rules[r] \in RuleRow /\ l.now \in Nat /\ l.alone \in BOOLEAN /\ l.active \in BOOLEAN
      /\ l.row \in FactRow
  BY <1>0, <1>3 DEF Evals, Holds
<1>5. /\ ev.rule = r /\ ev.type = l.rules[r].type /\ ev.at = l.now /\ ev.alone = l.alone /\ ev.marked = FALSE
      /\ l.rules[r].type = "availability" => ev.row = 0
      /\ l.rules[r].type # "availability" => ev.row = l.row.at
      /\ l.rules[r].type = "availability" => (l.active => ev.new = 1) /\ (~l.active => ev.new = 0)
  OBVIOUS
<1>6. ev \in EventRow
  BY <1>4 DEF EventRow, RuleRow, FactRow, Known
<1> HIDE DEF ev
<1>7. /\ alert_events' \in Seq(EventRow) /\ Event' = Event \cup {N} /\ N \notin Event /\ N \in Nat
      /\ alert_events'[N] = ev
      /\ \A n \in Event : alert_events'[n] = alert_events[n] /\ n < N
  <2>1. alert_events' = Append(alert_events, ev)  BY <1>2 DEF ev
  <2>2. Event' = 1..N /\ N \notin Event /\ N \in Nat  BY <1>0, <1>n, <2>1 DEF Event
  <2>3. Event' = Event \cup {N}  BY <1>0, <1>n, <2>2
  <2> QED  BY <1>0, <1>6, <1>n, <2>1, <2>2, <2>3 DEF Event
<1>8. epc'[e] = "recorded" /\ \A f \in Evaluator \ {e} : epc'[f] = epc[f]  BY <1>0, <1>1
<1>9. r \in Open(e) /\ r \notin l.todo /\ Open(e)' = l.todo /\ l.todo \subseteq Open(e)
  BY <1>1, <1>3, <1>8 DEF Holds, Open
<1>10. \A n \in Event : alert_events[n].rule = r => alert_events[n].at # l.now
  BY <1>3, <1>9 DEF Holds
<1>11. \A n \in Event : alert_events[n].at \in Nat /\ alert_events[n].row \in Nat /\ alert_events[n].rule \in Rule
  BY <1>0 DEF EventRow
<1>12. l.alone => \A f \in Evaluator \ {e} : epc[f] = "idle"  BY <1>0, <1>1 DEF Apart
<1>13. AlertsTyped'
  <2>1. epc' \in [Evaluator -> EPlaces]  BY <1>0, <1>1 DEF EPlaces
  <2>2. \A n \in Event' : alert_events'[n].at <= stamp'
    BY <1>0, <1>1, <1>5, <1>7 DEF AlertsTyped
  <2>3. \A n \in Event' : alert_events'[n].type = "availability" => alert_events'[n].new \in {0, 1}
    BY <1>0, <1>4, <1>5, <1>7 DEF AlertsTyped
  <2> QED  BY <1>0, <1>1, <1>7, <2>1, <2>2, <2>3 DEF AlertsTyped
<1>14. Holding'
  <2>1. Holds(e)'
    <3>1. \A n \in Event' : alert_events'[n].at = eval'[e].now => alert_events'[n].rule \notin Open(e)'
      BY <1>1, <1>3, <1>5, <1>7, <1>9 DEF Holds
    <3> QED  BY <1>1, <1>3, <1>8, <3>1 DEF Holds
  <2>2. ASSUME l.alone PROVE HoldsAlone(e)'
    <3>1. HoldsAlone(e)  BY <1>3, <2>2
    <3>2. \A n \in Event' : alert_events'[n].at <= eval'[e].now
      BY <1>1, <1>4, <1>5, <1>7, <3>1 DEF HoldsAlone
    <3>3. \A n \in Event' :
            alert_events'[n].alone /\ alert_events'[n].marked /\ alert_events'[n].at # eval'[e].now =>
               eval'[e].rules[alert_events'[n].rule].triggered >= alert_events'[n].at
      BY <1>1, <1>5, <1>7, <3>1 DEF HoldsAlone
    <3>4. ASSUME NEW s \in Watch(e)' \cap Open(e)' PROVE eval'[e].was[s] = A!PreviousAvailability(s)'
      <4>1. s \in Watch(e) \cap Open(e) /\ s # r  BY <1>1, <1>9, <3>4 DEF Watch
      <4>2. eval[e].was[s] = A!PreviousAvailability(s)  BY <1>1, <3>1, <4>1 DEF HoldsAlone
      <4>3. {n \in Event' : alert_events'[n].rule = s} = {n \in Event : alert_events[n].rule = s}
        BY <1>5, <1>7, <4>1
      <4>4. A!PreviousAvailability(s) <=> A!PreviousAvailability(s)'
        BY <1>7, <4>3 DEF A!PreviousAvailability, A!Says, Event
      <4>5. A!PreviousAvailability(s) = A!PreviousAvailability(s)'
        BY <4>4 DEF A!PreviousAvailability
      <4> QED  BY <1>1, <4>2, <4>5
    <3> QED  BY <3>2, <3>3, <3>4 DEF HoldsAlone
  <2>3. ASSUME NEW f \in Evaluator \ {e}, epc'[f] # "idle" PROVE Holds(f)' /\ ~eval'[f].alone
    <3>1. epc[f] # "idle" /\ epc'[f] = epc[f] /\ Holds(f)  BY <1>0, <1>8, <2>3 DEF Holding
    <3>2. ~eval[f].alone /\ eval[f].now # l.now  BY <1>0, <1>1, <3>1 DEF Apart
    <3>3. Open(f)' = Open(f)  BY <1>1, <3>1 DEF Open
    <3>4. \A n \in Event' : alert_events'[n].at = eval'[f].now => alert_events'[n].rule \notin Open(f)'
      BY <1>1, <1>5, <1>7, <3>1, <3>2, <3>3 DEF Holds
    <3>5. epc'[f] = "delivered" => \A s \in eval'[f].firing : A!Fires(eval[f], s)'
      BY <1>1, <3>1 DEF Holds, A!Fires, A!InCooldown, A!AvailabilityTrigger, A!PriceTrigger
    <3> QED  BY <1>1, <3>1, <3>2, <3>4, <3>5 DEF Holds
  <2> QED  BY <1>1, <2>1, <2>2, <2>3 DEF Holding
<1>15. Apart'
  <2> SUFFICES ASSUME NEW f \in Evaluator, NEW g \in Evaluator \ {f}, epc'[f] # "idle"
               PROVE  /\ epc'[g] # "idle" => eval'[f].now # eval'[g].now
                      /\ eval'[f].alone => epc'[g] = "idle"
    BY DEF Apart
  <2>1. epc[f] # "idle"  BY <1>1, <1>8
  <2>2. epc[g] = "idle" => epc'[g] = "idle"  BY <1>1, <1>8
  <2> QED  BY <1>0, <1>1, <2>1, <2>2 DEF Apart
<1>16. Settled'
  <2>1. ASSUME NEW n \in Event, alert_events[n].alone
        PROVE  /\ \A f \in Evaluator : epc'[f] # "idle" => alert_events[n].at <= eval'[f].now
               /\ \A m \in Event' : m < n /\ alert_events'[m].rule = alert_events[n].rule
                                       => alert_events'[m].at < alert_events[n].at
               /\ alert_events[n].marked => alert_events[n].at <= alerts'[alert_events[n].rule].triggered
    <3>1. \A f \in Evaluator : epc'[f] # "idle" => epc[f] # "idle"  BY <1>1, <1>8
    <3>2. \A m \in Event' : m < n => m \in Event
      <4>1. ~(N < n)  BY <1>0, <1>7, <1>n
      <4> QED  BY <1>7, <4>1
    <3> QED  BY <1>0, <1>1, <1>7, <2>1, <3>1, <3>2 DEF Settled
  <2>2. ASSUME ev.alone
        PROVE  /\ \A f \in Evaluator : epc'[f] # "idle" => ev.at <= eval'[f].now
               /\ \A m \in Event' : m < N /\ alert_events'[m].rule = ev.rule => alert_events'[m].at < ev.at
    <3>1. \A f \in Evaluator : epc'[f] # "idle" => f = e  BY <1>5, <1>8, <1>12, <2>2
    <3>2. HoldsAlone(e)  BY <1>3, <1>5, <2>2
    <3>3. ASSUME NEW m \in Event, alert_events[m].rule = r PROVE alert_events[m].at < l.now
      <4>1. alert_events[m].at <= l.now /\ alert_events[m].at # l.now  BY <1>10, <3>2, <3>3 DEF HoldsAlone
      <4> QED  BY <1>4, <1>11, <4>1
    <3>4. ~(N < N)  BY <1>7
    <3> QED  BY <1>1, <1>4, <1>5, <1>7, <3>1, <3>3, <3>4
  <2> QED  BY <1>5, <1>7, <2>1, <2>2 DEF Settled
<1>17. A!NothingReportedTwice'
  <2>1. PricesOnce /\ Alternates  BY TwiceIs DEF AlertInv
  <2>2. \A m, n \in Event : Successors(m, n)' => Successors(m, n)  BY <1>7 DEF Successors
  <2>3. ASSUME NEW m \in Event, Successors(m, N)'
        PROVE  /\ l.alone /\ alert_events[m].alone /\ alert_events[m].rule = r /\ alert_events[m].at # l.now
               /\ HoldsAlone(e)
    BY <1>3, <1>5, <1>7, <1>10, <2>3 DEF Successors
  <2>4. \A m \in Event' : ~Successors(N, m)'
    <3>1. \A m \in Event' : ~(N < m)  BY <1>0, <1>7, <1>n
    <3> QED  BY <3>1 DEF Successors
  <2>5. PricesOnce'
    <3>1. ASSUME NEW m \in Event, Successors(m, N)', alert_events[m].row # 0, alert_events[m].row = ev.row, alert_events[m].marked
          PROVE  alert_events[m].row > alert_events[m].at
      <4>1. l.rules[r].type # "availability" /\ ev.row = l.row.at  BY <1>5, <3>1
      <4>2. l.row.at > l.rules[r].triggered  BY <1>1, <1>3, <4>1 DEF Holds, A!Fires
      <4>3. l.rules[r].triggered >= alert_events[m].at  BY <2>3, <3>1 DEF HoldsAlone
      <4>4. l.row.at \in Nat /\ l.rules[r].triggered \in Nat  BY <1>4 DEF FactRow, RuleRow
      <4> QED  BY <1>11, <3>1, <4>1, <4>2, <4>3, <4>4
    <3>2. ASSUME NEW m \in Event, NEW n \in Event, Successors(m, n)'
          PROVE  alert_events[m].row # 0 /\ alert_events[m].row = alert_events[n].row =>
                    ~alert_events[m].marked \/ alert_events[m].row > alert_events[m].at
      BY <2>1, <2>2, <3>2 DEF PricesOnce
    <3> QED  BY <1>7, <2>4, <3>1, <3>2 DEF PricesOnce
  <2>6. Alternates'
    <3>1. ASSUME NEW m \in Event, Successors(m, N)', alert_events[m].type = "availability", ev.type = "availability",
                 \A k \in (m + 1)..(N - 1) : alert_events'[k].rule # alert_events[m].rule
          PROVE  alert_events[m].new # ev.new
      <4>1. \A k \in Event : m < k => alert_events[k].rule # alert_events[m].rule
        <5>1. \A k \in Event : k < N /\ k \in Nat /\ m \in Nat /\ N \in Nat  BY <1>0, <1>7, <1>n
        <5>2. \A k \in Event : m < k => k \in (m + 1)..(N - 1)  BY <5>1
        <5> QED  BY <1>7, <3>1, <5>2
      <4>2. A!PreviousAvailability(r) <=> A!Says(alert_events[m])  BY <2>3, <3>1, <4>1, LastEvent
      <4>3. r \in Watch(e) \cap Open(e)  BY <1>4, <1>5, <1>9, <3>1 DEF Watch
      <4>4. l.was[r] = A!PreviousAvailability(r)  BY <1>1, <2>3, <3>1, <4>3 DEF HoldsAlone
      <4>5. l.active # l.was[r]
        BY <1>1, <1>3, <1>5, <3>1 DEF Holds, A!Fires, A!AvailabilityTrigger
      <4>6. l.active <=> ~A!Says(alert_events[m])
        BY <1>4, <4>2, <4>4, <4>5 DEF A!PreviousAvailability
      <4>7. alert_events[m].new \in {0, 1}  BY <1>0, <3>1 DEF AlertsTyped
      <4>8. l.active => alert_events[m].new = 0 /\ ev.new = 1
        BY <1>5, <3>1, <4>6, <4>7 DEF A!Says
      <4>9. ~l.active => alert_events[m].new = 1 /\ ev.new = 0
        BY <1>5, <3>1, <4>6, <4>7 DEF A!Says
      <4> QED  BY <4>8, <4>9
    <3>2. ASSUME NEW m \in Event, NEW n \in Event, Successors(m, n)',
                 alert_events[m].type = "availability", alert_events[n].type = "availability",
                 \A k \in (m + 1)..(n - 1) : alert_events'[k].rule # alert_events[m].rule
          PROVE  alert_events[m].new # alert_events[n].new
      <4>1. \A k \in (m + 1)..(n - 1) : k \in Event  BY <1>0
      <4> QED  BY <1>7, <2>1, <2>2, <3>2, <4>1 DEF Alternates
    <3> QED  BY <1>7, <2>4, <3>1, <3>2 DEF Alternates
  <2> QED  BY <2>5, <2>6, TwiceIs
<1> QED  BY <1>13, <1>14, <1>15, <1>16, <1>17 DEF AlertInv

-----------------------------------------------------------------------------
LEMMA AlertInit == A!Init => AlertInv
<1> SUFFICES ASSUME A!Init PROVE AlertInv  OBVIOUS
<1>1. /\ is_active = TRUE /\ alert_events = <<>> /\ epc = [e \in Evaluator |-> "idle"]
      /\ eval = [e \in Evaluator |-> A!Off] /\ alerts \in [Rule -> [type : AlertTypes, triggered : {A!Never}]]
  BY DEF A!Init
<1>2. ShownInv /\ stamp \in Nat  BY ShownInit DEF ShownInv, IngestTypes
<1>3. DOMAIN alert_events = {} /\ alert_events \in Seq(EventRow)  BY <1>1
<1>4. alerts \in [Rule -> RuleRow]  BY <1>1 DEF RuleRow, A!Never
<1>5. \A e \in Evaluator : epc[e] = "idle" /\ eval[e] \in Evals /\ eval[e].now = 0
  <2> HIDE DEF A!Off
  <2> QED  BY <1>1, OffIs
<1>6. AlertsTyped
  <2>1. epc \in [Evaluator -> EPlaces]  BY <1>1 DEF EPlaces
  <2>2. eval \in [Evaluator -> Evals]
    <3> HIDE DEF A!Off
    <3> QED  BY <1>1, OffIs
  <2>3. \A e \in Evaluator : eval[e].now <= stamp  BY <1>2, <1>5
  <2> QED  BY <1>1, <1>3, <1>4, <2>1, <2>2, <2>3 DEF AlertsTyped, Event
<1>7. Holding /\ Apart /\ Settled  BY <1>3, <1>5 DEF Holding, Apart, Settled, Event
<1>8. PricesOnce /\ Alternates  BY <1>3 DEF PricesOnce, Alternates, Event
<1> QED  BY <1>2, <1>6, <1>7, <1>8, TwiceIs DEF AlertInv

LEMMA AlertStays == ASSUME AlertInv, [A!Next]_aVars PROVE AlertInv'
<1>0. ShownInv' /\ alerts \in [Rule -> RuleRow] /\ is_active \in BOOLEAN
  BY ShownStays DEF AlertInv, AlertsTyped
<1>1. CASE A!Evaluate
  <2>1. PICK e \in Evaluator :
          \/ A!Begin(e) \/ A!ReadFacts(e) \/ A!Skip(e) \/ A!Deliver(e)
          \/ A!RecordEvent(e) \/ A!EventRefused(e) \/ A!MarkRule(e) \/ A!MarkRefused(e) \/ A!Abort(e)
    BY <1>1 DEF A!Evaluate
  <2> QED
    BY <1>0, <2>1, BeginStep, ReadStep, SkipStep, DeliverStep, RecordStep, RefusedStep, MarkStep, AbortStep
<1>2. CASE ~A!Evaluate
  <2>1. UNCHANGED <<alert_events, epc, eval>>
    BY <1>2 DEF A!Next, A!alertVars, A!ListingFlips, A!UpdateRule, A!Passes, aVars
  <2>2. is_active' \in BOOLEAN
    BY <1>0, <1>2 DEF A!Next, A!alertVars, A!ListingFlips, A!UpdateRule, A!Passes, aVars
  <2>3. stamp' = stamp \/ stamp' = stamp + 1
    BY <1>2 DEF A!Next, A!Ingest, A!Load, A!See, A!Reject, A!Insert, A!CommitNoChange, A!CommitPrice, A!Rollback,
                A!Stamp, A!ListingFlips, A!UpdateRule, A!Passes, aVars
  <2>4. alerts' \in [Rule -> RuleRow] /\ \A r \in Rule : alerts'[r].triggered = alerts[r].triggered
    <3>1. CASE A!UpdateRule
      <4>1. PICK r \in Rule : \E type \in AlertTypes : alerts' = [alerts EXCEPT ![r].type = type]
        BY <3>1 DEF A!UpdateRule
      <4>2. PICK type \in AlertTypes : alerts' = [alerts EXCEPT ![r].type = type]  BY <4>1
      <4> DEFINE rule == [alerts[r] EXCEPT !.type = type]
      <4>3. alerts' = [alerts EXCEPT ![r] = rule]  BY <1>0, <4>2
      <4>4. rule \in RuleRow /\ rule.triggered = alerts[r].triggered  BY <1>0 DEF RuleRow
      <4> HIDE DEF rule
      <4> QED  BY <1>0, <4>3, <4>4
    <3>2. CASE ~A!UpdateRule
      <4>1. alerts' = alerts
        BY <1>2, <3>2 DEF A!Next, A!alertVars, A!ListingFlips, A!Passes, aVars
      <4> QED  BY <1>0, <4>1
    <3> QED  BY <3>1, <3>2
  <2>5. CASE stamp' = stamp  BY <1>0, <2>1, <2>2, <2>4, <2>5, AroundStep
  <2>6. CASE stamp' = stamp + 1  BY <1>0, <2>1, <2>2, <2>4, <2>6, AroundStep
  <2> QED  BY <2>3, <2>5, <2>6
<1> QED  BY <1>1, <1>2

\* No alert says what the one before of its rule said, as long as the evaluations that record them run
\* beside no other: the watermark of a rule keeps a price from being reported again, and the last event
\* keeps the reports that a listing is gone and that it is back apart, however the ingests cross,
\* whatever is refused or dies half way and whenever the owner edits the rule (workers/alert_tasks.py,
\* modules/alerts/engine.py).
THEOREM AlertsSayNews == (A!Spec => []A!NothingReportedTwice) /\ (MCSpec => []NothingReportedTwice)
<1>1. AlertInv => A!NothingReportedTwice  BY DEF AlertInv
<1>2. A!Spec => []A!NothingReportedTwice
  <2>1. UNCHANGED A!vars <=> UNCHANGED aVars  BY DEF A!vars, A!ingestVars, A!alertVars, aVars
  <2>2. ASSUME AlertInv, [A!Next]_(A!vars) PROVE AlertInv'  BY <2>1, <2>2, AlertStays
  <2> QED  BY <1>1, <2>2, AlertInit, PTL DEF A!Spec
<1>3. MCInit => (part \in AlertParts => AlertInv)  BY AlertInit DEF MCInit
<1>4. ASSUME part \in AlertParts => AlertInv, [MCNext]_allVars PROVE (part \in AlertParts => AlertInv)'
  BY <1>4, AlertPart, AlertStays
<1>5. (part \in AlertParts => AlertInv) => NothingReportedTwice  BY <1>1 DEF NothingReportedTwice
<1>6. MCSpec => []NothingReportedTwice  BY <1>3, <1>4, <1>5, PTL DEF MCSpec, allVars
<1> QED  BY <1>2, <1>6

-----------------------------------------------------------------------------
(***************************************************************************)
(* Fetches.  What a fetch has left to try says what it has tried: where    *)
(* only the browser is left, the shop was asked directly, and where the    *)
(* paid proxy is, nobody was asked yet.                                    *)
(***************************************************************************)
FetchShape(l) ==
    /\ l \in [kind : {l.kind}, layers : {l.layers}, attempt : {l.attempt}, fallback : {l.fallback},
              deadline : {l.deadline}, page : {l.page}, read : {l.read}, today : {l.today}, out : {l.out},
              asked : {l.asked}, before : {l.before}]
    /\ l.attempt \in Nat \ {0} /\ l.asked \in BOOLEAN

One(l, only) == l.layers \in Seq(Layer) /\ Len(l.layers) = 1 /\ l.layers[1].backend = only
Two(l, first, second) ==
    /\ l.layers \in Seq(Layer) /\ Len(l.layers) = 2
    /\ l.layers[1].backend = first /\ l.layers[2].backend = second

\* The layers a listing may have before it.
Before(l) ==
    \/ Two(l, "direct", "render") \/ Two(l, "render", "direct") \/ One(l, "direct")
    \/ One(l, "render") /\ l.asked
    \/ One(l, "proxy") /\ ~l.asked

Honest(l) == (l.out = "failed" /\ configured => l.asked) /\ (l.out = "skipped" => ~l.asked)

ListingAt(step, l) ==
    CASE step = "done" -> Honest(l)
      [] step = "idle" -> TRUE
      [] step \in {"cache_get", "cache_del"} ->
            l.out = "none" /\ ~l.asked /\ (Before(l) \/ (~configured /\ l.layers = <<>>))
      [] step = "direct" -> l.out = "none" /\ Before(l) /\ (One(l, "direct") \/ Two(l, "direct", "render"))
      [] step \in {"queue", "render"} -> l.out = "none" /\ Before(l) /\ (One(l, "render") \/ Two(l, "render", "direct"))
      [] OTHER -> l.out = "none" /\ One(l, "proxy") /\ ~l.asked

FetchTypes ==
    /\ loc = [f \in Fetcher |-> loc[f]] /\ pc = [f \in Fetcher |-> pc[f]]
    /\ \A f \in Fetcher : FetchShape(loc[f])

\* Pages have numbers; one that was taken out of the cache does not come back, and whoever holds
\* one began before that.
PagesInv ==
    /\ puts \in Nat /\ consumed \subseteq 0..puts /\ cache \in 0..puts
    /\ cache # 0 => cache \notin consumed
    /\ \A f \in Fetcher :
          /\ loc[f].before \subseteq consumed /\ loc[f].page \in 0..puts
          /\ loc[f].page # 0 => loc[f].page \notin loc[f].before

FetchInv ==
    /\ FetchTypes /\ PagesInv
    /\ \A f \in Fetcher : loc[f].kind = "listing" => ListingAt(pc[f], loc[f])

LEMMA LayersLeft ==
    ASSUME NEW s \in Seq(Layer)
    PROVE  /\ s = <<>> <=> Len(s) = 0
           /\ Len(s) # 0 => /\ Head(s) = s[1] /\ Tail(s) \in Seq(Layer) /\ Len(Tail(s)) = Len(s) - 1
                            /\ Len(s) = 1 => Tail(s) = <<>>
                            /\ Len(s) = 2 => Tail(s)[1] = s[2]
<1>1. s = <<>> <=> Len(s) = 0  BY EmptySeq
<1>2. ASSUME Len(s) # 0
      PROVE  Head(s) = s[1] /\ Tail(s) \in Seq(Layer) /\ Len(Tail(s)) = Len(s) - 1
             /\ (Len(s) = 1 => Tail(s) = <<>>) /\ (Len(s) = 2 => Tail(s)[1] = s[2])
  <2>1. Head(s) = s[1] /\ Tail(s) \in Seq(Layer) /\ Len(Tail(s)) = Len(s) - 1
        /\ \A i \in 1..Len(Tail(s)) : Tail(s)[i] = s[i + 1]
    BY <1>1, <1>2, HeadTailProperties
  <2>2. Len(s) = 1 => Tail(s) = <<>>
    <3> SUFFICES ASSUME Len(s) = 1 PROVE Tail(s) = <<>>  OBVIOUS
    <3>1. Len(Tail(s)) = 0  BY <2>1
    <3> QED  BY <2>1, <3>1, EmptySeq
  <2>3. Len(s) = 2 => Tail(s)[1] = s[2]
    <3> SUFFICES ASSUME Len(s) = 2 PROVE Tail(s)[1] = s[2]  OBVIOUS
    <3>1. Len(Tail(s)) = 1  BY <2>1
    <3>2. \A i \in 1..1 : Tail(s)[i] = s[i + 1]  BY <2>1, <3>1
    <3>3. 1 \in 1..1 /\ 1 + 1 = 2  OBVIOUS
    <3> QED  BY <3>2, <3>3, ZenonT(20)
  <2> QED  BY <2>1, <2>2, <2>3
<1> QED  BY <1>1, <1>2

\* What stays of the locals of a fetch until it ends.
Same(l, r) == FetchShape(r) /\ r.kind = l.kind /\ r.page = l.page /\ r.before = l.before

LEMMA AskedSame ==
    ASSUME NEW l, FetchShape(l)
    PROVE  Same(l, Asked(l)) /\ Asked(l).asked /\ Asked(l).out = l.out /\ Asked(l).layers = l.layers
BY DEF FetchShape, Same, Asked

LEMMA NextSame ==
    ASSUME NEW l, FetchShape(l), NEW left
    PROVE  LET next == [l EXCEPT !.layers = left, !.attempt = 1]
           IN  Same(l, next) /\ next.asked = l.asked /\ next.out = l.out /\ next.layers = left
<1> DEFINE next == [l EXCEPT !.layers = left, !.attempt = 1]
<1>1. next \in [kind : {l.kind}, layers : {left}, attempt : {1}, fallback : {l.fallback},
                deadline : {l.deadline}, page : {l.page}, read : {l.read}, today : {l.today}, out : {l.out},
                asked : {l.asked}, before : {l.before}]
  BY DEF FetchShape
<1>2. l.asked \in BOOLEAN  BY DEF FetchShape
<1> HIDE DEF next
<1>3. next.kind = l.kind /\ next.page = l.page /\ next.before = l.before /\ next.asked = l.asked
      /\ next.out = l.out /\ next.layers = left /\ next.attempt = 1
  BY <1>1
<1>4. next \in [kind : {next.kind}, layers : {next.layers}, attempt : {next.attempt}, fallback : {next.fallback},
                deadline : {next.deadline}, page : {next.page}, read : {next.read}, today : {next.today},
                out : {next.out}, asked : {next.asked}, before : {next.before}]
  BY <1>1
<1>5. FetchShape(next)  BY <1>2, <1>3, <1>4 DEF FetchShape
<1> QED  BY <1>3, <1>5 DEF Same, next

LEMMA EndSame ==
    ASSUME NEW l, FetchShape(l), NEW out
    PROVE  LET end == [l EXCEPT !.out = out] IN Same(l, end) /\ end.asked = l.asked /\ end.out = out
BY DEF FetchShape, Same

LEMMA FallbackSame ==
    ASSUME NEW l, FetchShape(l)
    PROVE  LET on == [l EXCEPT !.fallback = TRUE] IN Same(l, on) /\ on.asked = l.asked
BY DEF FetchShape, Same

LEMMA RenderedSame ==
    ASSUME NEW l, FetchShape(l)
    PROVE  Same(l, RenderedFallback(l)) /\ RenderedFallback(l).asked = l.asked
<1> DEFINE on == [l EXCEPT !.fallback = TRUE]
           left == LayerOrder(TRUE, FALSE)
           next == [on EXCEPT !.layers = left, !.attempt = 1]
           out == IF left = <<>> THEN "missing" ELSE "none"
<1>1. Same(l, on) /\ on.asked = l.asked  BY FallbackSame
<1>2. Same(on, next) /\ next.asked = on.asked
  <2> HIDE DEF on, left
  <2> QED  BY <1>1, NextSame, ZenonT(30) DEF Same
<1>3. Same(next, [next EXCEPT !.out = out]) /\ [next EXCEPT !.out = out].asked = next.asked
  <2> HIDE DEF next, out
  <2> QED  BY <1>2, EndSame DEF Same
<1>4. RenderedFallback(l) = [next EXCEPT !.out = out]
  <2> HIDE DEF left
  <2>1. next = [l EXCEPT !.fallback = TRUE, !.attempt = 1, !.layers = left]  BY DEF FetchShape
  <2> QED  BY <2>1 DEF RenderedFallback, left
<1> QED  BY <1>1, <1>2, <1>3, <1>4 DEF Same

LEMMA RefusedSame ==
    ASSUME NEW l, FetchShape(l), NEW code
    PROVE  Same(l, Refused(l, code)) /\ Refused(l, code).asked = l.asked
<1> DEFINE next == [l EXCEPT !.layers = Tail(l.layers), !.attempt = 1]
<1>1. Same(l, next) /\ next.asked = l.asked  BY NextSame
<1>4. AfterLayer(l, code) \in {next, RenderedFallback(next)} \cup {[next EXCEPT !.out = out] : out \in Outcomes}
  BY DEF AfterLayer, Nothing, Outcomes
<1> HIDE DEF next
<1>2. \A out : Same(next, [next EXCEPT !.out = out]) /\ [next EXCEPT !.out = out].asked = next.asked
  BY <1>1, EndSame DEF Same
<1>3. Same(next, RenderedFallback(next)) /\ RenderedFallback(next).asked = next.asked
  BY <1>1, RenderedSame DEF Same
<1>5. Same(l, AfterLayer(l, code)) /\ AfterLayer(l, code).asked = l.asked
  BY <1>1, <1>2, <1>3, <1>4 DEF Same
<1>6. Same(l, [l EXCEPT !.attempt = @ + 1]) /\ [l EXCEPT !.attempt = @ + 1].asked = l.asked
  BY DEF FetchShape, Same
<1> QED  BY <1>5, <1>6 DEF Refused

LEMMA AnsweredSame ==
    ASSUME NEW l, FetchShape(l), NEW xml
    PROVE  /\ Same(l, Answered(l, xml)) /\ Answered(l, xml).asked = l.asked
           /\ l.kind = "listing" => Answered(l, xml).out = "html"
<1>1. \A out : Same(l, [l EXCEPT !.out = out]) /\ [l EXCEPT !.out = out].asked = l.asked
               /\ [l EXCEPT !.out = out].out = out
  BY EndSame
<1> QED  BY <1>1, RenderedSame DEF Answered

\* What a listing goes on with, or ends with.
Fit(l) == IF l.out = "none" THEN Before(l) ELSE Honest(l)

LEMMA RefusedFits ==
    ASSUME NEW l, FetchShape(l), l.kind = "listing", l.out = "none", NEW code,
           \/ code \notin SkipErrors /\ Before(l) /\ ~One(l, "proxy") /\ (l.asked \/ Two(l, "render", "direct"))
           \/ code \notin SkipErrors /\ One(l, "proxy") /\ (l.asked \/ ~configured)
           \/ code \in SkipErrors /\ One(l, "proxy") /\ ~l.asked
    PROVE  Fit(Refused(l, code))
<1> DEFINE r == Refused(l, code)
           again == [l EXCEPT !.attempt = @ + 1]
           next == [l EXCEPT !.layers = Tail(l.layers), !.attempt = 1]
<1>0. l.layers \in Seq(Layer) /\ Len(l.layers) \in {1, 2}  BY DEF Before, One, Two
<1>1. again.out = "none" /\ again.layers = l.layers /\ again.asked = l.asked  BY DEF FetchShape
<1>2. next.out = "none" /\ next.layers = Tail(l.layers) /\ next.asked = l.asked  BY DEF FetchShape
<1>3. CASE Len(l.layers) = 2
  <2>1. Tail(l.layers) # <<>> /\ Tail(l.layers) \in Seq(Layer) /\ Len(Tail(l.layers)) = 1
        /\ Tail(l.layers)[1] = l.layers[2]
    <3>1. Len(l.layers) - 1 = 1 /\ Len(l.layers) # 0  BY <1>3
    <3>2. Len(Tail(l.layers)) = 1 /\ Tail(l.layers) \in Seq(Layer) /\ Tail(l.layers)[1] = l.layers[2]
      BY <1>0, <1>3, <3>1, LayersLeft
    <3>3. Tail(l.layers) # <<>>
      <4> HIDE DEF next
      <4>0. Len(<<>>) = 0 /\ 0 # 1  OBVIOUS
      <4>1. \A t : Len(t) = 1 => t # <<>>  BY <4>0, ZenonT(20)
      <4> QED  BY <3>2, <4>1
    <3> QED  BY <3>2, <3>3
  <2>2. ~One(l, "proxy") /\ code \notin SkipErrors  BY <1>3 DEF One
  <2>3. r \in {again, next}
    BY <2>1, <2>2 DEF Refused, AfterLayer
  <2>4. Before(again)  BY <1>1, <2>2 DEF Before, One, Two
  <2>5. Before(next)  BY <1>2, <1>3, <2>1, <2>2 DEF Before, One, Two
  <2> QED  BY <1>1, <1>2, <2>3, <2>4, <2>5 DEF Fit
<1>4. CASE Len(l.layers) = 1
  <2>1. Tail(l.layers) = <<>> /\ Head(l.layers) = l.layers[1]  BY <1>0, <1>4, LayersLeft
  <2>2. ~Two(l, "render", "direct")  BY <1>4 DEF Two
  <2>3. CASE code \in SkipErrors
    <3>1. r = [next EXCEPT !.out = "skipped"]  BY <2>3 DEF Refused, AfterLayer
    <3>2. r.out = "skipped" /\ r.asked = l.asked  BY <3>1 DEF FetchShape
    <3> QED  BY <2>3, <3>2 DEF Fit, Honest
  <2>4. CASE code \notin SkipErrors /\ One(l, "proxy")
    <3>1. TriesOf(Head(l.layers)) = 1  BY <2>1, <2>4 DEF One, TriesOf
    <3>2. r = [next EXCEPT !.out = "failed"]
      BY <2>1, <2>4, <3>1 DEF Refused, AfterLayer, Nothing, FetchShape
    <3>3. r.out = "failed" /\ r.asked = l.asked  BY <3>2 DEF FetchShape
    <3> QED  BY <2>4, <3>3 DEF Fit, Honest
  <2>5. CASE code \notin SkipErrors /\ ~One(l, "proxy")
    <3>1. r = again \/ r = [next EXCEPT !.out = "failed"]
      BY <2>1, <2>5 DEF Refused, AfterLayer, Nothing
    <3>2. CASE r = again  BY <1>1, <2>5, <3>2 DEF Fit, Before, One, Two
    <3>3. CASE r = [next EXCEPT !.out = "failed"]
      <4>1. r.out = "failed" /\ r.asked = l.asked  BY <3>3 DEF FetchShape
      <4> QED  BY <2>2, <2>5, <4>1 DEF Fit, Honest
    <3> QED  BY <3>1, <3>2, <3>3
  <2> QED  BY <2>3, <2>4, <2>5
<1> QED  BY <1>0, <1>3, <1>4

\* A step of fetch f puts it at that place with those locals, and no other anywhere else.
Moves(f, step, l) ==
    /\ FetchTypes'
    /\ loc'[f] = l /\ pc'[f] = step
    /\ \A g \in Fetcher \ {f} : loc'[g] = loc[g] /\ pc'[g] = pc[g]

LEMMA MovesIs ==
    ASSUME FetchTypes, NEW f \in Fetcher, NEW step, NEW l, FetchShape(l),
           loc' = [loc EXCEPT ![f] = l], pc' = [pc EXCEPT ![f] = step]
    PROVE  Moves(f, step, l)
<1>1. loc'[f] = l /\ pc'[f] = step /\ \A g \in Fetcher \ {f} : loc'[g] = loc[g] /\ pc'[g] = pc[g]
  BY DEF FetchTypes
<1>2. loc' = [g \in Fetcher |-> loc'[g]] /\ pc' = [g \in Fetcher |-> pc'[g]]  BY DEF FetchTypes
<1>3. \A g \in Fetcher : FetchShape(loc'[g])  BY <1>1 DEF FetchTypes
<1> QED  BY <1>1, <1>2, <1>3 DEF Moves, FetchTypes, FetchShape

LEMMA EndedSame ==
    ASSUME NEW l, FetchShape(l)
    PROVE  Same(l, Ended(l)) /\ Ended(l).asked = l.asked /\ Ended(l).out = l.out
<1> DEFINE next == [l EXCEPT !.layers = <<>>, !.attempt = 1]
<1>1. Same(l, next) /\ next.asked = l.asked /\ next.out = l.out  BY NextSame
<1>2. Ended(l) = [next EXCEPT !.deadline = FALSE]  BY DEF Ended, FetchShape
<1> HIDE DEF next
<1>3. Same(next, [next EXCEPT !.deadline = FALSE]) /\ [next EXCEPT !.deadline = FALSE].asked = next.asked
      /\ [next EXCEPT !.deadline = FALSE].out = next.out
  BY <1>1 DEF Same, FetchShape
<1> QED  BY <1>1, <1>2, <1>3 DEF Same

\* A fetch goes on with what is left, or ends.
LEMMA GotoMoves ==
    ASSUME FetchTypes, NEW f \in Fetcher, NEW r, FetchShape(r), Goto(f, r)
    PROVE  \E step, l : Moves(f, step, l) /\ Same(r, l) /\ (r.kind = "listing" /\ Fit(r) => ListingAt(step, l))
<1>1. CASE r.out # "none"
  <2>1. Moves(f, "done", Ended(r))
    BY <1>1, MovesIs, EndedSame DEF Goto, Same
  <2>2. Fit(r) => ListingAt("done", Ended(r))  BY <1>1, EndedSame DEF Fit, Honest, ListingAt
  <2> QED  BY <2>1, <2>2, EndedSame
<1>2. CASE r.out = "none"
  <2>1. Moves(f, PcOf(r.layers), r)  BY <1>2, MovesIs DEF Goto
  <2>2. Same(r, r)  BY DEF Same
  <2>3. ASSUME Fit(r) PROVE ListingAt(PcOf(r.layers), r)
    <3>1. Before(r)  BY <1>2, <2>3 DEF Fit
    <3>2. r.layers \in Seq(Layer) /\ Len(r.layers) # 0  BY <3>1 DEF Before, One, Two
    <3>3. r.layers # <<>> /\ Head(r.layers) = r.layers[1]  BY <3>2, LayersLeft
    <3>4. Two(r, "direct", "render") => PcOf(r.layers) = "direct"  BY <3>3 DEF PcOf, Two
    <3>5. Two(r, "render", "direct") => PcOf(r.layers) = "queue"  BY <3>3 DEF PcOf, Two
    <3>6. One(r, "direct") => PcOf(r.layers) = "direct"  BY <3>3 DEF PcOf, One
    <3>7. One(r, "render") => PcOf(r.layers) = "queue"  BY <3>3 DEF PcOf, One
    <3>8. One(r, "proxy") => PcOf(r.layers) = "budget"  BY <3>3 DEF PcOf, One
    <3>9. One(r, "proxy") => ~One(r, "render") /\ ~One(r, "direct")  BY DEF One
    <3> QED  BY <1>2, <3>1, <3>4, <3>5, <3>6, <3>7, <3>8, <3>9 DEF Before, ListingAt
  <2> QED  BY <2>1, <2>2, <2>3
<1> QED  BY <1>1, <1>2

\* A step of a listing keeps its locals in agreement with where it is.
Fetches(f) ==
    /\ FetchTypes'
    /\ \A g \in Fetcher \ {f} : loc'[g] = loc[g] /\ pc'[g] = pc[g]
    /\ loc'[f].kind = loc[f].kind /\ loc'[f].before = loc[f].before
    /\ loc[f].kind = "listing" => ListingAt(pc'[f], loc'[f])

\* ... and so does a step that goes on with r.
LEMMA GotoFetches ==
    ASSUME FetchTypes, NEW f \in Fetcher, NEW r, Same(loc[f], r), Goto(f, r), loc[f].kind = "listing" => Fit(r)
    PROVE  Fetches(f) /\ loc'[f].page = loc[f].page
<1>1. PICK step, l : Moves(f, step, l) /\ Same(r, l) /\ (r.kind = "listing" /\ Fit(r) => ListingAt(step, l))
  BY GotoMoves DEF Same
<1> QED  BY <1>1 DEF Moves, Fetches, Same

LEMMA AnswersFetch ==
    ASSUME FetchTypes, NEW f \in Fetcher, NEW l \in Answers(loc[f]) \cup {Refused(Asked(loc[f]), c) : c \in BrowserErrors}, Goto(f, l),
           loc[f].kind = "listing" => loc[f].out = "none" /\ Before(loc[f])
    PROVE  Fetches(f) /\ loc'[f].page = loc[f].page
<1> DEFINE m == Asked(loc[f])
<1>1. Same(loc[f], m) /\ m.asked /\ m.out = loc[f].out /\ m.layers = loc[f].layers
  BY AskedSame DEF FetchTypes
<1>2. FetchShape(m)  BY <1>1 DEF Same
<1>3. (\E xml \in BOOLEAN : l = Answered(m, xml)) \/ \E c \in Codes : l = Refused(m, c)
  <2>1. CASE l \in {Answered(m, xml) : xml \in BOOLEAN}  BY <2>1
  <2>2. CASE l \in {Refused(m, c) : c \in Replies}
    <3>1. PICK c \in Replies : l = Refused(m, c)  BY <2>2
    <3>2. c \in Codes  BY FetchAssumption
    <3> QED  BY <3>1, <3>2
  <2>3. CASE l \in {Refused(m, c) : c \in BrowserErrors}
    <3>1. PICK c \in BrowserErrors : l = Refused(m, c)  BY <2>3
    <3>2. c \in Codes  BY DEF BrowserErrors, Codes, NonRetriable
    <3> QED  BY <3>1, <3>2
  <2> QED  BY <2>1, <2>2, <2>3 DEF Answers
<1> HIDE DEF m
<1>4. CASE \E xml \in BOOLEAN : l = Answered(m, xml)
  <2>1. PICK xml \in BOOLEAN : l = Answered(m, xml)  BY <1>4
  <2>2. Same(loc[f], l) /\ (loc[f].kind = "listing" => Fit(l))
    BY <1>1, <1>2, <2>1, AnsweredSame DEF Same, Fit, Honest
  <2> QED  BY <2>2, GotoFetches
<1>5. CASE \E c \in Codes : l = Refused(m, c)
  <2>1. PICK c \in Codes : l = Refused(m, c)  BY <1>5
  <2>2. Same(loc[f], l)  BY <1>1, <1>2, <2>1, RefusedSame DEF Same
  <2>3. ASSUME loc[f].kind = "listing" PROVE Fit(l)
    <3>1. c \notin SkipErrors  BY DEF Codes, NonRetriable, SkipErrors
    <3>2. m.kind = "listing" /\ m.out = "none"  BY <1>1, <2>3 DEF Same
    <3>3. Before(m) \/ One(m, "proxy")  BY <1>1, <2>3 DEF Before, One, Two
    <3> QED  BY <1>1, <1>2, <2>1, <3>1, <3>2, <3>3, RefusedFits
  <2> QED  BY <2>2, <2>3, GotoFetches
<1> QED  BY <1>3, <1>4, <1>5

\* What a miss leaves a listing with.
LEMMA MissFetches ==
    ASSUME FetchInv, NEW f \in Fetcher, pc[f] \in {"cache_get", "cache_del"}, Miss(f)
    PROVE  Fetches(f) /\ loc'[f].page = loc[f].page
<1> DEFINE end == IF loc[f].layers = <<>> THEN "failed" ELSE "none"
           r == [loc[f] EXCEPT !.out = end]
<1>1. Same(loc[f], r) /\ r.asked = loc[f].asked /\ r.out = end /\ r.layers = loc[f].layers
  <2> HIDE DEF end
  <2> QED  BY EndSame DEF FetchInv, FetchTypes, FetchShape
<1>2. Goto(f, r)  BY DEF Miss
<1>3. ASSUME loc[f].kind = "listing" PROVE Fit(r)
  <2>1. ListingAt(pc[f], loc[f])  BY <1>3 DEF FetchInv
  <2>2. ~loc[f].asked /\ (Before(loc[f]) \/ (~configured /\ loc[f].layers = <<>>))  BY <2>1 DEF ListingAt
  <2>3. CASE loc[f].layers = <<>>
    <3>1. ~ Before(loc[f])
      <4>1. Len(<<>>) = 0 /\ 0 # 1 /\ 0 # 2  OBVIOUS
      <4> QED  BY <2>3, <4>1, ZenonT(20) DEF Before, One, Two
    <3> QED  BY <1>1, <2>2, <2>3, <3>1 DEF Fit, Honest
  <2>4. CASE loc[f].layers # <<>>
    <3> HIDE DEF r
    <3> QED  BY <1>1, <2>2, <2>4 DEF Fit, Before, One, Two
  <2> QED  BY <2>3, <2>4
<1> HIDE DEF r
<1> QED  BY <1>1, <1>2, <1>3, GotoFetches DEF FetchInv

\* A layer that gave up without having been asked: a browser that cannot be launched, a proxy
\* without credentials, a guard, a wait that is over.
LEMMA RefusalFetches ==
    ASSUME FetchInv, NEW f \in Fetcher, NEW code, NEW r, Goto(f, r),
           Same(loc[f], r) /\ r.out = Refused(loc[f], code).out
           /\ r.layers = Refused(loc[f], code).layers /\ r.asked = loc[f].asked,
           \/ pc[f] = "queue" /\ code \in BrowserErrors
           \/ pc[f] = "budget" /\ ~configured /\ code = "fetch_failed"
           \/ pc[f] \in {"costs", "token", "again", "fallback"} /\ code \in SkipErrors
    PROVE  Fetches(f) /\ loc'[f].page = loc[f].page
<1>1. FetchShape(loc[f])  BY DEF FetchInv, FetchTypes
<1>2. Refused(loc[f], code).asked = loc[f].asked  BY <1>1, RefusedSame
<1>3. ASSUME loc[f].kind = "listing" PROVE Fit(r)
  <2>1. ListingAt(pc[f], loc[f])  BY <1>3 DEF FetchInv
  <2>2. loc[f].out = "none"  BY <2>1 DEF ListingAt
  <2>3. CASE pc[f] = "queue" /\ code \in BrowserErrors
    <3>1. code \notin SkipErrors  BY <2>3 DEF BrowserErrors, SkipErrors
    <3>2. Before(loc[f]) /\ (One(loc[f], "render") \/ Two(loc[f], "render", "direct"))
      BY <2>1, <2>3 DEF ListingAt
    <3>3. ~ One(loc[f], "proxy") /\ (loc[f].asked \/ Two(loc[f], "render", "direct"))
      BY <3>2 DEF Before, One, Two
    <3>4. Fit(Refused(loc[f], code))  BY <1>1, <1>3, <2>2, <3>1, <3>2, <3>3, RefusedFits
    <3> QED  BY <1>2, <3>4 DEF Fit, Honest, Before, One, Two
  <2>4. CASE pc[f] # "queue"
    <3>1. One(loc[f], "proxy") /\ ~loc[f].asked  BY <2>1, <2>4 DEF ListingAt
    <3>2. Fit(Refused(loc[f], code))
      BY <1>1, <1>3, <2>2, <2>4, <3>1, RefusedFits DEF SkipErrors
    <3> QED  BY <1>2, <3>2 DEF Fit, Honest, Before, One, Two
  <2> QED  BY <2>3, <2>4
<1> QED  BY <1>3, GotoFetches DEF FetchInv

\* A step on the way through the paid layer, or into the browser.
LEMMA JumpFetches ==
    ASSUME FetchInv, NEW f \in Fetcher, NEW step, NEW l,
           loc' = [loc EXCEPT ![f] = l], pc' = [pc EXCEPT ![f] = step], UNCHANGED configured,
           Same(loc[f], l) /\ l.asked = loc[f].asked /\ l.out = loc[f].out /\ l.layers = loc[f].layers,
           \/ pc[f] \in {"budget", "costs", "token", "again", "fallback", "count", "cost"}
              /\ step \in {"costs", "token", "again", "fallback", "count", "cost", "post"}
           \/ pc[f] = "queue" /\ step = "render"
    PROVE  Fetches(f) /\ loc'[f].page = loc[f].page
<1>1. Moves(f, step, l)  BY MovesIs DEF FetchInv, Same
<1>2. ASSUME loc[f].kind = "listing" PROVE ListingAt(step, l)
  <2>1. ListingAt(pc[f], loc[f])  BY <1>2 DEF FetchInv
  <2>2. CASE pc[f] = "queue"  BY <2>1, <2>2 DEF ListingAt, Before, One, Two
  <2>3. CASE pc[f] # "queue"  BY <2>1, <2>3 DEF ListingAt, One
  <2> QED  BY <2>2, <2>3
<1> QED  BY <1>1, <1>2 DEF Moves, Fetches, Same

LEMMA TodaySame ==
    ASSUME NEW l, FetchShape(l), NEW date
    PROVE  LET m == [l EXCEPT !.today = date]
           IN  Same(l, m) /\ m.asked = l.asked /\ m.out = l.out /\ m.layers = l.layers
BY DEF FetchShape, Same

\* A step of a fetch: it keeps the page it holds, but where it looks for one.
LEMMA StepFetches ==
    ASSUME FetchInv, NEW f \in Fetcher, Step(f)
    PROVE  Fetches(f) /\ (loc'[f].page = loc[f].page \/ (CacheGet(f) /\ loc'[f].page = cache))
<1>0. FetchTypes /\ FetchShape(loc[f]) /\ UNCHANGED configured
  BY DEF FetchInv, FetchTypes, Step, environment, CacheGet, CacheDelete, Direct, RenderBegin, RenderEnd, ProxyOff,
         BudgetCounts, BudgetCosts, Late, Token, LocalSlot, RecordCount, RecordCost, Post
<1>s. Same(loc[f], loc[f])  BY <1>0 DEF Same
<1>u. loc = [loc EXCEPT ![f] = loc[f]]  BY <1>0 DEF FetchTypes
<1>1. CASE CacheGet(f)
  <2>1. CASE Miss(f)  BY <1>1, <2>1, MissFetches DEF CacheGet
  <2>2. CASE ~Miss(f)
    <3>1. loc' = [loc EXCEPT ![f].page = cache] /\ pc' = [pc EXCEPT ![f] = "cache_del"] /\ pc[f] = "cache_get"
      BY <1>1, <2>2 DEF CacheGet
    <3> DEFINE l == [loc[f] EXCEPT !.page = cache]
    <3>2. loc' = [loc EXCEPT ![f] = l]  BY <1>0, <3>1 DEF FetchTypes
    <3>3. FetchShape(l) /\ l.kind = loc[f].kind /\ l.before = loc[f].before /\ l.page = cache
          /\ l.asked = loc[f].asked /\ l.out = loc[f].out /\ l.layers = loc[f].layers
      BY <1>0 DEF FetchShape
    <3> HIDE DEF l
    <3>4. Moves(f, "cache_del", l)  BY <1>0, <3>1, <3>2, <3>3, MovesIs
    <3>5. ASSUME loc[f].kind = "listing" PROVE ListingAt("cache_del", l)
      <4>1. ListingAt("cache_get", loc[f])  BY <3>1, <3>5 DEF FetchInv
      <4> QED  BY <1>0, <3>3, <4>1 DEF ListingAt, Before, One, Two
    <3> QED  BY <1>1, <3>3, <3>4, <3>5 DEF Moves, Fetches
  <2> QED  BY <2>1, <2>2
<1>2. CASE CacheDelete(f)
  <2>1. CASE Miss(f)  BY <1>2, <2>1, MissFetches DEF CacheDelete
  <2>2. CASE Goto(f, [loc[f] EXCEPT !.out = "html"])
    <3>1. Same(loc[f], [loc[f] EXCEPT !.out = "html"]) /\ [loc[f] EXCEPT !.out = "html"].out = "html"
      BY <1>0, EndSame
    <3> QED  BY <1>0, <2>2, <3>1, GotoFetches DEF Fit, Honest
  <2> QED  BY <1>2, <2>1, <2>2 DEF CacheDelete
<1>3. CASE Direct(f)
  <2>1. PICK l \in Answers(loc[f]) : Goto(f, l)  BY <1>3 DEF Direct
  <2>2. loc[f].kind = "listing" => loc[f].out = "none" /\ Before(loc[f])
    BY <1>3 DEF Direct, FetchInv, ListingAt
  <2> QED  BY <1>0, <2>1, <2>2, AnswersFetch
<1>4. CASE RenderBegin(f)
  <2>1. CASE pc' = [pc EXCEPT ![f] = "render"] /\ UNCHANGED loc
    BY <1>0, <1>s, <1>u, <1>4, <2>1, JumpFetches DEF RenderBegin
  <2>2. CASE \E code \in BrowserErrors : Goto(f, Refused(loc[f], code))
    <3>1. PICK code \in BrowserErrors : Goto(f, Refused(loc[f], code))  BY <2>2
    <3> QED  BY <1>0, <1>4, <3>1, RefusedSame, RefusalFetches DEF RenderBegin
  <2> QED  BY <1>4, <2>1, <2>2 DEF RenderBegin
<1>5. CASE RenderEnd(f)
  <2>1. \E l \in Answers(loc[f]) \cup {Refused(Asked(loc[f]), c) : c \in BrowserErrors} : Goto(f, l)
    BY <1>5 DEF RenderEnd
  <2>2. loc[f].kind = "listing" => loc[f].out = "none" /\ Before(loc[f])
    BY <1>5 DEF RenderEnd, FetchInv, ListingAt
  <2> QED  BY <1>0, <2>1, <2>2, AnswersFetch
<1>6. CASE ProxyOff(f)
  BY <1>0, <1>6, RefusedSame, RefusalFetches DEF ProxyOff
<1>7. CASE BudgetCounts(f)
  <2>1. CASE loc' = [loc EXCEPT ![f].read = counts, ![f].today = day] /\ pc' = [pc EXCEPT ![f] = "costs"]
    <3> DEFINE l == [loc[f] EXCEPT !.read = counts, !.today = day]
    <3>1. loc' = [loc EXCEPT ![f] = l]  BY <1>0, <2>1 DEF FetchTypes
    <3>2. Same(loc[f], l) /\ l.asked = loc[f].asked /\ l.out = loc[f].out /\ l.layers = loc[f].layers
      BY <1>0 DEF FetchShape, Same
    <3> HIDE DEF l
    <3> QED  BY <1>0, <1>7, <2>1, <3>1, <3>2, JumpFetches DEF BudgetCounts
  <2>2. CASE Jump(f, "token")
    BY <1>0, <1>s, <1>u, <1>7, <2>2, JumpFetches DEF BudgetCounts, Jump
  <2> QED  BY <1>7, <2>1, <2>2 DEF BudgetCounts
<1>8. CASE BudgetCosts(f)
  <2> DEFINE r == [Refused(loc[f], "budget") EXCEPT !.read = NoCounters, !.today = 0]
  <2>1. CASE Goto(f, r)
    <3>1. Same(loc[f], Refused(loc[f], "budget")) /\ Refused(loc[f], "budget").asked = loc[f].asked
      BY <1>0, RefusedSame
    <3>2. Same(Refused(loc[f], "budget"), r) /\ r.asked = Refused(loc[f], "budget").asked
          /\ r.out = Refused(loc[f], "budget").out /\ r.layers = Refused(loc[f], "budget").layers
      <4>1. FetchShape(Refused(loc[f], "budget"))  BY <3>1 DEF Same
      <4> QED  BY <4>1 DEF FetchShape, Same
    <3>3. Same(loc[f], r)  BY <3>1, <3>2 DEF Same
    <3>4. "budget" \in SkipErrors /\ pc[f] = "costs"  BY <1>8 DEF SkipErrors, BudgetCosts
    <3> HIDE DEF r
    <3> QED  BY <2>1, <3>1, <3>2, <3>3, <3>4, RefusalFetches
  <2>2. CASE pc' = [pc EXCEPT ![f] = "token"] /\ loc' = [loc EXCEPT ![f].read = NoCounters, ![f].today = 0]
    <3> DEFINE l == [loc[f] EXCEPT !.read = NoCounters, !.today = 0]
    <3>1. loc' = [loc EXCEPT ![f] = l]  BY <1>0, <2>2 DEF FetchTypes
    <3>2. Same(loc[f], l) /\ l.asked = loc[f].asked /\ l.out = loc[f].out /\ l.layers = loc[f].layers
      BY <1>0 DEF FetchShape, Same
    <3> HIDE DEF l
    <3> QED  BY <1>0, <1>8, <2>2, <3>1, <3>2, JumpFetches DEF BudgetCosts
  <2> QED  BY <1>8, <2>1, <2>2 DEF BudgetCosts
<1>9. CASE Late(f)
  BY <1>0, <1>9, RefusedSame, RefusalFetches DEF Late, SkipErrors
<1>10. CASE Token(f)
  <2>1. CASE \E step \in {"count", "again", "fallback"} : Jump(f, step)
    <3>1. PICK step \in {"count", "again", "fallback"} : Jump(f, step)  BY <2>1
    <3> QED  BY <1>0, <1>s, <1>u, <1>10, <3>1, JumpFetches DEF Token, Jump
  <2>2. CASE Goto(f, Refused(loc[f], "deadline"))
    BY <1>0, <1>10, <2>2, RefusedSame, RefusalFetches DEF Token, SkipErrors
  <2> QED  BY <1>10, <2>1, <2>2 DEF Token
<1>11. CASE LocalSlot(f)
  BY <1>0, <1>s, <1>u, <1>11, JumpFetches DEF LocalSlot, Jump
<1>12. CASE RecordCount(f)
  <2>1. CASE loc' = [loc EXCEPT ![f].today = day] /\ pc' = [pc EXCEPT ![f] = "cost"]
    <3>1. loc' = [loc EXCEPT ![f] = [loc[f] EXCEPT !.today = day]]  BY <1>0, <2>1 DEF FetchTypes
    <3> QED  BY <1>0, <1>12, <2>1, <3>1, TodaySame, JumpFetches DEF RecordCount
  <2>2. CASE Jump(f, "post")
    BY <1>0, <1>s, <1>u, <1>12, <2>2, JumpFetches DEF RecordCount, Jump
  <2> QED  BY <1>12, <2>1, <2>2 DEF RecordCount
<1>13. CASE RecordCost(f)
  <2>1. loc' = [loc EXCEPT ![f] = [loc[f] EXCEPT !.today = 0]] /\ pc' = [pc EXCEPT ![f] = "post"] /\ pc[f] = "cost"
    BY <1>0, <1>13 DEF FetchTypes, RecordCost
  <2> QED  BY <1>0, <2>1, TodaySame, JumpFetches
<1>14. CASE Post(f)
  <2>1. PICK l \in Answers(loc[f]) : Goto(f, l)  BY <1>14 DEF Post
  <2>2. loc[f].kind = "listing" => loc[f].out = "none" /\ Before(loc[f])
    BY <1>14 DEF Post, FetchInv, ListingAt, Before
  <2> QED  BY <1>0, <2>1, <2>2, AnswersFetch
<1> QED
  BY <1>1, <1>2, <1>3, <1>4, <1>5, <1>6, <1>7, <1>8, <1>9, <1>10, <1>11, <1>12, <1>13, <1>14 DEF Step

\* The layers a shop's access mode gives.
LEMMA LayersOf ==
    ASSUME NEW requiresJs \in BOOLEAN, NEW noJs \in BOOLEAN, NEW l, l.layers = LayerOrder(requiresJs, noJs), ~l.asked
    PROVE  Before(l) \/ (~configured /\ l.layers = <<>>)
<1> DEFINE direct == [backend |-> "direct", js |-> FALSE]
           render == [backend |-> "render", js |-> TRUE]
           proxy(js) == [backend |-> "proxy", js |-> js]
<1>1. direct \in Layer /\ direct.backend = "direct" /\ render \in Layer /\ render.backend = "render"
  BY DEF Layer
<1>2. \A js \in BOOLEAN : proxy(js) \in Layer /\ proxy(js).backend = "proxy"  BY DEF Layer
<1>3. \/ l.layers = <<direct, render>> \/ l.layers = <<render, direct>>
      \/ \E js \in BOOLEAN : l.layers = <<proxy(js)>>
      \/ ~configured /\ l.layers = <<>>
  <2>1. CASE mode \in ProxyModes /\ configured
    <3>1. l.layers = <<proxy(mode = "proxy_render" /\ ~noJs)>>  BY <2>1 DEF LayerOrder
    <3>2. (mode = "proxy_render" /\ ~noJs) \in BOOLEAN  OBVIOUS
    <3> HIDE DEF proxy
    <3> QED  BY <3>1, <3>2
  <2>2. CASE mode \in ProxyModes /\ ~configured  BY <2>2 DEF LayerOrder
  <2>3. CASE mode \notin ProxyModes /\ (mode = "render" \/ requiresJs)  BY <2>3 DEF LayerOrder
  <2>4. CASE mode \notin ProxyModes /\ ~(mode = "render" \/ requiresJs)  BY <2>4 DEF LayerOrder
  <2> QED  BY <2>1, <2>2, <2>3, <2>4
<1> HIDE DEF direct, render, proxy
<1>4. CASE l.layers = <<direct, render>>  BY <1>1, <1>4 DEF Before, Two
<1>5. CASE l.layers = <<render, direct>>  BY <1>1, <1>5 DEF Before, Two
<1>6. CASE \E js \in BOOLEAN : l.layers = <<proxy(js)>>
  <2>1. PICK js \in BOOLEAN : l.layers = <<proxy(js)>>  BY <1>6
  <2>2. proxy(js) \in Layer /\ proxy(js).backend = "proxy"  BY <1>2
  <2> QED  BY <2>1, <2>2 DEF Before, One
<1> QED  BY <1>3, <1>4, <1>5, <1>6

\* A call begins with locals of its own.
LEMMA CallFetches ==
    ASSUME FetchInv, NEW f \in Fetcher, NEW kind \in AllKinds, Call(f, kind)
    PROVE  /\ FetchTypes'
           /\ \A g \in Fetcher \ {f} : loc'[g] = loc[g] /\ pc'[g] = pc[g]
           /\ loc'[f].page = 0 /\ loc'[f].before = consumed
           /\ loc'[f].kind = "listing" => ListingAt(pc'[f], loc'[f])
<1>1. PICK noJs \in BOOLEAN, requiresJs \in BOOLEAN, deadline \in BOOLEAN :
        LET layers == IF kind \in {"static", "sitemap"} THEN StaticLayers ELSE LayerOrder(requiresJs, noJs)
            l == [NoLocals EXCEPT !.kind = kind, !.layers = layers, !.before = consumed, !.deadline = deadline,
                                  !.out = IF layers = <<>> THEN "failed" ELSE "none"]
        IN  /\ kind # "listing" => ~deadline /\ ~noJs
            /\ deadline => ~noJs
            /\ kind \in {"static", "sitemap"} => ~requiresJs
            /\ IF kind = "listing"
               THEN loc' = [loc EXCEPT ![f] = [l EXCEPT !.out = "none"]]
                    /\ pc' = [pc EXCEPT ![f] = "cache_get"]
               ELSE Goto(f, l)
  BY ZenonT(60) DEF Call
<1> DEFINE layers == IF kind \in {"static", "sitemap"} THEN StaticLayers ELSE LayerOrder(requiresJs, noJs)
           out == IF layers = <<>> THEN "failed" ELSE "none"
           l == [NoLocals EXCEPT !.kind = kind, !.layers = layers, !.before = consumed, !.deadline = deadline, !.out = out]
           m == [l EXCEPT !.out = "none"]
<1>2. FetchShape(l) /\ l.kind = kind /\ l.page = 0 /\ l.before = consumed /\ ~l.asked /\ l.layers = layers
  <2> HIDE DEF layers, out
  <2>1. l \in [kind : {kind}, layers : {layers}, attempt : {1}, fallback : {FALSE}, deadline : {deadline},
              page : {0}, read : {NoCounters}, today : {0}, out : {out}, asked : {FALSE}, before : {consumed}]
    <3> HIDE DEF NoCounters
    <3> QED  BY DEF NoLocals
  <2> HIDE DEF l
  <2>2. l.kind = kind /\ l.page = 0 /\ l.before = consumed /\ l.asked = FALSE /\ l.layers = layers /\ l.attempt = 1
    BY <2>1
  <2>3. l \in [kind : {l.kind}, layers : {l.layers}, attempt : {l.attempt}, fallback : {l.fallback},
               deadline : {l.deadline}, page : {l.page}, read : {l.read}, today : {l.today}, out : {l.out},
               asked : {l.asked}, before : {l.before}]
    BY <2>1
  <2>4. l.attempt \in Nat \ {0}
    <3>1. l.attempt = 1  BY <2>2
    <3> QED  BY <3>1
  <2>5. l.asked \in BOOLEAN
    <3>1. l.asked = FALSE  BY <2>2
    <3> QED  BY <3>1, ZenonT(20)
  <2> QED  BY <2>2, <2>3, <2>4, <2>5 DEF FetchShape
<1>3. (kind = "listing" => layers = LayerOrder(requiresJs, noJs))
      /\ IF kind = "listing" THEN loc' = [loc EXCEPT ![f] = m] /\ pc' = [pc EXCEPT ![f] = "cache_get"] ELSE Goto(f, l)
  BY <1>1
<1>4. Same(l, m) /\ m.asked = l.asked /\ m.out = "none" /\ m.layers = l.layers
  <2> HIDE DEF l
  <2> QED  BY <1>2 DEF FetchShape, Same
<1> HIDE DEF l, m
<1>5. CASE kind = "listing"
  <2>1. Moves(f, "cache_get", m)  BY <1>3, <1>4, <1>5, MovesIs DEF FetchInv, Same
  <2>2. ListingAt("cache_get", m)
    <3>1. Before(m) \/ (~configured /\ m.layers = <<>>)  BY <1>2, <1>3, <1>4, <1>5, LayersOf
    <3> QED  BY <1>2, <1>4, <3>1 DEF ListingAt
  <2> QED  BY <1>2, <1>4, <2>1, <2>2 DEF Moves, Same
<1>6. CASE kind # "listing"
  <2>1. PICK step, r : Moves(f, step, r) /\ Same(l, r)  BY <1>2, <1>3, <1>6, GotoMoves DEF FetchInv
  <2> QED  BY <1>2, <1>6, <2>1 DEF Moves, Same
<1> QED  BY <1>5, <1>6

\* What a step of a fetch does to the cache.
LEMMA StepPages ==
    ASSUME FetchInv, NEW f \in Fetcher, Step(f)
    PROVE  /\ UNCHANGED <<configured, puts>>
           /\ \/ UNCHANGED <<cache, consumed>>
              \/ cache' = 0 /\ consumed' = consumed \cup {loc[f].page}
           /\ CacheGet(f) => pc[f] = "cache_get"
BY DEF Step, environment, CacheGet, CacheDelete, Direct, RenderBegin, RenderEnd, ProxyOff,
         BudgetCounts, BudgetCosts, Late, Token, LocalSlot, RecordCount, RecordCost, Post

\* The credentials of the proxy stay, and so where a listing is says the same of it.
LEMMA ListingAtNext ==
    ASSUME NEW f, UNCHANGED configured
    PROVE  ListingAt(pc'[f], loc'[f]) <=> ListingAt(pc[f], loc[f])'
BY DEF ListingAt, Honest

LEMMA PagesStep ==
    ASSUME PagesInv, NEW f \in Fetcher, UNCHANGED puts,
           UNCHANGED <<cache, consumed>> \/ (cache' = 0 /\ consumed' = consumed \cup {loc[f].page}),
           \A g \in Fetcher \ {f} : loc'[g] = loc[g],
           loc'[f].before = loc[f].before, loc'[f].page \in {loc[f].page, cache}
    PROVE  PagesInv'
<1>1. puts' \in Nat /\ consumed' \subseteq 0..puts' /\ cache' \in 0..puts' /\ (cache' # 0 => cache' \notin consumed')
      /\ consumed \subseteq consumed'
  BY DEF PagesInv
<1>2. \A g \in Fetcher : loc'[g].before = loc[g].before /\ loc'[g].page \in {loc[g].page, cache}  OBVIOUS
<1>3. ASSUME NEW g \in Fetcher
      PROVE  loc'[g].before \subseteq consumed' /\ loc'[g].page \in 0..puts'
             /\ (loc'[g].page # 0 => loc'[g].page \notin loc'[g].before)
  BY <1>1, <1>2 DEF PagesInv
<1> QED  BY <1>1, <1>3 DEF PagesInv

LEMMA FetchStep ==
    ASSUME FetchInv, Next
    PROVE  FetchInv'
<1>1. CASE \E f \in Fetcher : Step(f)
  <2>1. PICK f \in Fetcher : Step(f)  BY <1>1
  <2>2. Fetches(f) /\ (loc'[f].page = loc[f].page \/ (CacheGet(f) /\ loc'[f].page = cache))  BY <2>1, StepFetches
  <2>3. /\ UNCHANGED <<configured, puts>>
        /\ UNCHANGED <<cache, consumed>> \/ (cache' = 0 /\ consumed' = consumed \cup {loc[f].page})
    BY <2>1, StepPages
  <2>4. ASSUME NEW g \in Fetcher, loc'[g].kind = "listing" PROVE ListingAt(pc[g], loc[g])'
    <3>1. CASE g = f  BY <2>2, <2>3, <2>4, <3>1, ListingAtNext DEF Fetches
    <3>2. CASE g # f
      <4>1. loc'[g] = loc[g] /\ pc'[g] = pc[g]  BY <2>2, <3>2 DEF Fetches
      <4> QED  BY <2>3, <2>4, <4>1, ListingAtNext DEF FetchInv
    <3> QED  BY <3>1, <3>2
  <2>5. PagesInv'
    BY <2>2, <2>3, PagesStep DEF Fetches, FetchInv
  <2> QED  BY <2>2, <2>4, <2>5 DEF FetchInv, Fetches
<1>2. CASE \E f \in Fetcher, kind \in AllKinds : Call(f, kind)
  <2>1. PICK f \in Fetcher, kind \in AllKinds : Call(f, kind)  BY <1>2
  <2>2. UNCHANGED <<configured, puts, cache, consumed>>  BY <2>1 DEF Call, environment
  <2>3. /\ FetchTypes'
        /\ \A g \in Fetcher \ {f} : loc'[g] = loc[g] /\ pc'[g] = pc[g]
        /\ loc'[f].page = 0 /\ loc'[f].before = consumed
        /\ loc'[f].kind = "listing" => ListingAt(pc'[f], loc'[f])
    BY <2>1, CallFetches
  <2>4. ASSUME NEW g \in Fetcher, loc'[g].kind = "listing" PROVE ListingAt(pc[g], loc[g])'
    <3>1. CASE g = f  BY <2>2, <2>3, <2>4, <3>1, ListingAtNext
    <3>2. CASE g # f
      <4>1. loc'[g] = loc[g] /\ pc'[g] = pc[g]  BY <2>3, <3>2
      <4> QED  BY <2>2, <2>4, <4>1, ListingAtNext DEF FetchInv
    <3> QED  BY <3>1, <3>2
  <2>5. PagesInv'
    <3>1. ASSUME NEW g \in Fetcher
          PROVE  loc'[g].before \subseteq consumed /\ loc'[g].page \in 0..puts
                 /\ (loc'[g].page # 0 => loc'[g].page \notin loc'[g].before)
      <4>1. CASE g = f  BY <2>3, <4>1 DEF FetchInv, PagesInv
      <4>2. CASE g # f  BY <2>3, <4>2 DEF FetchInv, PagesInv
      <4> QED  BY <4>1, <4>2
    <3> QED  BY <2>2, <3>1 DEF FetchInv, PagesInv
  <2> QED  BY <2>3, <2>4, <2>5 DEF FetchInv
<1>3. CASE PutPage \/ TimePasses \/ NextDay
  <2>1. UNCHANGED <<configured, loc, pc, consumed>> /\ (UNCHANGED <<puts, cache>> \/ (puts' = puts + 1 /\ cache' = puts + 1))
    BY <1>3 DEF PutPage, TimePasses, NextDay, environment
  <2>2. FetchTypes'  BY <2>1 DEF FetchInv, FetchTypes
  <2>3. ASSUME NEW g \in Fetcher, loc'[g].kind = "listing" PROVE ListingAt(pc[g], loc[g])'
    BY <2>1, <2>3, ListingAtNext DEF FetchInv
  <2>4. PagesInv'
    <3>1. PagesInv  BY DEF FetchInv
    <3>2. CASE UNCHANGED <<puts, cache>>  BY <2>1, <3>1, <3>2 DEF PagesInv
    <3>3. CASE puts' = puts + 1 /\ cache' = puts + 1  BY <2>1, <3>1, <3>3 DEF PagesInv
    <3> QED  BY <2>1, <3>2, <3>3
  <2> QED  BY <2>2, <2>3, <2>4 DEF FetchInv
<1> QED  BY <1>1, <1>2, <1>3 DEF Next

LEMMA FetchStart ==
    ASSUME Init
    PROVE  FetchInv
<1>1. loc = [f \in Fetcher |-> NoLocals] /\ pc = [f \in Fetcher |-> "idle"] /\ puts = 0 /\ cache = 0 /\ consumed = {}
  BY DEF Init
<1>2. FetchShape(NoLocals) /\ NoLocals.kind = "raw" /\ NoLocals.before = {} /\ NoLocals.page = 0
  BY DEF FetchShape, NoLocals
<1>3. FetchTypes /\ \A f \in Fetcher : loc[f] = NoLocals
  BY <1>1, <1>2 DEF FetchTypes
<1>4. PagesInv  BY <1>1, <1>2, <1>3 DEF PagesInv
<1> QED  BY <1>2, <1>3, <1>4 DEF FetchInv

LEMMA FetchSays ==
    ASSUME FetchInv
    PROVE  FailureWasAsked /\ PageServedOnce
<1>1. FailureWasAsked  BY DEF FetchInv, FailureWasAsked, ListingAt, Honest
<1>2. PageServedOnce  BY DEF FetchInv, PagesInv, PageServedOnce
<1> QED  BY <1>1, <1>2

-----------------------------------------------------------------------------
(***************************************************************************)
(* The token bucket.                                                       *)
(***************************************************************************)
\* What the bucket holds and has given is what it was born with and what time has refilled.
BucketInv ==
    /\ bucket.tokens \in Nat /\ bucket.last \in Nat /\ clock \in Nat /\ granted \in Nat
    /\ bucket.last <= clock
    /\ granted + bucket.tokens <= Capacity + bucket.last * Rate

LEMMA Spread ==
    ASSUME NEW a \in Nat, NEW b \in Nat, NEW c \in Nat, a <= b
    PROVE  a * c \in Nat /\ b * c \in Nat /\ (b - a) * c \in Nat /\ a * c + (b - a) * c = b * c
<1>1. PICK d \in Nat : d = b - a /\ b = a + d  OBVIOUS
<1>2. a * c \in Nat /\ b * c \in Nat /\ d * c \in Nat  OBVIOUS
<1>3. (a + d) * c = a * c + d * c  BY SMTT(30)
<1> QED  BY <1>1, <1>2, <1>3

LEMMA RefilledIs ==
    ASSUME NEW b, b.tokens \in Nat, b.last \in Nat, NEW now \in Nat, b.last <= now
    PROVE  Refilled(b, now) \in Nat /\ Refilled(b, now) <= b.tokens + (now - b.last) * Rate
<1>0. Rate \in Nat /\ Capacity \in Nat  BY LimiterAssumption
<1>1. ASSUME NEW x \in Int, NEW y \in Int PROVE Max({x, y}) \in {x, y} /\ Max({x, y}) >= x /\ Max({x, y}) >= y
  <2>1. \E m \in {x, y} : \A n \in {x, y} : m >= n
    <3>1. CASE x >= y  BY <3>1
    <3>2. CASE y >= x  BY <3>2
    <3> QED  BY <3>1, <3>2
  <2> QED  BY <2>1 DEF Max
<1>2. ASSUME NEW x \in Int, NEW y \in Int PROVE Min({x, y}) \in {x, y} /\ Min({x, y}) <= x /\ Min({x, y}) <= y
  <2>1. \E m \in {x, y} : \A n \in {x, y} : m <= n
    <3>1. CASE x <= y  BY <3>1
    <3>2. CASE y <= x  BY <3>2
    <3> QED  BY <3>1, <3>2
  <2> QED  BY <2>1 DEF Min
<1> DEFINE elapsed == now - b.last
<1>3. elapsed \in Nat /\ now - b.last \in Int  OBVIOUS
<1>4. Max({0, now - b.last}) = elapsed
  <2> DEFINE m == Max({0, elapsed})
  <2>1. m \in {0, elapsed} /\ m >= 0 /\ m >= elapsed  BY <1>1, <1>3
  <2> HIDE DEF m, elapsed
  <2>2. m = elapsed  BY <1>3, <2>1
  <2> QED  BY <2>2 DEF m, elapsed
<1> HIDE DEF elapsed
<1>5. elapsed * Rate \in Nat  BY <1>0, <1>3
<1> DEFINE refill == elapsed * Rate
<1>6. Refilled(b, now) = Min({Capacity, b.tokens + refill})  BY <1>4 DEF Refilled
<1> HIDE DEF refill
<1>7. refill \in Nat  BY <1>5 DEF refill
<1>8. Refilled(b, now) \in {Capacity, b.tokens + refill} /\ Refilled(b, now) <= b.tokens + refill
  <2>1. Capacity \in Int /\ b.tokens + refill \in Int  BY <1>0, <1>7
  <2> QED  BY <1>2, <1>6, <2>1
<1>9. Refilled(b, now) \in Nat  BY <1>0, <1>7, <1>8
<1> QED  BY <1>8, <1>9 DEF refill, elapsed

LEMMA BucketStep ==
    ASSUME BucketInv, Next
    PROVE  BucketInv'
<1>0. Rate \in Nat /\ Capacity \in Nat  BY LimiterAssumption
<1>1. CASE \E f \in Fetcher : Token(f)
  <2>1. PICK f \in Fetcher : Token(f)  BY <1>1
  <2>2. UNCHANGED clock /\ (UNCHANGED <<bucket, granted>>
           \/ (bucket' = Acquire(bucket, clock)
               /\ IF Granted(bucket, clock) THEN granted' = granted + 1 ELSE UNCHANGED granted))
    BY <2>1 DEF Token
  <2>3. CASE UNCHANGED <<bucket, granted>>  BY <2>2, <2>3 DEF BucketInv
  <2>4. CASE bucket' = Acquire(bucket, clock)
             /\ IF Granted(bucket, clock) THEN granted' = granted + 1 ELSE UNCHANGED granted
    <3> DEFINE full == Refilled(bucket, clock)
    <3>1. full \in Nat /\ full <= bucket.tokens + (clock - bucket.last) * Rate
      BY RefilledIs DEF BucketInv
    <3>2. Granted(bucket, clock) <=> full >= 1  BY DEF Granted
    <3>3. bucket'.last = clock /\ bucket'.tokens = full - (IF Granted(bucket, clock) THEN 1 ELSE 0)
      BY <2>4 DEF Acquire
    <3> HIDE DEF full
    <3>4. bucket'.tokens \in Nat /\ granted' \in Nat /\ granted' + bucket'.tokens = granted + full
      BY <2>4, <3>1, <3>2, <3>3 DEF BucketInv
    <3> DEFINE held == bucket.last * Rate
               holds == clock * Rate
               more == (clock - bucket.last) * Rate
    <3>5. held \in Nat /\ holds \in Nat /\ more \in Nat /\ held + more = holds  BY <1>0, Spread DEF BucketInv
    <3>6. full <= bucket.tokens + more /\ granted + bucket.tokens <= Capacity + held  BY <3>1 DEF BucketInv
    <3>7. Capacity + bucket'.last * Rate = Capacity + holds  BY <3>3
    <3> HIDE DEF held, holds, more
    <3>8. granted + full <= Capacity + holds  BY <1>0, <3>1, <3>5, <3>6 DEF BucketInv
    <3> QED  BY <2>2, <3>3, <3>4, <3>7, <3>8 DEF BucketInv
  <2> QED  BY <2>2, <2>3, <2>4
<1>2. CASE ~ \E f \in Fetcher : Token(f)
  <2>1. UNCHANGED <<bucket, granted>> /\ (UNCHANGED clock \/ clock' = clock + 1)
    <3>1. ASSUME NEW f \in Fetcher, Step(f) PROVE UNCHANGED <<bucket, granted, clock>>
      BY <1>2, <3>1 DEF Step, CacheGet, CacheDelete, Direct, RenderBegin, RenderEnd, ProxyOff, BudgetCounts,
         BudgetCosts, Late, LocalSlot, RecordCount, RecordCost, Post
    <3>2. ASSUME NEW f \in Fetcher, NEW kind \in AllKinds, Call(f, kind) PROVE UNCHANGED <<bucket, granted, clock>>
      BY <3>2 DEF Call
    <3>3. PutPage \/ TimePasses \/ NextDay => UNCHANGED <<bucket, granted>> /\ (UNCHANGED clock \/ clock' = clock + 1)
      BY DEF PutPage, TimePasses, NextDay
    <3> QED  BY <3>1, <3>2, <3>3 DEF Next
  <2> QED  BY <2>1 DEF BucketInv
<1> QED  BY <1>1, <1>2

LEMMA BucketStart ==
    ASSUME Init
    PROVE  BucketInv
<1>1. bucket.tokens = Capacity /\ bucket.last = 0 /\ clock = 0 /\ granted = 0  BY DEF Init
<1>2. 0 * Rate = 0 /\ Capacity \in Nat  BY LimiterAssumption
<1> QED  BY <1>1, <1>2 DEF BucketInv

LEMMA BucketSays ==
    ASSUME BucketInv
    PROVE  RateBounded
<1>0. Rate \in Nat /\ Capacity \in Nat  BY LimiterAssumption
<1> DEFINE held == bucket.last * Rate
           holds == clock * Rate
           more == (clock - bucket.last) * Rate
<1>1. held \in Nat /\ holds \in Nat /\ more \in Nat /\ held + more = holds  BY <1>0, Spread DEF BucketInv
<1>2. granted + bucket.tokens <= Capacity + held  BY DEF BucketInv
<1> HIDE DEF held, more
<1>3. granted <= Capacity + holds  BY <1>0, <1>1, <1>2 DEF BucketInv
<1> QED  BY <1>3 DEF RateBounded

LEMMA BucketStays == ASSUME BucketInv, [Next]_vars PROVE BucketInv'
<1>1. CASE Next  BY <1>1, BucketStep
<1>2. CASE UNCHANGED vars  BY <1>2 DEF vars, BucketInv
<1> QED  BY <1>1, <1>2

LEMMA FetchStays == ASSUME FetchInv, [Next]_vars PROVE FetchInv'
<1>1. CASE Next  BY <1>1, FetchStep
<1>2. CASE UNCHANGED vars
  <2>1. UNCHANGED <<configured, loc, pc, puts, cache, consumed>>  BY <1>2 DEF vars, environment
  <2>2. FetchTypes' /\ PagesInv'  BY <2>1 DEF FetchInv, FetchTypes, PagesInv
  <2>3. ASSUME NEW g \in Fetcher, loc'[g].kind = "listing" PROVE ListingAt(pc[g], loc[g])'
    BY <2>1, <2>3, ListingAtNext DEF FetchInv
  <2> QED  BY <2>2, <2>3 DEF FetchInv
<1> QED  BY <1>1, <1>2

\* A listing is struck for a failure of the shop only after the shop was asked, and never for a fetch
\* that was skipped; and the page discovery left in the cache is served to one scrape: whatever the
\* access mode, however the fetches that look into the cache at once, the retries, the fallbacks and
\* the faults of Redis and of the browser interleave (modules/scraper/scraper_pool.py, page_cache.py).
THEOREM FailuresWereAsked == (Spec => [](FailureWasAsked /\ PageServedOnce)) /\ (MCSpec => []FetchHonest)
<1>1. Init => FetchInv  BY FetchStart
<1>2. ASSUME FetchInv, [Next]_vars PROVE FetchInv'  BY <1>2, FetchStays
<1>3. FetchInv => FailureWasAsked /\ PageServedOnce  BY FetchSays
<1>4. Spec => [](FailureWasAsked /\ PageServedOnce)  BY <1>1, <1>2, <1>3, PTL DEF Spec
<1>5. MCInit => FetchInv  BY <1>1 DEF MCInit
<1>6. [MCNext]_allVars => [Next]_vars  BY DEF MCNext, allVars
<1>7. FetchInv => FetchHonest  BY <1>3 DEF FetchHonest
<1>8. MCSpec => []FetchHonest  BY <1>2, <1>5, <1>6, <1>7, PTL DEF MCSpec, allVars
<1> QED  BY <1>4, <1>8

\* The fleet's bucket keeps its rate: however many workers ask, in whatever order and with whatever
\* faults, it has given no more tokens than it was born with and time has refilled
\* (proxy_provider_limiter.py, _ACQUIRE_LUA).
THEOREM BucketKeepsRate == Spec => []RateBounded
<1>1. ASSUME BucketInv, [Next]_vars PROVE BucketInv'  BY <1>1, BucketStays
<1> QED  BY <1>1, BucketStart, BucketSays, PTL DEF Spec

-----------------------------------------------------------------------------
(***************************************************************************)
(* Sums over the days of a cycle.                                          *)
(***************************************************************************)
Usages == [Day -> Nat]

\* The running sum exists ...
LEMMA SumExists ==
    ASSUME NEW usage \in Usages, NEW n \in 0..CycleDays
    PROVE  \E f \in [0..n -> Nat] : \A d \in 0..n : f[d] = IF d = 0 THEN 0 ELSE f[d - 1] + usage[d - 1]
<1> DEFINE Adds(f, d) == f[d] = IF d = 0 THEN 0 ELSE f[d - 1] + usage[d - 1]
           Exists(m) == \E f \in [0..m -> Nat] : \A d \in 0..m : Adds(f, d)
           bad == {m \in 0..CycleDays : ~Exists(m)}
<1>0. CycleDays \in Nat /\ Day = 0..CycleDays - 1  BY LimiterAssumption DEF Day
<1>1. SUFFICES bad = {}  OBVIOUS
<1>2. SUFFICES ASSUME bad # {} PROVE FALSE  OBVIOUS
<1>3. PICK m \in bad : \A k \in bad : m <= k
  <2>1. bad \in SUBSET Nat  BY <1>0
  <2> HIDE DEF bad
  <2> QED  BY <1>2, <2>1, LeastOf
<1>4. m \in 0..CycleDays /\ ~Exists(m)  BY <1>3
<1>5. CASE m = 0
  <2> DEFINE f == [d \in 0..0 |-> 0]
  <2>1. f \in [0..0 -> Nat] /\ \A d \in 0..0 : Adds(f, d)  OBVIOUS
  <2> QED  BY <1>4, <1>5, <2>1
<1>6. CASE m # 0
  <2>1. m - 1 \in 0..CycleDays /\ m \in Nat /\ m - 1 \in Nat  BY <1>0, <1>4, <1>6
  <2>2. ~(m <= m - 1)  BY <2>1
  <2>3. m - 1 \notin bad
    <3> HIDE DEF bad
    <3> QED  BY <1>3, <2>2
  <2>4. Exists(m - 1)  BY <2>1, <2>3
  <2>5. PICK f \in [0..(m - 1) -> Nat] : \A d \in 0..(m - 1) : Adds(f, d)  BY <2>4
  <2> DEFINE g == [d \in 0..m |-> IF d = m THEN f[m - 1] + usage[m - 1] ELSE f[d]]
  <2>6. usage[m - 1] \in Nat /\ f[m - 1] \in Nat
    <3>1. m - 1 \in Day  BY <1>0, <1>4, <2>1
    <3> QED  BY <2>1, <3>1 DEF Usages
  <2>7. g \in [0..m -> Nat]  BY <2>1, <2>6
  <2>8. ASSUME NEW d \in 0..m PROVE Adds(g, d)
    <3>1. CASE d = m  BY <1>6, <2>1, <3>1
    <3>2. CASE d # m
      <4>1. d \in 0..(m - 1) /\ (d # 0 => d - 1 \in 0..m /\ d - 1 # m)  BY <2>1, <3>2
      <4>2. Adds(f, d)  BY <2>5, <4>1
      <4> QED  BY <3>2, <4>1, <4>2
    <3> QED  BY <3>1, <3>2
  <2> QED  BY <1>4, <2>7, <2>8
<1> QED  BY <1>5, <1>6

\* ... and is the one the code computes.
LEMMA SumIs ==
    ASSUME NEW usage \in Usages
    PROVE  /\ SumBefore(0, usage) = 0
           /\ \A d \in Day : SumBefore(d + 1, usage) = SumBefore(d, usage) + usage[d]
           /\ \A d \in 0..CycleDays : SumBefore(d, usage) \in Nat
<1> DEFINE Is(f) == f = [n \in 0..CycleDays |-> IF n = 0 THEN 0 ELSE f[n - 1] + usage[n - 1]]
           sum == CHOOSE f : Is(f)
<1>0. CycleDays \in Nat /\ Day = 0..CycleDays - 1 /\ CycleDays \in 0..CycleDays  BY LimiterAssumption DEF Day
<1>1. \A d : SumBefore(d, usage) = sum[d]  BY DEF SumBefore
<1>2. PICK f \in [0..CycleDays -> Nat] : \A d \in 0..CycleDays : f[d] = IF d = 0 THEN 0 ELSE f[d - 1] + usage[d - 1]
  <2>1. CycleDays \in 0..CycleDays  BY <1>0
  <2> QED  BY <2>1, SumExists
<1>3. Is(f)  BY <1>2
<1>4. Is(sum)  BY <1>3
<1> HIDE DEF sum
<1>5. \A d \in 0..CycleDays : sum[d] = IF d = 0 THEN 0 ELSE sum[d - 1] + usage[d - 1]  BY <1>4
<1> HIDE DEF Is
<1>6. \A d \in Day : d + 1 \in 0..CycleDays /\ d + 1 # 0 /\ (d + 1) - 1 = d  BY <1>0
<1>7. \A d \in Day : sum[d + 1] = sum[d] + usage[d]  BY <1>5, <1>6
<1>8. sum[0] = 0  BY <1>0, <1>5
<1> DEFINE bad == {d \in 0..CycleDays : sum[d] \notin Nat}
<1>9. bad = {}
  <2>1. SUFFICES ASSUME bad # {} PROVE FALSE  OBVIOUS
  <2>2. PICK m \in bad : \A k \in bad : m <= k
    <3>1. bad \in SUBSET Nat  BY <1>0
    <3> HIDE DEF bad
    <3> QED  BY <2>1, <3>1, LeastOf
  <2>3. m \in 0..CycleDays /\ sum[m] \notin Nat  BY <2>2
  <2>4. m # 0 /\ m - 1 \in Day /\ m - 1 \in 0..CycleDays /\ (m - 1) + 1 = m /\ ~(m <= m - 1)  BY <1>0, <1>8, <2>3
  <2>5. m - 1 \notin bad
    <3> HIDE DEF bad
    <3> QED  BY <2>2, <2>4
  <2>6. sum[m - 1] \in Nat  BY <2>4, <2>5
  <2>7. usage[m - 1] \in Nat  BY <2>4 DEF Usages
  <2>8. sum[m] = sum[m - 1] + usage[m - 1]  BY <1>7, <2>4
  <2> QED  BY <2>3, <2>6, <2>7, <2>8
<1> QED  BY <1>1, <1>7, <1>8, <1>9

\* What holds of no day's usage, and from one day on to the next, holds of all sums: stated for the
\* least day that fails.
LEMMA LeastDay ==
    ASSUME NEW bad \in SUBSET (0..CycleDays), bad # {}, 0 \notin bad
    PROVE  \E d \in Day : d + 1 \in bad /\ d \notin bad
<1>0. CycleDays \in Nat /\ Day = 0..CycleDays - 1  BY LimiterAssumption DEF Day
<1>1. bad \in SUBSET Nat  BY <1>0
<1>2. PICK m \in bad : \A k \in bad : m <= k  BY <1>1, LeastOf
<1>3. m \in 0..CycleDays /\ m # 0  BY <1>2
<1>4. m - 1 \in Day /\ (m - 1) + 1 = m /\ ~(m <= m - 1)  BY <1>0, <1>3
<1> QED  BY <1>2, <1>4

LEMMA SumGrows ==
    ASSUME NEW u \in Usages, NEW v \in Usages, \A d \in Day : u[d] <= v[d],
           NEW n \in 0..CycleDays
    PROVE  SumBefore(n, u) <= SumBefore(n, v)
<1> DEFINE bad == {m \in 0..CycleDays : ~(SumBefore(m, u) <= SumBefore(m, v))}
<1>1. SUFFICES bad = {}  OBVIOUS
<1>2. 0 \notin bad  BY SumIs
<1>3. SUFFICES ASSUME NEW d \in Day, d + 1 \in bad, d \notin bad PROVE FALSE
  <2>1. bad \in SUBSET (0..CycleDays)  OBVIOUS
  <2> HIDE DEF bad
  <2> QED  BY <1>2, <2>1, LeastDay
<1>4. d \in 0..CycleDays  BY LimiterAssumption DEF Day
<1>5. SumBefore(d, u) \in Nat /\ SumBefore(d, v) \in Nat /\ SumBefore(d, u) <= SumBefore(d, v)  BY <1>3, <1>4, SumIs
<1>6. u[d] \in Nat /\ v[d] \in Nat /\ u[d] <= v[d]  BY DEF Usages
<1>7. SumBefore(d + 1, u) = SumBefore(d, u) + u[d] /\ SumBefore(d + 1, v) = SumBefore(d, v) + v[d]  BY SumIs
<1>8. ~(SumBefore(d + 1, u) <= SumBefore(d + 1, v))  BY <1>3
<1> QED  BY <1>5, <1>6, <1>7, <1>8

LEMMA SumBumps ==
    ASSUME NEW u \in Usages, NEW v \in Usages, NEW at \in Day, NEW by \in Nat,
           \A d \in Day : v[d] = IF d = at THEN u[d] + by ELSE u[d], NEW n \in 0..CycleDays
    PROVE  SumBefore(n, v) = SumBefore(n, u) + (IF at < n THEN by ELSE 0)
<1> DEFINE More(m) == IF at < m THEN by ELSE 0
           bad == {m \in 0..CycleDays : SumBefore(m, v) # SumBefore(m, u) + More(m)}
<1>0. CycleDays \in Nat /\ Day = 0..CycleDays - 1  BY LimiterAssumption DEF Day
<1>1. SUFFICES bad = {}  OBVIOUS
<1>2. 0 \notin bad  BY <1>0, SumIs
<1>3. SUFFICES ASSUME NEW d \in Day, d + 1 \in bad, d \notin bad PROVE FALSE
  <2>1. bad \in SUBSET (0..CycleDays)  OBVIOUS
  <2> HIDE DEF bad
  <2> QED  BY <1>2, <2>1, LeastDay
<1>4. d \in 0..CycleDays /\ d \in Nat /\ at \in Nat  BY <1>0
<1>5. SumBefore(d, u) \in Nat /\ SumBefore(d, v) = SumBefore(d, u) + More(d)  BY <1>3, <1>4, SumIs
<1>6. u[d] \in Nat /\ v[d] = IF d = at THEN u[d] + by ELSE u[d]  BY DEF Usages
<1>7. SumBefore(d + 1, u) = SumBefore(d, u) + u[d] /\ SumBefore(d + 1, v) = SumBefore(d, v) + v[d]  BY SumIs
<1>8. SumBefore(d + 1, v) # SumBefore(d + 1, u) + More(d + 1)  BY <1>3
<1> QED  BY <1>4, <1>5, <1>6, <1>7, <1>8

LEMMA SumStops ==
    ASSUME NEW u \in Usages, NEW today \in Day, \A d \in Day : d > today => u[d] = 0
    PROVE  SumBefore(CycleDays, u) = SumBefore(today + 1, u)
<1> DEFINE bad == {m \in 0..CycleDays : m > today /\ SumBefore(m, u) # SumBefore(today + 1, u)}
<1>0. CycleDays \in Nat /\ Day = 0..CycleDays - 1  BY LimiterAssumption DEF Day
<1>1. CycleDays \in 0..CycleDays /\ CycleDays > today  BY <1>0
<1>2. SUFFICES bad = {}  BY <1>1
<1>3. 0 \notin bad  BY <1>0
<1>4. SUFFICES ASSUME NEW d \in Day, d + 1 \in bad, d \notin bad PROVE FALSE
  <2>1. bad \in SUBSET (0..CycleDays)  OBVIOUS
  <2> HIDE DEF bad
  <2> QED  BY <1>3, <2>1, LeastDay
<1>5. d \in 0..CycleDays /\ d \in Nat /\ today \in Nat  BY <1>0
<1>6. d + 1 > today /\ SumBefore(d + 1, u) # SumBefore(today + 1, u)  BY <1>4
<1>7. d # today  BY <1>6
<1>8. d > today  BY <1>5, <1>6, <1>7
<1>9. u[d] = 0 /\ SumBefore(d, u) = SumBefore(today + 1, u) /\ SumBefore(d, u) \in Nat  BY <1>4, <1>5, <1>8, SumIs
<1>10. SumBefore(d + 1, u) = SumBefore(d, u) + u[d]  BY SumIs
<1> QED  BY <1>6, <1>9, <1>10

-----------------------------------------------------------------------------
(***************************************************************************)
(* The types of FetchPath, and which layer a fetch is at.                  *)
(***************************************************************************)
PaidPlaces == {"budget", "costs", "token", "again", "fallback", "count", "cost", "post"}

At(l, backend) == l.layers # <<>> /\ Head(l.layers).backend = backend

Reached(step, l) ==
    /\ step = "direct" => At(l, "direct")
    /\ step \in {"queue", "render"} => At(l, "render")
    /\ step \in PaidPlaces => At(l, "proxy")
    /\ step = "cache_del" => l.page # 0

FetchTyped ==
    /\ TypeOK
    /\ bucket.last <= clock /\ (browser.open \/ browser.pages = 0) /\ cache <= puts
    /\ \A f \in Fetcher : Reached(pc[f], loc[f])

LEMMA LayerIs ==
    ASSUME NEW s \in Seq(Layer), s # <<>>
    PROVE  Head(s) \in Layer /\ Head(s).js \in BOOLEAN /\ Head(s).backend \in {"direct", "proxy", "render"} /\ Tail(s) \in Seq(Layer)
<1>1. Head(s) \in Layer /\ Tail(s) \in Seq(Layer)  OBVIOUS
<1> QED  BY <1>1 DEF Layer

LEMMA OrderTyped ==
    ASSUME mode \in AllModes, NEW requiresJs \in BOOLEAN, NEW noJs \in BOOLEAN
    PROVE  LayerOrder(requiresJs, noJs) \in Seq(Layer) /\ StaticLayers \in Seq(Layer)
<1> DEFINE direct == [backend |-> "direct", js |-> FALSE]
           render == [backend |-> "render", js |-> TRUE]
           paid(js) == [backend |-> "proxy", js |-> js]
<1>1. direct \in Layer /\ render \in Layer /\ \A js \in BOOLEAN : paid(js) \in Layer  BY DEF Layer
<1>2. LayerOrder(requiresJs, noJs) \in {<<paid(TRUE)>>, <<paid(FALSE)>>, <<>>, <<render, direct>>, <<direct, render>>}
  BY DEF LayerOrder
<1>3. StaticLayers = <<direct, paid(FALSE)>>  BY DEF StaticLayers
<1> HIDE DEF direct, render, paid
<1>4. <<>> \in Seq(Layer) /\ \A x, y \in Layer : <<x>> \in Seq(Layer) /\ <<x, y>> \in Seq(Layer)  OBVIOUS
<1>5. /\ <<paid(TRUE)>> \in Seq(Layer) /\ <<paid(FALSE)>> \in Seq(Layer)
      /\ <<render, direct>> \in Seq(Layer) /\ <<direct, render>> \in Seq(Layer)
      /\ <<direct, paid(FALSE)>> \in Seq(Layer)
  BY <1>1, <1>4
<1> QED  BY <1>2, <1>3, <1>4, <1>5

LEMMA FieldsOf ==
    ASSUME NEW l \in Locals
    PROVE  /\ l.layers \in Seq(Layer) /\ l.attempt \in 1..Attempts /\ l.kind \in AllKinds /\ l.page \in 0..MaxPuts
           /\ l.today \in Day /\ l.read \in [Day -> Nat \cup {NoKey}] /\ l.out \in Outcomes /\ l.before \subseteq 1..MaxPuts
           /\ l.asked \in BOOLEAN /\ l.deadline \in BOOLEAN /\ l.fallback \in BOOLEAN
BY DEF Locals

\* Updates that keep the locals typed.
LEMMA OutTyped ==
    ASSUME NEW l \in Locals, NEW out \in Outcomes
    PROVE  [l EXCEPT !.out = out] \in Locals /\ [l EXCEPT !.out = out].layers = l.layers
           /\ [l EXCEPT !.out = out].out = out
<1>1. [l EXCEPT !.out = out] \in Locals  BY ZenonT(20) DEF Locals
<1>2. [l EXCEPT !.out = out].layers = l.layers /\ [l EXCEPT !.out = out].out = out  BY DEF Locals
<1> QED  BY <1>1, <1>2

LEMMA NextTyped ==
    ASSUME NEW l \in Locals, NEW layers \in Seq(Layer)
    PROVE  [l EXCEPT !.layers = layers, !.attempt = 1] \in Locals
<1>1. 1 \in 1..Attempts  BY FetchAssumption
<1> QED  BY <1>1, ZenonT(20) DEF Locals

LEMMA EndedTyped == ASSUME NEW l \in Locals PROVE Ended(l) \in Locals
<1>1. 1 \in 1..Attempts  BY FetchAssumption
<1>2. <<>> \in Seq(Layer)  OBVIOUS
<1> QED  BY <1>1, <1>2, ZenonT(20) DEF Locals, Ended

LEMMA AskedTyped == ASSUME NEW l \in Locals PROVE Asked(l) \in Locals /\ Asked(l).layers = l.layers
<1>1. Asked(l) \in Locals  BY ZenonT(20) DEF Locals, Asked
<1>2. Asked(l).layers = l.layers  BY DEF Locals, Asked
<1> QED  BY <1>1, <1>2

LEMMA FallbackTyped == ASSUME mode \in AllModes, NEW l \in Locals PROVE RenderedFallback(l) \in Locals
<1> DEFINE layers == LayerOrder(TRUE, FALSE)
           out == IF layers = <<>> THEN "missing" ELSE "none"
<1>1. layers \in Seq(Layer)  BY OrderTyped
<1>2. out \in Outcomes /\ 1 \in 1..Attempts  BY FetchAssumption DEF Outcomes
<1>3. RenderedFallback(l) = [l EXCEPT !.fallback = TRUE, !.attempt = 1, !.layers = layers, !.out = out]
  BY DEF RenderedFallback
<1> HIDE DEF layers, out
<1> QED  BY <1>1, <1>2, <1>3, ZenonT(20) DEF Locals

LEMMA RefusedTyped ==
    ASSUME mode \in AllModes, NEW l \in Locals, l.layers # <<>>, NEW code
    PROVE  Refused(l, code) \in Locals
<1>1. l.layers \in Seq(Layer) /\ Tail(l.layers) \in Seq(Layer)  BY LayerIs, FieldsOf
<1> DEFINE next == [l EXCEPT !.layers = Tail(l.layers), !.attempt = 1]
<1>2. next \in Locals  BY <1>1, NextTyped
<1> HIDE DEF next
<1>3. \A out \in Outcomes : [next EXCEPT !.out = out] \in Locals  BY <1>2, OutTyped
<1>4. RenderedFallback(next) \in Locals  BY <1>2, FallbackTyped
<1>5. Nothing(l) \in Outcomes /\ "skipped" \in Outcomes  BY DEF Nothing, Outcomes
<1>6. AfterLayer(l, code) \in {[next EXCEPT !.out = "skipped"], next, RenderedFallback(next), [next EXCEPT !.out = Nothing(l)]}
  BY DEF AfterLayer, next
<1>7. AfterLayer(l, code) \in Locals  BY <1>2, <1>3, <1>4, <1>5, <1>6
<1>8. ASSUME l.attempt < TriesOf(Head(l.layers)) PROVE [l EXCEPT !.attempt = @ + 1] \in Locals
  <2>1. l.attempt \in 1..Attempts /\ Attempts \in Nat \ {0}  BY FieldsOf, FetchAssumption
  <2>2. l.attempt + 1 \in 1..Attempts  BY <1>8, <2>1 DEF TriesOf
  <2> QED  BY <2>2, ZenonT(20) DEF Locals
<1> QED  BY <1>7, <1>8 DEF Refused

LEMMA AnswersTyped ==
    ASSUME mode \in AllModes, NEW l \in Locals, l.layers # <<>>, NEW r \in Answers(l)
    PROVE  r \in Locals
<1>1. Asked(l) \in Locals /\ Asked(l).layers # <<>>  BY AskedTyped
<1>2. CASE r \in {Answered(Asked(l), xml) : xml \in BOOLEAN}
  <2>1. PICK xml \in BOOLEAN : r = Answered(Asked(l), xml)  BY <1>2
  <2>2. "html" \in Outcomes /\ "missing" \in Outcomes  BY DEF Outcomes
  <2>3. RenderedFallback(Asked(l)) \in Locals  BY <1>1, FallbackTyped
  <2> QED  BY <1>1, <2>1, <2>2, <2>3, OutTyped DEF Answered
<1>3. CASE r \in {Refused(Asked(l), c) : c \in Replies}  BY <1>1, <1>3, RefusedTyped
<1> QED  BY <1>2, <1>3 DEF Answers

\* A step of one fetch, and what the others are left with.
Turns(f, step, l) ==
    /\ loc' \in [Fetcher -> Locals] /\ pc' \in [Fetcher -> PCs]
    /\ loc'[f] = l /\ pc'[f] = step /\ Reached(step, l)
    /\ \A g \in Fetcher \ {f} : loc'[g] = loc[g] /\ pc'[g] = pc[g]

Ready == {"done", "direct", "budget", "queue"}

LEMMA GotoTurns ==
    ASSUME TypeOK, NEW f \in Fetcher, NEW r \in Locals, Goto(f, r)
    PROVE  \E step \in Ready, l \in Locals : Turns(f, step, l)
<1>0. loc \in [Fetcher -> Locals] /\ pc \in [Fetcher -> PCs]  BY DEF TypeOK
<1>1. CASE r.out # "none"
  <2>1. Ended(r) \in Locals  BY EndedTyped
  <2>2. loc' = [loc EXCEPT ![f] = Ended(r)] /\ pc' = [pc EXCEPT ![f] = "done"]  BY <1>1 DEF Goto
  <2>3. Reached("done", Ended(r)) /\ "done" \in PCs /\ "done" \in Ready  BY DEF Reached, PaidPlaces, PCs, Ready
  <2>4. Turns(f, "done", Ended(r))  BY <1>0, <2>1, <2>2, <2>3 DEF Turns
  <2> QED  BY <2>1, <2>3, <2>4
<1>2. CASE r.out = "none"
  <2> DEFINE step == PcOf(r.layers)
  <2>1. loc' = [loc EXCEPT ![f] = r] /\ pc' = [pc EXCEPT ![f] = step]  BY <1>2 DEF Goto
  <2>2. step \in Ready /\ Reached(step, r)
    <3>1. CASE r.layers = <<>>  BY <3>1 DEF PcOf, Reached, PaidPlaces, Ready
    <3>2. CASE r.layers # <<>>
      <4>1. Head(r.layers).backend \in {"direct", "proxy", "render"}  BY <3>2, FieldsOf, LayerIs
      <4>2. Head(r.layers).backend = "direct" => step = "direct"  BY <3>2 DEF PcOf
      <4>3. Head(r.layers).backend = "proxy" => step = "budget"  BY <3>2 DEF PcOf
      <4>4. Head(r.layers).backend = "render" => step = "queue"  BY <3>2 DEF PcOf
      <4> QED  BY <3>2, <4>1, <4>2, <4>3, <4>4 DEF Reached, PaidPlaces, Ready, At
    <3> QED  BY <3>1, <3>2
  <2>3. step \in PCs  BY <2>2 DEF Ready, PCs
  <2> HIDE DEF step
  <2>4. Turns(f, step, r)  BY <1>0, <2>1, <2>2, <2>3 DEF Turns
  <2> QED  BY <2>2, <2>4
<1> QED  BY <1>1, <1>2

LEMMA JumpTurns ==
    ASSUME TypeOK, NEW f \in Fetcher, NEW l \in Locals, NEW step \in PCs, Reached(step, l),
           loc' = [loc EXCEPT ![f] = l], pc' = [pc EXCEPT ![f] = step]
    PROVE  Turns(f, step, l)
<1>0. loc \in [Fetcher -> Locals] /\ pc \in [Fetcher -> PCs]  BY DEF TypeOK
<1> QED  BY <1>0 DEF Turns

LEMMA StepTurns ==
    ASSUME FetchTyped, NEW f \in Fetcher, Step(f)
    PROVE  \E step \in PCs, l \in Locals : Turns(f, step, l)
<1>0. /\ TypeOK /\ loc[f] \in Locals /\ mode \in AllModes /\ Reached(pc[f], loc[f])
      /\ loc = [loc EXCEPT ![f] = loc[f]]
  BY DEF FetchTyped, TypeOK
<1>r. Ready \subseteq PCs  BY DEF Ready, PCs
<1>g. ASSUME NEW r \in Locals, Goto(f, r) PROVE \E step \in PCs, l \in Locals : Turns(f, step, l)
  BY <1>0, <1>r, <1>g, GotoTurns
<1>m. ASSUME Miss(f) PROVE \E step \in PCs, l \in Locals : Turns(f, step, l)
  <2> DEFINE out == IF loc[f].layers = <<>> THEN "failed" ELSE "none"
  <2>1. out \in Outcomes  BY DEF Outcomes
  <2>2. Goto(f, [loc[f] EXCEPT !.out = out])  BY <1>m DEF Miss
  <2> HIDE DEF out
  <2> QED  BY <1>0, <1>g, <2>1, <2>2, OutTyped
<1>a. ASSUME loc[f].layers # <<>>, \E l \in Answers(loc[f]) : Goto(f, l)
      PROVE  \E step \in PCs, l \in Locals : Turns(f, step, l)
  BY <1>0, <1>a, <1>g, AnswersTyped
<1>b. ASSUME loc[f].layers # <<>>, NEW code, Goto(f, Refused(loc[f], code))
      PROVE  \E step \in PCs, l \in Locals : Turns(f, step, l)
  BY <1>0, <1>b, <1>g, RefusedTyped
<1>j. ASSUME pc[f] \in PaidPlaces, NEW step \in PaidPlaces, NEW l \in Locals, l.layers = loc[f].layers,
             loc' = [loc EXCEPT ![f] = l], pc' = [pc EXCEPT ![f] = step]
      PROVE  \E s \in PCs, m \in Locals : Turns(f, s, m)
  <2>1. step \in PCs  BY DEF PaidPlaces, PCs
  <2>2. Reached(step, l)
    <3>1. At(l, "proxy") /\ step \notin {"direct", "queue", "render", "cache_del"}
      BY <1>0, <1>j DEF Reached, At, PaidPlaces
    <3> QED  BY <3>1 DEF Reached
  <2> QED  BY <1>0, <1>j, <2>1, <2>2, JumpTurns
<1>1. CASE CacheGet(f)
  <2>1. CASE Miss(f)  BY <1>m, <2>1
  <2>2. CASE ~Miss(f)
    <3>1. cache # 0 /\ loc' = [loc EXCEPT ![f].page = cache] /\ pc' = [pc EXCEPT ![f] = "cache_del"]
      BY <1>1, <2>2 DEF CacheGet
    <3> DEFINE l == [loc[f] EXCEPT !.page = cache]
    <3>2. loc' = [loc EXCEPT ![f] = l]  BY <1>0, <3>1 DEF TypeOK
    <3>3. cache \in 0..MaxPuts  BY <1>0 DEF TypeOK
    <3>4. l \in Locals  BY <1>0, <3>3, ZenonT(20) DEF Locals
    <3>5. l.page = cache  BY <1>0 DEF Locals
    <3> HIDE DEF l
    <3>6. Reached("cache_del", l) /\ "cache_del" \in PCs  BY <3>1, <3>5 DEF Reached, PaidPlaces, PCs
    <3> QED  BY <1>0, <3>1, <3>2, <3>4, <3>6, JumpTurns
  <2> QED  BY <2>1, <2>2
<1>2. CASE CacheDelete(f)
  <2>1. CASE Miss(f)  BY <1>m, <2>1
  <2>2. CASE Goto(f, [loc[f] EXCEPT !.out = "html"])
    <3>1. "html" \in Outcomes  BY DEF Outcomes
    <3> QED  BY <1>0, <1>g, <2>2, <3>1, OutTyped
  <2> QED  BY <1>2, <2>1, <2>2 DEF CacheDelete
<1>3. CASE Direct(f)
  <2>1. loc[f].layers # <<>>  BY <1>0, <1>3 DEF Direct, Reached, At
  <2> QED  BY <1>3, <1>a, <2>1 DEF Direct
<1>4. CASE RenderBegin(f)
  <2>1. At(loc[f], "render")  BY <1>0, <1>4 DEF RenderBegin, Reached
  <2>2. CASE pc' = [pc EXCEPT ![f] = "render"] /\ UNCHANGED loc
    <3>1. Reached("render", loc[f]) /\ "render" \in PCs  BY <2>1 DEF Reached, PaidPlaces, PCs
    <3> QED  BY <1>0, <2>2, <3>1, JumpTurns
  <2>3. CASE \E code \in BrowserErrors : Goto(f, Refused(loc[f], code))
    BY <1>b, <2>1, <2>3 DEF At
  <2> QED  BY <1>4, <2>2, <2>3 DEF RenderBegin
<1>5. CASE RenderEnd(f)
  <2>1. loc[f].layers # <<>>  BY <1>0, <1>5 DEF RenderEnd, Reached, At
  <2>2. CASE \E l \in Answers(loc[f]) : Goto(f, l)  BY <1>a, <2>1, <2>2
  <2>3. CASE \E code \in BrowserErrors : Goto(f, Refused(Asked(loc[f]), code))
    <3>1. Asked(loc[f]) \in Locals /\ Asked(loc[f]).layers # <<>>  BY <1>0, <2>1, AskedTyped
    <3> QED  BY <1>0, <1>g, <2>3, <3>1, RefusedTyped
  <2> QED  BY <1>5, <2>2, <2>3 DEF RenderEnd
<1>6. ASSUME pc[f] \in PaidPlaces PROVE loc[f].layers # <<>>  BY <1>0, <1>6 DEF Reached, At
<1>7. CASE ProxyOff(f)  BY <1>6, <1>7, <1>b DEF ProxyOff, PaidPlaces
<1>8. CASE BudgetCounts(f)
  <2>1. pc[f] \in PaidPlaces /\ "costs" \in PaidPlaces /\ "token" \in PaidPlaces  BY <1>8 DEF BudgetCounts, PaidPlaces
  <2>2. CASE Jump(f, "token")  BY <1>0, <1>j, <2>1, <2>2 DEF Jump
  <2>3. CASE ~Jump(f, "token")
    <3> DEFINE l == [[loc[f] EXCEPT !.read = counts] EXCEPT !.today = day]
    <3>1. pc' = [pc EXCEPT ![f] = "costs"] /\ loc' = [loc EXCEPT ![f].read = counts, ![f].today = day]
      BY <1>8, <2>3 DEF BudgetCounts
    <3>2. loc' = [loc EXCEPT ![f] = l]  BY <1>0, <3>1 DEF TypeOK
    <3>3. counts \in [Day -> Nat \cup {NoKey}] /\ day \in Day  BY <1>0 DEF TypeOK
    <3>4. l \in Locals  BY <1>0, <3>3, ZenonT(20) DEF Locals
    <3>5. l.layers = loc[f].layers  BY <1>0 DEF Locals
    <3> HIDE DEF l
    <3> QED  BY <1>j, <2>1, <3>1, <3>2, <3>4, <3>5
  <2> QED  BY <2>2, <2>3
<1>z. NoCounters \in [Day -> Nat \cup {NoKey}] /\ 0 \in Day  BY LimiterAssumption DEF NoCounters, Day
<1>t. ASSUME NEW l \in Locals
      PROVE  [l EXCEPT !.read = NoCounters, !.today = 0] \in Locals
             /\ [l EXCEPT !.read = NoCounters, !.today = 0].layers = l.layers
  <2>1. [l EXCEPT !.read = NoCounters, !.today = 0] \in Locals  BY <1>z, ZenonT(20) DEF Locals
  <2>2. [l EXCEPT !.read = NoCounters, !.today = 0].layers = l.layers  BY DEF Locals
  <2> QED  BY <2>1, <2>2
<1>9. CASE BudgetCosts(f)
  <2>1. pc[f] \in PaidPlaces /\ "token" \in PaidPlaces  BY <1>9 DEF BudgetCosts, PaidPlaces
  <2>2. CASE Goto(f, [Refused(loc[f], "budget") EXCEPT !.read = NoCounters, !.today = 0])
    <3>1. Refused(loc[f], "budget") \in Locals  BY <1>0, <1>6, <2>1, RefusedTyped
    <3> QED  BY <1>g, <1>t, <2>2, <3>1
  <2>3. CASE pc' = [pc EXCEPT ![f] = "token"] /\ loc' = [loc EXCEPT ![f].read = NoCounters, ![f].today = 0]
    <3> DEFINE l == [loc[f] EXCEPT !.read = NoCounters, !.today = 0]
    <3>1. loc' = [loc EXCEPT ![f] = l]  BY <1>0, <2>3 DEF TypeOK
    <3>2. l \in Locals /\ l.layers = loc[f].layers  BY <1>0, <1>t
    <3> HIDE DEF l
    <3> QED  BY <1>j, <2>1, <2>3, <3>1, <3>2
  <2> QED  BY <1>9, <2>2, <2>3 DEF BudgetCosts
<1>10. CASE Late(f)  BY <1>6, <1>10, <1>b DEF Late, PaidPlaces
<1>k. ASSUME pc[f] \in PaidPlaces, NEW step \in PaidPlaces, Jump(f, step)
      PROVE  \E s \in PCs, m \in Locals : Turns(f, s, m)
  BY <1>0, <1>j, <1>k DEF Jump
<1>11. CASE Token(f)
  <2>1. pc[f] \in PaidPlaces /\ {"count", "again", "fallback"} \subseteq PaidPlaces  BY <1>11 DEF Token, PaidPlaces
  <2>2. CASE Goto(f, Refused(loc[f], "deadline"))  BY <1>6, <1>b, <2>1, <2>2
  <2>3. CASE ~Goto(f, Refused(loc[f], "deadline"))
    <3>1. Jump(f, "count") \/ Jump(f, "again") \/ Jump(f, "fallback")  BY <1>11, <2>3 DEF Token
    <3> QED  BY <1>k, <2>1, <3>1
  <2> QED  BY <2>2, <2>3
<1>12. CASE LocalSlot(f)  BY <1>12, <1>k DEF LocalSlot, PaidPlaces
<1>13. CASE RecordCount(f)
  <2>1. pc[f] \in PaidPlaces /\ {"cost", "post"} \subseteq PaidPlaces  BY <1>13 DEF RecordCount, PaidPlaces
  <2>2. CASE Jump(f, "post")  BY <1>k, <2>1, <2>2
  <2>3. CASE ~Jump(f, "post")
    <3> DEFINE l == [loc[f] EXCEPT !.today = day]
    <3>1. loc' = [loc EXCEPT ![f].today = day] /\ pc' = [pc EXCEPT ![f] = "cost"]  BY <1>13, <2>3 DEF RecordCount
    <3>2. loc' = [loc EXCEPT ![f] = l] /\ day \in Day  BY <1>0, <3>1 DEF TypeOK
    <3>3. l \in Locals  BY <1>0, <3>2, ZenonT(20) DEF Locals
    <3>4. l.layers = loc[f].layers  BY <1>0 DEF Locals
    <3> HIDE DEF l
    <3> QED  BY <1>j, <2>1, <3>1, <3>2, <3>3, <3>4
  <2> QED  BY <2>2, <2>3
<1>14. CASE RecordCost(f)
  <2>1. pc[f] \in PaidPlaces /\ "post" \in PaidPlaces  BY <1>14 DEF RecordCost, PaidPlaces
  <2> DEFINE l == [loc[f] EXCEPT !.today = 0]
  <2>2. loc' = [loc EXCEPT ![f].today = 0] /\ pc' = [pc EXCEPT ![f] = "post"]  BY <1>14 DEF RecordCost
  <2>3. loc' = [loc EXCEPT ![f] = l]  BY <1>0, <2>2 DEF TypeOK
  <2>4. l \in Locals  BY <1>0, <1>z, ZenonT(20) DEF Locals
  <2>5. l.layers = loc[f].layers  BY <1>0 DEF Locals
  <2> HIDE DEF l
  <2> QED  BY <1>j, <2>1, <2>2, <2>3, <2>4, <2>5
<1>15. CASE Post(f)  BY <1>6, <1>15, <1>a DEF Post, PaidPlaces
<1> QED  BY <1>1, <1>2, <1>3, <1>4, <1>5, <1>7, <1>8, <1>9, <1>10, <1>11, <1>12, <1>13, <1>14, <1>15 DEF Step

LEMMA WeightIs == ASSUME NEW js PROVE Weight(js) \in Nat /\ Weight(js) <= JsWeight
BY LimiterAssumption DEF Weight

LEMMA RefilledAtMost ==
    ASSUME NEW b, b.tokens \in Nat, b.last \in Nat, NEW now \in Nat, b.last <= now
    PROVE  Refilled(b, now) \in 0..Capacity
<1>1. Refilled(b, now) \in Nat  BY RefilledIs
<1>2. Capacity \in Nat  BY LimiterAssumption
<1> DEFINE x == b.tokens + Max({0, now - b.last}) * Rate
<1>3. Refilled(b, now) = Min({Capacity, x})  BY DEF Refilled
<1>4. Refilled(b, now) = CHOOSE m \in {Capacity, x} : \A n \in {Capacity, x} : m <= n  BY <1>3 DEF Min
<1>5. Max({0, now - b.last}) = now - b.last
  <2> DEFINE e == now - b.last
  <2>1. e \in Nat /\ 0 <= e  OBVIOUS
  <2>2. \E m \in {0, e} : \A n \in {0, e} : m >= n  BY <2>1
  <2>3. Max({0, e}) = CHOOSE m \in {0, e} : \A n \in {0, e} : m >= n  BY DEF Max
  <2> HIDE DEF e
  <2>4. Max({0, e}) \in {0, e} /\ \A n \in {0, e} : Max({0, e}) >= n  BY <2>2, <2>3
  <2>5. Max({0, e}) = e  BY <2>1, <2>4
  <2> QED  BY <2>5 DEF e
<1>6. x \in Nat
  <2>1. now - b.last \in Nat /\ Rate \in Nat  BY LimiterAssumption
  <2>2. (now - b.last) * Rate \in Nat  BY <2>1
  <2> QED  BY <1>5, <2>2
<1> HIDE DEF x
<1>7. \E m \in {Capacity, x} : \A n \in {Capacity, x} : m <= n
  <2>1. CASE Capacity <= x  BY <1>2, <1>6, <2>1
  <2>2. CASE x <= Capacity  BY <1>2, <1>6, <2>2
  <2> QED  BY <1>2, <1>6, <2>1, <2>2
<1>8. \A n \in {Capacity, x} : Refilled(b, now) <= n  BY <1>4, <1>7
<1> QED  BY <1>1, <1>2, <1>8

LEMMA BumpedIs ==
    ASSUME NEW counters \in [Day -> Nat \cup {NoKey}], NEW d \in Day, NEW by \in Nat
    PROVE  Bumped(counters, d, by) \in [Day -> Nat \cup {NoKey}]
<1>1. (IF counters[d] = NoKey THEN 0 ELSE counters[d]) + by \in Nat  BY DEF NoKey
<1> QED  BY <1>1 DEF Bumped

\* What a step of a fetch leaves of the rest.
LEMMA StepRest ==
    ASSUME FetchTyped, FetchInv, NEW f \in Fetcher, Step(f)
    PROVE  /\ UNCHANGED <<mode, configured, day, clock, puts, fetches>>
           /\ counts' \in [Day -> Nat \cup {NoKey}] /\ costs' \in [Day -> Nat \cup {NoKey}]
           /\ bucket' \in [tokens : 0..Capacity, last : 0..MaxClock] /\ bucket'.last <= clock
           /\ cache' \in {0, cache}
           /\ browser' \in [user : Fetcher \cup {NoOne}, open : BOOLEAN, pages : 0..MaxPages]
           /\ browser'.open \/ browser'.pages = 0
           /\ faults' \in 0..MaxFaults
           /\ granted' \in Nat /\ billed' \in Nat /\ excused' \in Nat /\ consumed' \subseteq 1..MaxPuts
<1>0. /\ TypeOK /\ loc[f] \in Locals /\ Reached(pc[f], loc[f]) /\ bucket.last <= clock
      /\ browser.open \/ browser.pages = 0
  BY DEF FetchTyped, TypeOK
<1>1. UNCHANGED <<mode, configured, day, clock, puts, fetches>>
  BY DEF Step, environment, CacheGet, CacheDelete, Direct, RenderBegin, RenderEnd, ProxyOff,
         BudgetCounts, BudgetCosts, Late, Token, LocalSlot, RecordCount, RecordCost, Post
<1>2. counts' \in [Day -> Nat \cup {NoKey}]
  <2>1. counts' \in {counts, Bumped(counts, day, 1)}
    BY DEF Step, ledger, CacheGet, CacheDelete, Direct, RenderBegin, RenderEnd, ProxyOff,
         BudgetCounts, BudgetCosts, Late, Token, LocalSlot, RecordCount, RecordCost, Post
  <2>2. counts \in [Day -> Nat \cup {NoKey}] /\ day \in Day  BY <1>0 DEF TypeOK
  <2>3. Bumped(counts, day, 1) \in [Day -> Nat \cup {NoKey}]  BY <2>2, BumpedIs
  <2> QED  BY <2>1, <2>2, <2>3
<1>3. costs' \in [Day -> Nat \cup {NoKey}]
  <2>1. costs' \in {costs, Bumped(costs, loc[f].today, Weight(Head(loc[f].layers).js))}
    BY DEF Step, ledger, CacheGet, CacheDelete, Direct, RenderBegin, RenderEnd, ProxyOff,
         BudgetCounts, BudgetCosts, Late, Token, LocalSlot, RecordCount, RecordCost, Post
  <2>2. costs \in [Day -> Nat \cup {NoKey}]  BY <1>0 DEF TypeOK
  <2>3. loc[f].today \in Day /\ Weight(Head(loc[f].layers).js) \in Nat  BY <1>0, FieldsOf, WeightIs
  <2>4. Bumped(costs, loc[f].today, Weight(Head(loc[f].layers).js)) \in [Day -> Nat \cup {NoKey}]
    BY <2>2, <2>3, BumpedIs
  <2> QED  BY <2>1, <2>2, <2>4
<1>4. bucket' \in [tokens : 0..Capacity, last : 0..MaxClock] /\ bucket'.last <= clock
  <2>1. bucket' \in {bucket, Acquire(bucket, clock)}
    BY DEF Step, CacheGet, CacheDelete, Direct, RenderBegin, RenderEnd, ProxyOff,
         BudgetCounts, BudgetCosts, Late, Token, LocalSlot, RecordCount, RecordCost, Post
  <2>2. bucket \in [tokens : 0..Capacity, last : 0..MaxClock] /\ clock \in 0..MaxClock /\ Capacity \in Nat /\ MaxClock \in Nat
    BY <1>0, LimiterAssumption, FetchAssumption DEF TypeOK
  <2>3. Refilled(bucket, clock) \in 0..Capacity
    <3>1. bucket.tokens \in Nat /\ bucket.last \in Nat /\ clock \in Nat  BY <2>2
    <3> QED  BY <1>0, <3>1, RefilledAtMost
  <2> DEFINE left == Refilled(bucket, clock) - (IF Granted(bucket, clock) THEN 1 ELSE 0)
  <2>4. left \in 0..Capacity  BY <2>2, <2>3 DEF Granted
  <2>5. Acquire(bucket, clock) = [tokens |-> left, last |-> clock]  BY DEF Acquire
  <2> HIDE DEF left
  <2>6. Acquire(bucket, clock) \in [tokens : 0..Capacity, last : 0..MaxClock] /\ Acquire(bucket, clock).last = clock
    BY <2>2, <2>4, <2>5
  <2>7. clock <= clock  BY <2>2
  <2> QED  BY <1>0, <2>1, <2>2, <2>6, <2>7
<1>5. cache' \in {0, cache}
    BY DEF Step, CacheGet, CacheDelete, Direct, RenderBegin, RenderEnd, ProxyOff,
         BudgetCounts, BudgetCosts, Late, Token, LocalSlot, RecordCount, RecordCost, Post
<1>6. /\ browser' \in [user : Fetcher \cup {NoOne}, open : BOOLEAN, pages : 0..MaxPages]
      /\ browser'.open \/ browser'.pages = 0
  <2> DEFINE recycled == IF browser.open /\ browser.pages >= MaxPages THEN 0 ELSE browser.pages
             fresh == [user |-> f, open |-> TRUE, pages |-> recycled + 1]
             closed == [user |-> NoOne, open |-> FALSE, pages |-> 0]
             free == [browser EXCEPT !.user = NoOne]
  <2>1. browser' \in {browser, fresh, closed, free}
    BY DEF Step, CacheGet, CacheDelete, Direct, RenderBegin, RenderEnd, ProxyOff,
         BudgetCounts, BudgetCosts, Late, Token, LocalSlot, RecordCount, RecordCost, Post
  <2>2. browser \in [user : Fetcher \cup {NoOne}, open : BOOLEAN, pages : 0..MaxPages] /\ MaxPages \in Nat \ {0}
    BY <1>0, FetchAssumption DEF TypeOK
  <2>3. recycled + 1 \in 0..MaxPages /\ 0 \in 0..MaxPages  BY <1>0, <2>2
  <2> HIDE DEF recycled
  <2>4. fresh \in [user : Fetcher \cup {NoOne}, open : BOOLEAN, pages : 0..MaxPages] /\ fresh.open
    BY <2>3
  <2>5. closed \in [user : Fetcher \cup {NoOne}, open : BOOLEAN, pages : 0..MaxPages] /\ closed.pages = 0  BY <2>3
  <2>6. free \in [user : Fetcher \cup {NoOne}, open : BOOLEAN, pages : 0..MaxPages]
        /\ free.open = browser.open /\ free.pages = browser.pages  BY <2>2
  <2> HIDE DEF fresh, closed, free
  <2> QED  BY <1>0, <2>1, <2>2, <2>4, <2>5, <2>6
<1>7. faults' \in 0..MaxFaults
  <2>1. UNCHANGED faults \/ Fault
    BY DEF Step, Unguarded, CacheGet, CacheDelete, Direct, RenderBegin, RenderEnd, ProxyOff,
         BudgetCounts, BudgetCosts, Late, Token, LocalSlot, RecordCount, RecordCost, Post
  <2>2. faults \in 0..MaxFaults /\ MaxFaults \in Nat  BY <1>0, FetchAssumption DEF TypeOK
  <2> QED  BY <2>1, <2>2 DEF Fault
<1>8. granted' \in Nat
  <2>1. granted' \in {granted, granted + 1}
    BY DEF Step, CacheGet, CacheDelete, Direct, RenderBegin, RenderEnd, ProxyOff,
         BudgetCounts, BudgetCosts, Late, Token, LocalSlot, RecordCount, RecordCost, Post
  <2> QED  BY <1>0, <2>1 DEF TypeOK
<1>9. billed' \in Nat /\ excused' \in Nat
  <2> DEFINE w == Weight(Head(loc[f].layers).js)
  <2>1. billed' \in {billed, billed + w} /\ excused' \in {excused, excused + w}
    BY DEF Step, Excuse, Unguarded, CacheGet, CacheDelete, Direct, RenderBegin, RenderEnd, ProxyOff,
         BudgetCounts, BudgetCosts, Late, Token, LocalSlot, RecordCount, RecordCost, Post
  <2>2. w \in Nat  BY WeightIs
  <2> HIDE DEF w
  <2> QED  BY <1>0, <2>1, <2>2 DEF TypeOK
<1>10. consumed' \subseteq 1..MaxPuts
  <2>1. UNCHANGED consumed \/ (pc[f] = "cache_del" /\ consumed' = consumed \cup {loc[f].page})
    BY DEF Step, CacheGet, CacheDelete, Direct, RenderBegin, RenderEnd, ProxyOff,
         BudgetCounts, BudgetCosts, Late, Token, LocalSlot, RecordCount, RecordCost, Post
  <2>2. loc[f].page \in 0..MaxPuts /\ MaxPuts \in Nat  BY <1>0, FieldsOf, FetchAssumption
  <2>3. pc[f] = "cache_del" => loc[f].page \in 1..MaxPuts  BY <1>0, <2>2 DEF Reached
  <2> QED  BY <1>0, <2>1, <2>3 DEF TypeOK
<1> QED  BY <1>1, <1>2, <1>3, <1>4, <1>5, <1>6, <1>7, <1>8, <1>9, <1>10

NoLocalsTyped == NoLocals \in Locals

LEMMA StartTyped == NoLocalsTyped /\ NoLocals.layers = <<>> /\ NoLocals.page = 0
<1>1. 1 \in 1..Attempts /\ 0 \in 0..MaxPuts /\ 0 \in Day /\ MaxPuts \in Nat
  BY FetchAssumption, LimiterAssumption DEF Day
<1>2. NoCounters \in [Day -> Nat \cup {NoKey}]  BY DEF NoCounters
<1>3. "raw" \in AllKinds /\ "none" \in Outcomes /\ <<>> \in Seq(Layer)  BY DEF AllKinds, Outcomes
<1>4. NoLocals \in Locals  BY <1>1, <1>2, <1>3, ZenonT(20) DEF NoLocals, Locals
<1> QED  BY <1>4 DEF NoLocalsTyped, NoLocals

LEMMA CallTurns ==
    ASSUME FetchTyped, NEW f \in Fetcher, NEW kind \in AllKinds, Call(f, kind)
    PROVE  \E step \in Ready \cup {"cache_get"}, l \in Locals : Turns(f, step, l)
<1>0. /\ TypeOK /\ mode \in AllModes /\ consumed \subseteq 1..MaxPuts  BY DEF FetchTyped, TypeOK
<1>1. PICK noJs \in BOOLEAN, requiresJs \in BOOLEAN, deadline \in BOOLEAN :
        LET layers == IF kind \in {"static", "sitemap"} THEN StaticLayers ELSE LayerOrder(requiresJs, noJs)
            l == [NoLocals EXCEPT !.kind = kind, !.layers = layers, !.before = consumed, !.deadline = deadline,
                                  !.out = IF layers = <<>> THEN "failed" ELSE "none"]
        IN  /\ kind # "listing" => ~deadline /\ ~noJs
            /\ deadline => ~noJs
            /\ kind \in {"static", "sitemap"} => ~requiresJs
            /\ IF kind = "listing"
               THEN loc' = [loc EXCEPT ![f] = [l EXCEPT !.out = "none"]]
                    /\ pc' = [pc EXCEPT ![f] = "cache_get"]
               ELSE Goto(f, l)
  BY ZenonT(60) DEF Call
<1> DEFINE layers == IF kind \in {"static", "sitemap"} THEN StaticLayers ELSE LayerOrder(requiresJs, noJs)
           out == IF layers = <<>> THEN "failed" ELSE "none"
           l == [NoLocals EXCEPT !.kind = kind, !.layers = layers, !.before = consumed, !.deadline = deadline, !.out = out]
           m == [l EXCEPT !.out = "none"]
<1>2. IF kind = "listing" THEN loc' = [loc EXCEPT ![f] = m] /\ pc' = [pc EXCEPT ![f] = "cache_get"] ELSE Goto(f, l)
  BY <1>1
<1>3. layers \in Seq(Layer)  BY <1>0, OrderTyped
<1>4. out \in Outcomes /\ "none" \in Outcomes  BY DEF Outcomes
<1> HIDE DEF layers, out
<1>5. l \in Locals
  <2>1. NoLocals \in Locals  BY StartTyped DEF NoLocalsTyped
  <2> QED  BY <1>0, <1>3, <1>4, <2>1, ZenonT(30) DEF Locals
<1> HIDE DEF l
<1>6. m \in Locals  BY <1>4, <1>5, OutTyped
<1> HIDE DEF m
<1>7. CASE kind = "listing"
  <2>1. Reached("cache_get", m) /\ "cache_get" \in PCs  BY DEF Reached, PaidPlaces, PCs
  <2>2. Turns(f, "cache_get", m)  BY <1>0, <1>2, <1>6, <1>7, <2>1, JumpTurns
  <2> QED  BY <1>6, <2>2
<1>8. CASE kind # "listing"  BY <1>0, <1>2, <1>5, <1>8, GotoTurns
<1> QED  BY <1>7, <1>8

LEMMA TurnsReach ==
    ASSUME FetchTyped, NEW f \in Fetcher, NEW step, NEW l, Turns(f, step, l)
    PROVE  /\ loc' \in [Fetcher -> Locals] /\ pc' \in [Fetcher -> PCs]
           /\ \A g \in Fetcher : Reached(pc'[g], loc'[g])
BY DEF Turns, FetchTyped

LEMMA FetchTypedStep ==
    ASSUME FetchTyped, FetchInv, FetchInv', Next
    PROVE  FetchTyped'
<1>0. /\ TypeOK /\ {MaxFetches, MaxClock, MaxPuts, MaxFaults} \subseteq Nat /\ CycleDays \in Nat /\ Capacity \in Nat
      /\ bucket.last \in Nat /\ bucket.last <= clock /\ (browser.open \/ browser.pages = 0) /\ cache <= puts
      /\ \A g \in Fetcher : Reached(pc[g], loc[g])
  <2>1. CycleDays \in Nat /\ Capacity \in Nat /\ {MaxFetches, MaxClock, MaxPuts, MaxFaults} \subseteq Nat
    BY FetchAssumption, LimiterAssumption
  <2> QED  BY <2>1 DEF FetchTyped, TypeOK
<1>1. CASE \E f \in Fetcher : Step(f)
  <2>1. PICK f \in Fetcher : Step(f)  BY <1>1
  <2>2. PICK step \in PCs, l \in Locals : Turns(f, step, l)  BY <2>1, StepTurns
  <2>3. /\ UNCHANGED <<mode, configured, day, clock, puts, fetches>>
        /\ counts' \in [Day -> Nat \cup {NoKey}] /\ costs' \in [Day -> Nat \cup {NoKey}]
        /\ bucket' \in [tokens : 0..Capacity, last : 0..MaxClock] /\ bucket'.last <= clock
        /\ cache' \in {0, cache}
        /\ browser' \in [user : Fetcher \cup {NoOne}, open : BOOLEAN, pages : 0..MaxPages]
        /\ browser'.open \/ browser'.pages = 0
        /\ faults' \in 0..MaxFaults
        /\ granted' \in Nat /\ billed' \in Nat /\ excused' \in Nat /\ consumed' \subseteq 1..MaxPuts
    BY <2>1, StepRest
  <2>4. loc' \in [Fetcher -> Locals] /\ pc' \in [Fetcher -> PCs] /\ \A g \in Fetcher : Reached(pc'[g], loc'[g])
    BY <2>2, TurnsReach
  <2>5. cache' \in 0..MaxPuts /\ cache' <= puts'  BY <1>0, <2>3 DEF TypeOK
  <2> QED  BY <1>0, <2>3, <2>4, <2>5 DEF FetchTyped, TypeOK
<1>2. CASE \E f \in Fetcher, kind \in AllKinds : Call(f, kind)
  <2>1. PICK f \in Fetcher, kind \in AllKinds : Call(f, kind)  BY <1>2
  <2>2. \E step \in Ready \cup {"cache_get"}, l \in Locals : Turns(f, step, l)  BY <2>1, CallTurns
  <2>3. loc' \in [Fetcher -> Locals] /\ pc' \in [Fetcher -> PCs] /\ \A g \in Fetcher : Reached(pc'[g], loc'[g])
    BY <2>2, TurnsReach
  <2>4. fetches' \in 0..MaxFetches  BY <1>0, <2>1 DEF Call, TypeOK
  <2>5. UNCHANGED <<mode, configured, day, clock, counts, costs, bucket, cache, browser, puts, faults,
                    granted, billed, excused, consumed>>
    BY <2>1 DEF Call, environment, ledger
  <2> QED  BY <1>0, <2>3, <2>4, <2>5 DEF FetchTyped, TypeOK
<1>3. CASE PutPage \/ TimePasses \/ NextDay
  <2>1. UNCHANGED <<mode, configured, pc, loc, counts, costs, bucket, browser, fetches, faults,
                    granted, billed, excused, consumed>>
    BY <1>3 DEF PutPage, TimePasses, NextDay, environment, ledger
  <2>2. day' \in Day
    <3>1. day \in Day /\ CycleDays \in Nat  BY <1>0 DEF TypeOK
    <3>2. day' = day \/ (day < CycleDays - 1 /\ day' = day + 1)  BY <1>3 DEF PutPage, TimePasses, NextDay
    <3> QED  BY <3>1, <3>2 DEF Day
  <2>3. clock' \in 0..MaxClock /\ clock' >= clock
    BY <1>0, <1>3 DEF PutPage, TimePasses, NextDay, TypeOK
  <2>4. puts' \in 0..MaxPuts /\ cache' \in 0..MaxPuts /\ cache' <= puts'
    BY <1>0, <1>3 DEF PutPage, TimePasses, NextDay, TypeOK
  <2>5. bucket'.last <= clock'  BY <1>0, <2>1, <2>3 DEF TypeOK
  <2> QED  BY <1>0, <2>1, <2>2, <2>3, <2>4, <2>5 DEF FetchTyped, TypeOK
<1> QED  BY <1>1, <1>2, <1>3 DEF Next

LEMMA FetchTypedStart == ASSUME Init PROVE FetchTyped
<1>0. /\ Capacity \in Nat /\ {MaxFetches, MaxClock, MaxPuts, MaxFaults} \subseteq Nat /\ MaxPages \in Nat
      /\ 0 \in Day
  BY FetchAssumption, LimiterAssumption DEF Day
<1>1. loc = [f \in Fetcher |-> NoLocals] /\ NoLocals \in Locals  BY StartTyped DEF NoLocalsTyped, Init
<1>2. pc = [f \in Fetcher |-> "idle"] /\ "idle" \in PCs  BY DEF Init, PCs
<1>3. loc \in [Fetcher -> Locals] /\ pc \in [Fetcher -> PCs]  BY <1>1, <1>2
<1>4. \A f \in Fetcher : Reached(pc[f], loc[f])  BY <1>2 DEF Reached, PaidPlaces
<1>5. NoCounters \in [Day -> Nat \cup {NoKey}]  BY DEF NoCounters
<1>6. mode \in AllModes /\ configured \in BOOLEAN  BY FetchAssumption DEF Init
<1>7. bucket \in [tokens : 0..Capacity, last : 0..MaxClock] /\ bucket.last = 0  BY <1>0 DEF Init
<1>8. browser \in [user : Fetcher \cup {NoOne}, open : BOOLEAN, pages : 0..MaxPages] /\ browser.pages = 0  BY <1>0 DEF Init
<1> QED  BY <1>0, <1>3, <1>4, <1>5, <1>6, <1>7, <1>8 DEF FetchTyped, TypeOK, Init

-----------------------------------------------------------------------------
(***************************************************************************)
(* The budget of the cycle.  A fetch that passed the guard, or will pass   *)
(* it with what it has read, holds its cost; between the note of its cost  *)
(* and the bill it is due.                                                 *)
(***************************************************************************)
Paid == [d \in Day |-> IF costs[d] = NoKey THEN 0 ELSE costs[d]]
Spent == SumBefore(CycleDays, Paid)

Js(f) == Head(loc[f].layers).js
Cost(f) == Weight(Js(f))

Admitted(f) ==
    \/ pc[f] \in {"token", "again", "count", "cost"}
    \/ pc[f] = "costs" /\ SumBefore(loc[f].today + 1, Paid) < MonthlyCap * JsWeight

Ahead(js) == {f \in Fetcher : Admitted(f) /\ Js(f) = js}
Due(js) == {f \in Fetcher : pc[f] = "post" /\ Js(f) = js}

Worth(s, t) == JsWeight * Cardinality(s) + NoJsWeight * Cardinality(t)
Held == Worth(Ahead(TRUE), Ahead(FALSE))
Owed == Worth(Due(TRUE), Due(FALSE))

LEMMA WorthIs ==
    ASSUME NEW s \in SUBSET Fetcher, NEW t \in SUBSET Fetcher
    PROVE  Worth(s, t) \in Nat /\ Cardinality(s) \in Nat /\ Cardinality(t) \in Nat
<1>1. IsFiniteSet(s) /\ IsFiniteSet(t)  BY FS_Subset, FetchAssumption
<1>2. Cardinality(s) \in Nat /\ Cardinality(t) \in Nat  BY <1>1, FS_CardinalityType
<1>3. JsWeight \in Nat /\ NoJsWeight \in Nat  BY LimiterAssumption
<1>4. JsWeight * Cardinality(s) \in Nat /\ NoJsWeight * Cardinality(t) \in Nat  BY <1>2, <1>3
<1> QED  BY <1>2, <1>4 DEF Worth

\* What one fetch has a share in, without it.
LEMMA ShareOf ==
    ASSUME NEW s \in SUBSET Fetcher, NEW t \in SUBSET Fetcher, NEW f, ~(f \in s /\ f \in t)
    PROVE  Worth(s, t) = Worth(s \ {f}, t \ {f}) + (IF f \in s THEN JsWeight ELSE IF f \in t THEN NoJsWeight ELSE 0)
<1>1. IsFiniteSet(s) /\ IsFiniteSet(t)  BY FS_Subset, FetchAssumption
<1> DEFINE m == Cardinality(s)
           n == Cardinality(t)
<1>2. /\ m \in Nat /\ n \in Nat /\ Cardinality(s \ {f}) \in Nat /\ Cardinality(t \ {f}) \in Nat
      /\ m = Cardinality(s \ {f}) + (IF f \in s THEN 1 ELSE 0)
      /\ n = Cardinality(t \ {f}) + (IF f \in t THEN 1 ELSE 0)
  <2>1. m \in Nat /\ n \in Nat  BY <1>1, FS_CardinalityType
  <2>2. IsFiniteSet(s \ {f}) /\ IsFiniteSet(t \ {f})  BY <1>1, FS_RemoveElement
  <2>3. Cardinality(s \ {f}) \in Nat /\ Cardinality(t \ {f}) \in Nat  BY <2>2, FS_CardinalityType
  <2>4. Cardinality(s \ {f}) = IF f \in s THEN m - 1 ELSE m  BY <1>1, FS_RemoveElement
  <2>5. Cardinality(t \ {f}) = IF f \in t THEN n - 1 ELSE n  BY <1>1, FS_RemoveElement
  <2> HIDE DEF m, n
  <2> QED  BY <2>1, <2>3, <2>4, <2>5
<1>3. JsWeight \in Nat /\ NoJsWeight \in Nat  BY LimiterAssumption
<1>4. ASSUME NEW k \in Nat, NEW a \in Nat PROVE a * (k + 1) = a * k + a /\ a * (k + 0) = a * k /\ a * k \in Nat
  BY SMTT(30)
<1> DEFINE p == Cardinality(s \ {f})
           q == Cardinality(t \ {f})
<1>5. Worth(s, t) = JsWeight * m + NoJsWeight * n /\ Worth(s \ {f}, t \ {f}) = JsWeight * p + NoJsWeight * q
  BY DEF Worth
<1>6. p \in Nat /\ q \in Nat /\ m = p + (IF f \in s THEN 1 ELSE 0) /\ n = q + (IF f \in t THEN 1 ELSE 0)  BY <1>2
<1> HIDE DEF m, n, p, q
<1>7. JsWeight * m = JsWeight * p + (IF f \in s THEN JsWeight ELSE 0)
  <2>1. CASE f \in s  BY <1>3, <1>4, <1>6, <2>1
  <2>2. CASE f \notin s  BY <1>3, <1>4, <1>6, <2>2
  <2> QED  BY <2>1, <2>2
<1>8. NoJsWeight * n = NoJsWeight * q + (IF f \in t THEN NoJsWeight ELSE 0)
  <2>1. CASE f \in t  BY <1>3, <1>4, <1>6, <2>1
  <2>2. CASE f \notin t  BY <1>3, <1>4, <1>6, <2>2
  <2> QED  BY <2>1, <2>2
<1>9. JsWeight * p \in Nat /\ NoJsWeight * q \in Nat  BY <1>3, <1>4, <1>6
<1> QED  BY <1>3, <1>5, <1>7, <1>8, <1>9

LEMMA WorthGrows ==
    ASSUME NEW s \in SUBSET Fetcher, NEW t \in SUBSET Fetcher, NEW r \in SUBSET s, NEW u \in SUBSET t
    PROVE  Worth(r, u) <= Worth(s, t)
<1>1. IsFiniteSet(s) /\ IsFiniteSet(t)  BY FS_Subset, FetchAssumption
<1>2. Cardinality(r) <= Cardinality(s) /\ Cardinality(u) <= Cardinality(t)  BY <1>1, FS_Subset
<1>3. Cardinality(r) \in Nat /\ Cardinality(u) \in Nat /\ Cardinality(s) \in Nat /\ Cardinality(t) \in Nat
  BY WorthIs
<1>4. JsWeight \in Nat /\ NoJsWeight \in Nat  BY LimiterAssumption
<1>5. ASSUME NEW a \in Nat, NEW b \in Nat, NEW c \in Nat, a <= b PROVE c * a <= c * b /\ c * a \in Nat /\ c * b \in Nat
  <2>1. a * c \in Nat /\ b * c \in Nat /\ (b - a) * c \in Nat /\ a * c + (b - a) * c = b * c  BY <1>5, Spread
  <2>2. a * c = c * a /\ b * c = c * b  OBVIOUS
  <2> QED  BY <2>1, <2>2
<1> DEFINE w == JsWeight * Cardinality(r)
           x == JsWeight * Cardinality(s)
           y == NoJsWeight * Cardinality(u)
           z == NoJsWeight * Cardinality(t)
<1>6. w <= x /\ w \in Nat /\ x \in Nat  BY <1>2, <1>3, <1>4, <1>5
<1>7. y <= z /\ y \in Nat /\ z \in Nat  BY <1>2, <1>3, <1>4, <1>5
<1>8. Worth(r, u) = w + y /\ Worth(s, t) = x + z  BY DEF Worth
<1> HIDE DEF w, x, y, z
<1> QED  BY <1>6, <1>7, <1>8

\* Fetches hold no more than a JS request each.
LEMMA WorthOfAll ==
    ASSUME NEW s \in SUBSET Fetcher, NEW t \in SUBSET Fetcher, s \cap t = {}
    PROVE  /\ JsWeight * Cardinality(Fetcher) \in Nat
           /\ Worth(s, t) <= JsWeight * Cardinality(Fetcher)
<1>1. IsFiniteSet(s) /\ IsFiniteSet(t) /\ IsFiniteSet(Fetcher)  BY FS_Subset, FetchAssumption
<1> DEFINE m == Cardinality(s)
           n == Cardinality(t)
           k == Cardinality(Fetcher)
<1>2. m + n <= k /\ m \in Nat /\ n \in Nat /\ k \in Nat
  <2>1. Cardinality(s \cup t) = Cardinality(s) + Cardinality(t) - Cardinality(s \cap t)  BY <1>1, FS_Union
  <2>2. Cardinality(s \cap t) = 0  BY FS_EmptySet
  <2>3. Cardinality(s \cup t) <= Cardinality(Fetcher)  BY <1>1, FS_Subset
  <2>4. Cardinality(s) \in Nat /\ Cardinality(t) \in Nat /\ Cardinality(Fetcher) \in Nat  BY <1>1, FS_CardinalityType
  <2> QED  BY <2>1, <2>2, <2>3, <2>4
<1>3. JsWeight \in Nat /\ NoJsWeight \in Nat /\ NoJsWeight <= JsWeight  BY LimiterAssumption
<1>4. Worth(s, t) = JsWeight * m + NoJsWeight * n  BY DEF Worth
<1> HIDE DEF m, n, k
<1>5. NoJsWeight * n <= JsWeight * n /\ JsWeight * n \in Nat /\ NoJsWeight * n \in Nat
  <2>1. NoJsWeight * n \in Nat /\ JsWeight * n \in Nat /\ (JsWeight - NoJsWeight) * n \in Nat
        /\ NoJsWeight * n + (JsWeight - NoJsWeight) * n = JsWeight * n
    BY <1>2, <1>3, Spread
  <2> QED  BY <2>1
<1>6. JsWeight * m + JsWeight * n <= JsWeight * k /\ JsWeight * m \in Nat /\ JsWeight * k \in Nat
  <2>1. m + n \in Nat  BY <1>2
  <2>2. (m + n) * JsWeight \in Nat /\ k * JsWeight \in Nat /\ (k - (m + n)) * JsWeight \in Nat
        /\ (m + n) * JsWeight + (k - (m + n)) * JsWeight = k * JsWeight
    BY <1>2, <1>3, <2>1, Spread
  <2>3. (m + n) * JsWeight = m * JsWeight + n * JsWeight /\ m * JsWeight = JsWeight * m
        /\ n * JsWeight = JsWeight * n /\ k * JsWeight = JsWeight * k /\ JsWeight * m \in Nat
    BY <1>2, <1>3, SMTT(30)
  <2> QED  BY <1>5, <2>2, <2>3
<1>7. JsWeight * Cardinality(Fetcher) = JsWeight * k  BY DEF k
<1> DEFINE a == JsWeight * m
           b == NoJsWeight * n
           c == JsWeight * n
           d == JsWeight * k
<1>8. Worth(s, t) = a + b /\ b <= c /\ a + c <= d /\ a \in Nat /\ b \in Nat /\ c \in Nat /\ d \in Nat
  BY <1>4, <1>5, <1>6
<1> HIDE DEF a, b, c, d
<1>9. Worth(s, t) <= d /\ d \in Nat  BY <1>8
<1> QED  BY <1>7, <1>9 DEF d

Unpaid == Ready \cup {"cache_get", "cache_del", "render"}

\* What a step of a fetch means for the bill.
Pays(f) ==
    \/ /\ pc'[f] \in Unpaid
       /\ UNCHANGED <<costs, excused>>
       /\ billed' = billed + (IF pc[f] = "post" THEN Cost(f) ELSE 0)
    \/ /\ pc[f] \in PaidPlaces \ {"post"} /\ Js(f)' = Js(f) /\ UNCHANGED billed
       /\ \/ pc'[f] = "costs" /\ loc'[f].today = day /\ UNCHANGED <<costs, excused>>
          \/ pc'[f] = "token" /\ UNCHANGED <<costs, excused>> /\ Admitted(f)
          \/ pc'[f] \in {"token", "post"} /\ UNCHANGED costs /\ excused' = excused + Cost(f)
          \/ /\ pc'[f] \in {"count", "again", "fallback", "cost"} /\ UNCHANGED <<costs, excused>>
             /\ pc[f] \in {"token", "again", "count"} /\ (pc'[f] = "cost" => loc'[f].today = day)
          \/ /\ pc[f] = "cost" /\ pc'[f] = "post" /\ UNCHANGED excused
             /\ costs' = Bumped(costs, loc[f].today, Cost(f))

\* The guard lets a fetch pass only while the budget is not spent.
LEMMA GuardIs ==
    ASSUME MonthlyCap > 0, costs \in [Day -> Nat \cup {NoKey}], NEW read \in [Day -> Nat \cup {NoKey}], NEW today \in Day,
           ~Exhausted(today, read, costs)
    PROVE  SumBefore(today + 1, Paid) < MonthlyCap * JsWeight
<1> DEFINE u == [d \in Day |-> PerDay(read[d], costs[d])]
           b == MonthlyCap * JsWeight
<1>0. JsWeight \in Nat /\ MonthlyCap \in Nat /\ b \in Nat  BY LimiterAssumption
<1>1. \A d \in Day : PerDay(read[d], costs[d]) \in Nat /\ Paid[d] <= PerDay(read[d], costs[d]) /\ Paid[d] \in Nat
  <2>1. ASSUME NEW d \in Day
        PROVE  PerDay(read[d], costs[d]) \in Nat /\ Paid[d] <= PerDay(read[d], costs[d]) /\ Paid[d] \in Nat
    <3>1. costs[d] \in Nat \cup {NoKey} /\ read[d] \in Nat \cup {NoKey} /\ NoKey \notin Nat  BY DEF NoKey
    <3>2. Paid[d] = IF costs[d] = NoKey THEN 0 ELSE costs[d]  BY DEF Paid
    <3>3. CASE costs[d] # NoKey  BY <3>1, <3>2, <3>3 DEF PerDay
    <3>4. CASE costs[d] = NoKey
      <4>1. read[d] # NoKey => read[d] * JsWeight \in Nat  BY <1>0, <3>1
      <4>2. PerDay(read[d], costs[d]) = IF read[d] # NoKey THEN read[d] * JsWeight ELSE 0  BY <3>4 DEF PerDay
      <4> QED  BY <3>2, <3>4, <4>1, <4>2
    <3> QED  BY <3>3, <3>4
  <2> QED  BY <2>1
<1>2. u \in Usages /\ Paid \in Usages /\ \A d \in Day : Paid[d] <= u[d]  BY <1>1 DEF Usages, Paid
<1>3. UsedBefore(today, read, costs) = SumBefore(today, u)  BY DEF UsedBefore
<1>4. PerDay(read[today], costs[today]) = u[today]  OBVIOUS
<1>5. ~(UsedBefore(today, read, costs) + PerDay(read[today], costs[today]) >= b)
  BY DEF Exhausted
<1>6. today \in 0..CycleDays /\ today + 1 \in 0..CycleDays  BY LimiterAssumption DEF Day
<1> HIDE DEF u, b
<1>7. SumBefore(today + 1, u) = SumBefore(today, u) + u[today]  BY <1>2, SumIs
<1>8. SumBefore(today + 1, Paid) <= SumBefore(today + 1, u)  BY <1>2, <1>6, SumGrows
<1>9. SumBefore(today + 1, u) \in Nat /\ SumBefore(today + 1, Paid) \in Nat  BY <1>2, <1>6, SumIs
<1>10. SumBefore(today + 1, Paid) < b  BY <1>0, <1>3, <1>4, <1>5, <1>7, <1>8, <1>9
<1> QED  BY <1>10 DEF b

LEMMA StepPays ==
    ASSUME FetchTyped, MonthlyCap > 0, NEW f \in Fetcher, Step(f)
    PROVE  Pays(f)
<1>0. /\ TypeOK /\ loc[f] \in Locals /\ mode \in AllModes /\ Reached(pc[f], loc[f])
      /\ loc \in [Fetcher -> Locals] /\ pc \in [Fetcher -> PCs]
  BY DEF FetchTyped, TypeOK
<1>g. ASSUME NEW r \in Locals, Goto(f, r) PROVE pc'[f] \in Ready
  BY <1>0, <1>g, GotoTurns DEF Turns
<1>m. ASSUME Miss(f) PROVE pc'[f] \in Ready
  <2> DEFINE out == IF loc[f].layers = <<>> THEN "failed" ELSE "none"
  <2>1. out \in Outcomes  BY DEF Outcomes
  <2>2. Goto(f, [loc[f] EXCEPT !.out = out])  BY <1>m DEF Miss
  <2> HIDE DEF out
  <2> QED  BY <1>0, <1>g, <2>1, <2>2, OutTyped
<1>a. ASSUME loc[f].layers # <<>>, \E l \in Answers(loc[f]) : Goto(f, l) PROVE pc'[f] \in Ready
  BY <1>0, <1>a, <1>g, AnswersTyped
<1>b. ASSUME loc[f].layers # <<>>, NEW code, Goto(f, Refused(loc[f], code)) PROVE pc'[f] \in Ready
  BY <1>0, <1>b, <1>g, RefusedTyped
<1>6. ASSUME pc[f] \in PaidPlaces PROVE loc[f].layers # <<>>  BY <1>0, <1>6 DEF Reached, At
<1>q. ASSUME pc'[f] \in Unpaid, UNCHANGED <<costs, excused, billed>>, pc[f] # "post" PROVE Pays(f)
  <2>1. billed' = billed + 0  BY <1>0, <1>q DEF TypeOK
  <2> QED  BY <1>q, <2>1 DEF Pays
<1>1. CASE CacheGet(f)
  <2>1. pc[f] # "post" /\ UNCHANGED <<costs, excused, billed>>  BY <1>1 DEF CacheGet, ledger
  <2>2. Miss(f) \/ pc' = [pc EXCEPT ![f] = "cache_del"]  BY <1>1 DEF CacheGet
  <2> QED  BY <1>0, <1>m, <1>q, <2>1, <2>2 DEF Unpaid
<1>2. CASE CacheDelete(f)
  <2>1. pc[f] # "post" /\ UNCHANGED <<costs, excused, billed>>  BY <1>2 DEF CacheDelete, ledger
  <2>2. Miss(f) \/ Goto(f, [loc[f] EXCEPT !.out = "html"])  BY <1>2 DEF CacheDelete
  <2>3. "html" \in Outcomes  BY DEF Outcomes
  <2>4. pc'[f] \in Ready  BY <1>0, <1>g, <1>m, <2>2, <2>3, OutTyped
  <2> QED  BY <1>q, <2>1, <2>4 DEF Unpaid
<1>3. CASE Direct(f)
  <2>1. pc[f] # "post" /\ UNCHANGED <<costs, excused, billed>>  BY <1>3 DEF Direct, ledger
  <2>2. loc[f].layers # <<>>  BY <1>0, <1>3 DEF Direct, Reached, At
  <2>3. pc'[f] \in Ready  BY <1>3, <1>a, <2>2 DEF Direct
  <2> QED  BY <1>q, <2>1, <2>3 DEF Unpaid
<1>4. CASE RenderBegin(f)
  <2>1. pc[f] # "post" /\ UNCHANGED <<costs, excused, billed>>  BY <1>4 DEF RenderBegin, ledger
  <2>2. loc[f].layers # <<>>  BY <1>0, <1>4 DEF RenderBegin, Reached, At
  <2>3. pc' = [pc EXCEPT ![f] = "render"] \/ \E code \in BrowserErrors : Goto(f, Refused(loc[f], code))
    BY <1>4 DEF RenderBegin
  <2>4. pc'[f] \in Ready \cup {"render"}  BY <1>0, <1>b, <2>2, <2>3
  <2> QED  BY <1>q, <2>1, <2>4 DEF Unpaid
<1>5. CASE RenderEnd(f)
  <2>1. pc[f] # "post" /\ UNCHANGED <<costs, excused, billed>>  BY <1>5 DEF RenderEnd, ledger
  <2>2. loc[f].layers # <<>>  BY <1>0, <1>5 DEF RenderEnd, Reached, At
  <2>3. (\E l \in Answers(loc[f]) : Goto(f, l)) \/ \E code \in BrowserErrors : Goto(f, Refused(Asked(loc[f]), code))
    BY <1>5 DEF RenderEnd
  <2>4. Asked(loc[f]) \in Locals /\ Asked(loc[f]).layers # <<>>  BY <1>0, <2>2, AskedTyped
  <2>5. pc'[f] \in Ready  BY <1>0, <1>a, <1>g, <2>2, <2>3, <2>4, RefusedTyped
  <2> QED  BY <1>q, <2>1, <2>5 DEF Unpaid
<1>7. CASE ProxyOff(f)
  <2>1. pc[f] # "post" /\ UNCHANGED <<costs, excused, billed>> /\ pc[f] \in PaidPlaces
    BY <1>7 DEF ProxyOff, ledger, PaidPlaces
  <2>2. pc'[f] \in Ready  BY <1>7, <1>b, <1>6, <2>1 DEF ProxyOff
  <2> QED  BY <1>q, <2>1, <2>2 DEF Unpaid
<1>10. CASE Late(f)
  <2>1. pc[f] # "post" /\ UNCHANGED <<costs, excused, billed>> /\ pc[f] \in PaidPlaces
    BY <1>10 DEF Late, ledger, PaidPlaces
  <2>2. pc'[f] \in Ready  BY <1>10, <1>b, <1>6, <2>1 DEF Late
  <2> QED  BY <1>q, <2>1, <2>2 DEF Unpaid
<1>15. CASE Post(f)
  <2>1. pc[f] = "post" /\ pc[f] \in PaidPlaces /\ UNCHANGED <<costs, excused>> /\ billed' = billed + Cost(f)
    BY <1>15 DEF Post, ledger, PaidPlaces, Cost, Js
  <2>2. pc'[f] \in Ready  BY <1>15, <1>a, <1>6, <2>1 DEF Post
  <2> QED  BY <2>1, <2>2 DEF Pays, Unpaid
<1>j. \A r : Jump(f, r) => pc'[f] = r /\ loc' = loc  BY <1>0 DEF Jump
<1>s. ASSUME loc'[f].layers = loc[f].layers PROVE Js(f)' = Js(f)  BY <1>s DEF Js
<1>8. CASE BudgetCounts(f)
  <2>1. pc[f] = "budget" /\ pc[f] \in PaidPlaces \ {"post"} /\ UNCHANGED <<billed, costs>>  BY <1>8 DEF BudgetCounts, PaidPlaces, ledger
  <2>2. CASE Jump(f, "token") /\ Unguarded(f)
    <3>1. pc'[f] = "token" /\ Js(f)' = Js(f) /\ excused' = excused + Cost(f)
      BY <1>j, <1>s, <2>2 DEF Unguarded, Excuse, Cost, Js
    <3> QED  BY <2>1, <3>1 DEF Pays
  <2>3. CASE ~(Jump(f, "token") /\ Unguarded(f))
    <3>1. pc' = [pc EXCEPT ![f] = "costs"] /\ loc' = [loc EXCEPT ![f].read = counts, ![f].today = day] /\ UNCHANGED excused
      BY <1>8, <2>3 DEF BudgetCounts
    <3> DEFINE l == [[loc[f] EXCEPT !.read = counts] EXCEPT !.today = day]
    <3>2. loc'[f] = l /\ pc'[f] = "costs"  BY <1>0, <3>1
    <3>3. l.layers = loc[f].layers /\ l.today = day  BY <1>0 DEF Locals
    <3> HIDE DEF l
    <3>4. Js(f)' = Js(f)  BY <1>s, <3>2, <3>3
    <3> QED  BY <2>1, <3>1, <3>2, <3>3, <3>4 DEF Pays
  <2> QED  BY <2>2, <2>3
<1>9. CASE BudgetCosts(f)
  <2>1. pc[f] = "costs" /\ pc[f] \in PaidPlaces \ {"post"} /\ UNCHANGED <<billed, costs>>  BY <1>9 DEF BudgetCosts, PaidPlaces, ledger
  <2>l. ASSUME loc' = [loc EXCEPT ![f].read = NoCounters, ![f].today = 0] PROVE Js(f)' = Js(f)
    <3> DEFINE l == [loc[f] EXCEPT !.read = NoCounters, !.today = 0]
    <3>1. loc'[f] = l  BY <1>0, <2>l
    <3>2. l.layers = loc[f].layers  BY <1>0 DEF Locals
    <3> HIDE DEF l
    <3> QED  BY <1>s, <3>1, <3>2
  <2>2. CASE /\ pc' = [pc EXCEPT ![f] = "token"] /\ Unguarded(f)
             /\ loc' = [loc EXCEPT ![f].read = NoCounters, ![f].today = 0]
    <3>1. pc'[f] = "token" /\ excused' = excused + Cost(f)  BY <1>0, <2>2 DEF Unguarded, Excuse, Cost, Js
    <3> QED  BY <2>1, <2>2, <2>l, <3>1 DEF Pays
  <2>3. CASE /\ IF Exhausted(loc[f].today, loc[f].read, costs)
                THEN Goto(f, [Refused(loc[f], "budget") EXCEPT !.read = NoCounters, !.today = 0])
                ELSE /\ pc' = [pc EXCEPT ![f] = "token"]
                     /\ loc' = [loc EXCEPT ![f].read = NoCounters, ![f].today = 0]
             /\ UNCHANGED <<faults, excused>>
    <3>1. CASE Exhausted(loc[f].today, loc[f].read, costs)
      <4>1. Refused(loc[f], "budget") \in Locals  BY <1>0, <1>6, <2>1, RefusedTyped
      <4>2. NoCounters \in [Day -> Nat \cup {NoKey}] /\ 0 \in Day  BY LimiterAssumption DEF NoCounters, Day
      <4>3. [Refused(loc[f], "budget") EXCEPT !.read = NoCounters, !.today = 0] \in Locals
        BY <4>1, <4>2, ZenonT(20) DEF Locals
      <4>4. pc'[f] \in Ready  BY <1>g, <2>3, <3>1, <4>3
      <4> QED  BY <1>q, <2>1, <2>3, <4>4 DEF Unpaid
    <3>2. CASE ~Exhausted(loc[f].today, loc[f].read, costs)
      <4>1. costs \in [Day -> Nat \cup {NoKey}] /\ loc[f].read \in [Day -> Nat \cup {NoKey}] /\ loc[f].today \in Day
        BY <1>0, FieldsOf DEF TypeOK
      <4>2. SumBefore(loc[f].today + 1, Paid) < MonthlyCap * JsWeight  BY <3>2, <4>1, GuardIs
      <4>3. Admitted(f)  BY <2>1, <4>2 DEF Admitted
      <4>4. pc'[f] = "token"  BY <1>0, <2>3, <3>2
      <4> QED  BY <2>1, <2>3, <2>l, <3>2, <4>3, <4>4 DEF Pays
    <3> QED  BY <3>1, <3>2
  <2> QED  BY <1>9, <2>2, <2>3 DEF BudgetCosts
<1>11. CASE Token(f)
  <2>1. pc[f] \in {"token", "again"} /\ pc[f] \in PaidPlaces \ {"post"} /\ UNCHANGED <<billed, costs, excused>>
    BY <1>11 DEF Token, PaidPlaces, ledger
  <2>2. CASE Goto(f, Refused(loc[f], "deadline"))
    <3>1. pc'[f] \in Ready  BY <1>b, <1>6, <2>1, <2>2
    <3> QED  BY <1>q, <2>1, <3>1 DEF Unpaid
  <2>3. CASE ~Goto(f, Refused(loc[f], "deadline"))
    <3>1. Jump(f, "count") \/ Jump(f, "again") \/ Jump(f, "fallback")  BY <1>11, <2>3 DEF Token
    <3>2. pc'[f] \in {"count", "again", "fallback"} /\ Js(f)' = Js(f)  BY <1>j, <1>s, <3>1
    <3> QED  BY <2>1, <3>2 DEF Pays
  <2> QED  BY <2>2, <2>3
<1>12. CASE LocalSlot(f)
  <2>1. pc[f] = "fallback" /\ pc[f] \in PaidPlaces \ {"post"} /\ UNCHANGED <<billed, costs>>
        /\ excused' = excused + Cost(f) /\ Jump(f, "post")
    BY <1>12 DEF LocalSlot, PaidPlaces, ledger, Excuse, Cost, Js
  <2>2. pc'[f] = "post" /\ Js(f)' = Js(f)  BY <1>j, <1>s, <2>1
  <2> QED  BY <2>1, <2>2 DEF Pays
<1>13. CASE RecordCount(f)
  <2>1. pc[f] = "count" /\ pc[f] \in PaidPlaces \ {"post"} /\ UNCHANGED <<billed, costs>>
    BY <1>13 DEF RecordCount, PaidPlaces
  <2>2. CASE Jump(f, "post") /\ Excuse(f)
    <3>1. pc'[f] = "post" /\ Js(f)' = Js(f) /\ excused' = excused + Cost(f)  BY <1>j, <1>s, <2>2 DEF Excuse, Cost, Js
    <3> QED  BY <2>1, <3>1 DEF Pays
  <2>3. CASE ~(Jump(f, "post") /\ Excuse(f))
    <3>1. loc' = [loc EXCEPT ![f].today = day] /\ pc' = [pc EXCEPT ![f] = "cost"] /\ UNCHANGED excused
      BY <1>13, <2>3 DEF RecordCount
    <3> DEFINE l == [loc[f] EXCEPT !.today = day]
    <3>2. loc'[f] = l /\ pc'[f] = "cost"  BY <1>0, <3>1
    <3>3. l.layers = loc[f].layers /\ l.today = day  BY <1>0 DEF Locals
    <3> HIDE DEF l
    <3>4. Js(f)' = Js(f)  BY <1>s, <3>2, <3>3
    <3> QED  BY <2>1, <3>1, <3>2, <3>3, <3>4 DEF Pays
  <2> QED  BY <2>2, <2>3
<1>14. CASE RecordCost(f)
  <2>1. pc[f] = "cost" /\ pc[f] \in PaidPlaces \ {"post"} /\ UNCHANGED billed  BY <1>14 DEF RecordCost, PaidPlaces
  <2>2. /\ loc' = [loc EXCEPT ![f].today = 0] /\ pc' = [pc EXCEPT ![f] = "post"]
        /\ \/ costs' = Bumped(costs, loc[f].today, Cost(f)) /\ UNCHANGED excused
           \/ UNCHANGED costs /\ excused' = excused + Cost(f)
    <3>1. loc' = [loc EXCEPT ![f].today = 0] /\ pc' = [pc EXCEPT ![f] = "post"]  BY <1>14 DEF RecordCost
    <3> DEFINE w == Weight(Head(loc[f].layers).js)
    <3>2. (costs' = Bumped(costs, loc[f].today, w) /\ UNCHANGED <<faults, excused>>) \/ (Excuse(f) /\ UNCHANGED costs)
      BY <1>14, Zenon DEF RecordCost
    <3>3. w = Cost(f)  BY DEF Cost, Js
    <3>4. Excuse(f) => excused' = excused + w  BY DEF Excuse
    <3> HIDE DEF w
    <3> QED  BY <3>1, <3>2, <3>3, <3>4
  <2> DEFINE l == [loc[f] EXCEPT !.today = 0]
  <2>3. loc'[f] = l /\ pc'[f] = "post"  BY <1>0, <2>2
  <2>4. l.layers = loc[f].layers  BY <1>0 DEF Locals
  <2> HIDE DEF l
  <2>5. Js(f)' = Js(f)  BY <1>s, <2>3, <2>4
  <2> QED  BY <2>1, <2>2, <2>3, <2>5 DEF Pays
<1> QED  BY <1>1, <1>2, <1>3, <1>4, <1>5, <1>7, <1>8, <1>9, <1>10, <1>11, <1>12, <1>13, <1>14, <1>15 DEF Step

\* A fetch that begins owes nothing.
LEMMA CallPays ==
    ASSUME FetchTyped, NEW f \in Fetcher, NEW kind \in AllKinds, Call(f, kind)
    PROVE  Pays(f)
<1>1. PICK step \in Ready \cup {"cache_get"}, l \in Locals : Turns(f, step, l)  BY CallTurns
<1>2. pc'[f] \in Unpaid  BY <1>1, ZenonT(20) DEF Turns, FetchTyped, TypeOK, Unpaid
<1>3. UNCHANGED <<costs, excused, billed>> /\ pc[f] # "post"  BY DEF Call, ledger
<1>4. billed' = billed + 0  BY <1>3 DEF FetchTyped, TypeOK
<1> QED  BY <1>2, <1>3, <1>4 DEF Pays

LEMMA JsIs ==
    FetchTyped => \A f \in Fetcher : pc[f] \in PaidPlaces => Js(f) \in BOOLEAN
<1> SUFFICES ASSUME FetchTyped, NEW f \in Fetcher, pc[f] \in PaidPlaces PROVE Js(f) \in BOOLEAN  OBVIOUS
<1>1. loc[f] \in Locals /\ Reached(pc[f], loc[f])  BY DEF FetchTyped, TypeOK
<1>2. loc[f].layers # <<>> /\ loc[f].layers \in Seq(Layer)  BY <1>1, FieldsOf DEF Reached, At
<1> QED  BY <1>2, LayerIs DEF Js

\* What is due and what is held, without one fetch and its own share.
Shares ==
    \A f \in Fetcher :
        /\ Owed = Worth(Due(TRUE) \ {f}, Due(FALSE) \ {f}) + (IF pc[f] = "post" THEN Cost(f) ELSE 0)
        /\ Held = Worth(Ahead(TRUE) \ {f}, Ahead(FALSE) \ {f}) + (IF Admitted(f) THEN Cost(f) ELSE 0)
        /\ Held <= JsWeight * Cardinality(Fetcher)
        /\ Owed \in Nat /\ Held \in Nat
        /\ Paid \in Usages

LEMMA SharesAre == FetchTyped => Shares
<1> SUFFICES ASSUME FetchTyped, NEW f \in Fetcher
             PROVE  /\ Owed = Worth(Due(TRUE) \ {f}, Due(FALSE) \ {f}) + (IF pc[f] = "post" THEN Cost(f) ELSE 0)
                    /\ Held = Worth(Ahead(TRUE) \ {f}, Ahead(FALSE) \ {f}) + (IF Admitted(f) THEN Cost(f) ELSE 0)
                    /\ Held <= JsWeight * Cardinality(Fetcher)
                    /\ Owed \in Nat /\ Held \in Nat
                    /\ Paid \in Usages
  BY DEF Shares
<1>1. pc[f] \in PaidPlaces => Js(f) \in BOOLEAN  BY JsIs
<1>2. Admitted(f) \/ pc[f] = "post" => pc[f] \in PaidPlaces  BY DEF Admitted, PaidPlaces
<1>3. Owed = Worth(Due(TRUE) \ {f}, Due(FALSE) \ {f}) + (IF pc[f] = "post" THEN Cost(f) ELSE 0)
  <2> DEFINE s == Due(TRUE)
             t == Due(FALSE)
  <2>1. s \in SUBSET Fetcher /\ t \in SUBSET Fetcher /\ ~(f \in s /\ f \in t)  BY DEF Due
  <2>2. (IF f \in s THEN JsWeight ELSE IF f \in t THEN NoJsWeight ELSE 0) = (IF pc[f] = "post" THEN Cost(f) ELSE 0)
    BY <1>1, <1>2 DEF Due, Cost, Weight
  <2>3. Owed = Worth(s, t)  BY DEF Owed
  <2> HIDE DEF s, t
  <2>4. Worth(s, t) = Worth(s \ {f}, t \ {f}) + (IF f \in s THEN JsWeight ELSE IF f \in t THEN NoJsWeight ELSE 0)
    BY <2>1, ShareOf
  <2> QED  BY <2>2, <2>3, <2>4 DEF s, t
<1>4. Held = Worth(Ahead(TRUE) \ {f}, Ahead(FALSE) \ {f}) + (IF Admitted(f) THEN Cost(f) ELSE 0)
  <2> DEFINE s == Ahead(TRUE)
             t == Ahead(FALSE)
  <2>1. s \in SUBSET Fetcher /\ t \in SUBSET Fetcher /\ ~(f \in s /\ f \in t)  BY DEF Ahead
  <2>2. (IF f \in s THEN JsWeight ELSE IF f \in t THEN NoJsWeight ELSE 0) = (IF Admitted(f) THEN Cost(f) ELSE 0)
    BY <1>1, <1>2 DEF Ahead, Cost, Weight
  <2>3. Held = Worth(s, t)  BY DEF Held
  <2> HIDE DEF s, t
  <2>4. Worth(s, t) = Worth(s \ {f}, t \ {f}) + (IF f \in s THEN JsWeight ELSE IF f \in t THEN NoJsWeight ELSE 0)
    BY <2>1, ShareOf
  <2> QED  BY <2>2, <2>3, <2>4 DEF s, t
<1>5. \A b : Ahead(b) \in SUBSET Fetcher /\ Due(b) \in SUBSET Fetcher  BY DEF Ahead, Due
<1>6. Held <= JsWeight * Cardinality(Fetcher)
  <2>1. Ahead(TRUE) \cap Ahead(FALSE) = {}  BY DEF Ahead
  <2> QED  BY <1>5, <2>1, WorthOfAll DEF Held
<1>7. Owed \in Nat /\ Held \in Nat  BY <1>5, WorthIs DEF Owed, Held
<1>8. Paid \in Usages
  <2>1. \A d \in Day : costs[d] \in Nat \cup {NoKey}  BY DEF FetchTyped, TypeOK
  <2> QED  BY <2>1 DEF Paid, Usages
<1> QED  BY <1>3, <1>4, <1>6, <1>7, <1>8

\* What a step of one fetch leaves of the others' shares.
LEMMA OthersKeep ==
    ASSUME FetchTyped, FetchTyped', Shares, Shares', NEW f \in Fetcher, NEW step, NEW l, Turns(f, step, l),
           \A d \in Day : Paid[d] <= Paid'[d]
    PROVE  /\ Worth(Due(TRUE)' \ {f}, Due(FALSE)' \ {f}) = Worth(Due(TRUE) \ {f}, Due(FALSE) \ {f})
           /\ Worth(Ahead(TRUE)' \ {f}, Ahead(FALSE)' \ {f}) <= Worth(Ahead(TRUE) \ {f}, Ahead(FALSE) \ {f})
<1>1. \A g \in Fetcher \ {f} : loc'[g] = loc[g] /\ pc'[g] = pc[g]  BY DEF Turns
<1>2. ASSUME NEW b PROVE Due(b)' \ {f} = Due(b) \ {f}  BY <1>1 DEF Due, Js
<1>3. ASSUME NEW b PROVE Ahead(b)' \ {f} \subseteq Ahead(b) \ {f}
  <2>1. SUFFICES ASSUME NEW g \in Fetcher \ {f}, Admitted(g)', Js(g)' = b PROVE Admitted(g) /\ Js(g) = b  BY DEF Ahead
  <2>2. loc'[g] = loc[g] /\ pc'[g] = pc[g]  BY <1>1
  <2>3. Js(g) = b  BY <2>1, <2>2 DEF Js
  <2>4. CASE pc[g] = "costs"
    <3>1. SumBefore(loc[g].today + 1, Paid') < MonthlyCap * JsWeight  BY <2>1, <2>2, <2>4 DEF Admitted
    <3>2. loc[g].today \in Day  BY FieldsOf DEF FetchTyped, TypeOK
    <3>3. loc[g].today + 1 \in 0..CycleDays  BY <3>2, LimiterAssumption DEF Day
    <3>4. Paid \in Usages /\ Paid' \in Usages  BY DEF Shares
    <3> DEFINE s == SumBefore(loc[g].today + 1, Paid)
               t == SumBefore(loc[g].today + 1, Paid')
               b0 == MonthlyCap * JsWeight
    <3>5. s <= t /\ s \in Nat /\ t \in Nat  BY <3>3, <3>4, SumGrows, SumIs
    <3>6. b0 \in Nat  BY LimiterAssumption
    <3>7. t < b0  BY <3>1
    <3> HIDE DEF s, t, b0
    <3>8. s < b0  BY <3>5, <3>6, <3>7
    <3> QED  BY <2>3, <2>4, <3>8 DEF Admitted, s, b0
  <2>5. CASE pc[g] # "costs"  BY <2>1, <2>2, <2>3, <2>5 DEF Admitted
  <2> QED  BY <2>4, <2>5
<1>4. \A b : Ahead(b) \in SUBSET Fetcher  BY DEF Ahead
<1> QED  BY <1>2, <1>3, <1>4, WorthGrows

DaysInv ==
    /\ \A d \in Day : d > day => costs[d] = NoKey
    /\ \A f \in Fetcher : pc[f] = "cost" => loc[f].today <= day

CycleBudget == MonthlyCap * JsWeight
AllFetchers == JsWeight * Cardinality(Fetcher)

BillInv ==
    MonthlyCap > 0 =>
        /\ billed + Owed <= Spent + excused
        /\ billed + Owed + Held < CycleBudget + AllFetchers + excused

LEMMA NumbersAre == CycleBudget \in Nat /\ AllFetchers \in Nat /\ (MonthlyCap > 0 => CycleBudget > 0)
<1>1. MonthlyCap \in Nat /\ JsWeight \in Nat \ {0}  BY LimiterAssumption
<1>2. IsFiniteSet(Fetcher)  BY FetchAssumption
<1>3. Cardinality(Fetcher) \in Nat  BY <1>2, FS_CardinalityType
<1>4. AllFetchers \in Nat /\ CycleBudget \in Nat  BY <1>1, <1>3 DEF AllFetchers, CycleBudget
<1>5. ASSUME MonthlyCap > 0 PROVE CycleBudget > 0
  <2>1. \A a, b \in Nat : a > 0 /\ b > 0 => a * b > 0  BY SMTT(30)
  <2> QED  BY <1>1, <1>5, <2>1 DEF CycleBudget
<1> QED  BY <1>4, <1>5

\* The notes only grow, and by what is recorded.
LEMMA PaidGrows ==
    ASSUME FetchTyped, Shares, Shares', NEW f \in Fetcher, pc[f] \in PaidPlaces,
           costs' = Bumped(costs, loc[f].today, Cost(f))
    PROVE  (\A d \in Day : Paid[d] <= Paid'[d]) /\ Spent' = Spent + Cost(f)
<1>1. Cost(f) \in Nat  BY WeightIs DEF Cost
<1>2. loc[f].today \in Day /\ costs \in [Day -> Nat \cup {NoKey}]  BY FieldsOf DEF FetchTyped, TypeOK
<1>3. Paid \in Usages /\ Paid' \in Usages  BY DEF Shares
<1> DEFINE at == loc[f].today
           by == Cost(f)
<1>4. \A d \in Day : Paid'[d] = IF d = at THEN Paid[d] + by ELSE Paid[d]
  <2> SUFFICES ASSUME NEW d \in Day PROVE Paid'[d] = IF d = at THEN Paid[d] + by ELSE Paid[d]  OBVIOUS
  <2>1. Paid[d] = (IF costs[d] = NoKey THEN 0 ELSE costs[d]) /\ Paid'[d] = (IF costs'[d] = NoKey THEN 0 ELSE costs'[d])
    BY DEF Paid
  <2>2. costs'[d] = IF d = at THEN (IF costs[d] = NoKey THEN 0 ELSE costs[d]) + by ELSE costs[d]
    BY <1>2 DEF Bumped
  <2>3. costs[d] \in Nat \cup {NoKey}  BY <1>2
  <2> HIDE DEF by, at
  <2>4. by \in Nat  BY <1>1 DEF by
  <2> QED  BY <2>1, <2>2, <2>3, <2>4 DEF NoKey
<1> HIDE DEF at, by
<1>5. at \in Day /\ by \in Nat /\ CycleDays \in 0..CycleDays /\ at < CycleDays
  BY <1>1, <1>2, LimiterAssumption DEF at, by, Day
<1> DEFINE p == Paid
           q == Paid'
<1>6. p \in Usages /\ q \in Usages /\ \A d \in Day : q[d] = IF d = at THEN p[d] + by ELSE p[d]  BY <1>3, <1>4
<1> HIDE DEF p, q
<1>7. SumBefore(CycleDays, q) = SumBefore(CycleDays, p) + (IF at < CycleDays THEN by ELSE 0)
  BY <1>5, <1>6, SumBumps
<1>8. \A d \in Day : p[d] <= q[d]  BY <1>5, <1>6 DEF Usages
<1>9. Spent = SumBefore(CycleDays, p) /\ Spent' = SumBefore(CycleDays, q)  BY DEF Spent, p, q
<1>10. Spent' = Spent + by  BY <1>5, <1>7, <1>9
<1> QED  BY <1>8, <1>10 DEF p, q, by

LEMMA PaidStays ==
    ASSUME Shares, UNCHANGED costs
    PROVE  (Fetcher # {} => \A d \in Day : Paid[d] <= Paid'[d]) /\ Spent' = Spent /\ Paid' = Paid
<1>1. Paid' = Paid  BY DEF Paid
<1>2. Spent' = Spent  BY <1>1 DEF Spent
<1>3. ASSUME Fetcher # {} PROVE \A d \in Day : Paid[d] <= Paid[d]
  <2>1. Paid \in Usages  BY <1>3 DEF Shares
  <2>2. \A d \in Day : Paid[d] \in Nat  BY <2>1 DEF Usages
  <2> QED  BY <2>2
<1> QED  BY <1>1, <1>2, <1>3

LEMMA BillStep ==
    ASSUME FetchTyped, FetchTyped', Shares, Shares', DaysInv, BillInv, UNCHANGED day,
           NEW f \in Fetcher, NEW step, NEW l, Turns(f, step, l), MonthlyCap > 0 => Pays(f)
    PROVE  BillInv'
<1> SUFFICES ASSUME MonthlyCap > 0
             PROVE  billed' + Owed' <= Spent' + excused' /\ billed' + Owed' + Held' < CycleBudget + AllFetchers + excused'
  BY DEF BillInv, CycleBudget, AllFetchers
<1>1. Pays(f)  OBVIOUS
<1> DEFINE w == Cost(f)
           o == Worth(Due(TRUE) \ {f}, Due(FALSE) \ {f})
           h == Worth(Ahead(TRUE) \ {f}, Ahead(FALSE) \ {f})
           i == Worth(Ahead(TRUE)' \ {f}, Ahead(FALSE)' \ {f})
           p == Owed
           q == Held
           r == Owed'
           s == Held'
<1>3. p = o + (IF pc[f] = "post" THEN w ELSE 0) /\ q = h + (IF Admitted(f) THEN w ELSE 0) /\ p \in Nat /\ q \in Nat
  BY DEF Shares
<1>4. /\ r = Worth(Due(TRUE)' \ {f}, Due(FALSE)' \ {f}) + (IF pc'[f] = "post" THEN Cost(f)' ELSE 0)
      /\ s = i + (IF Admitted(f)' THEN Cost(f)' ELSE 0) /\ s <= AllFetchers /\ r \in Nat /\ s \in Nat
  BY DEF Shares, AllFetchers
<1>5. Js(f)' = Js(f) => Cost(f)' = w  BY DEF Cost
<1>6. ASSUME \A d \in Day : Paid[d] <= Paid'[d]
      PROVE  i <= h /\ Worth(Due(TRUE)' \ {f}, Due(FALSE)' \ {f}) = o
  BY <1>6, OthersKeep
<1>7. w \in Nat  BY WeightIs DEF Cost
<1>8. o \in Nat /\ h \in Nat /\ i \in Nat
  <2>1. \A b : Due(b) \in SUBSET Fetcher /\ Ahead(b) \in SUBSET Fetcher /\ Ahead(b)' \in SUBSET Fetcher  BY DEF Due, Ahead
  <2> QED  BY <2>1, WorthIs
<1>9. billed \in Nat /\ excused \in Nat /\ CycleBudget \in Nat /\ AllFetchers \in Nat  BY NumbersAre DEF FetchTyped, TypeOK
<1>10. billed + p <= Spent + excused /\ billed + p + q < CycleBudget + AllFetchers + excused
  BY DEF BillInv
<1>11. Spent \in Nat /\ Paid \in Usages /\ Paid' \in Usages
  <2>1. Paid \in Usages /\ Paid' \in Usages  BY DEF Shares
  <2>2. CycleDays \in 0..CycleDays  BY LimiterAssumption
  <2> QED  BY <2>1, <2>2, SumIs DEF Spent
<1>12. UNCHANGED costs => (\A d \in Day : Paid[d] <= Paid'[d]) /\ Spent' = Spent /\ Paid' = Paid  BY PaidStays
<1> HIDE DEF w, o, h, i, p, q, r, s
<1>u. SUFFICES billed' + r <= Spent' + excused' /\ billed' + r + s < CycleBudget + AllFetchers + excused'
  BY DEF r, s
<1>13. CASE /\ pc'[f] \in Unpaid /\ UNCHANGED <<costs, excused>>
            /\ billed' = billed + (IF pc[f] = "post" THEN w ELSE 0)
  <2>1. ~Admitted(f)' /\ pc'[f] # "post"  BY <1>13 DEF Admitted, Unpaid, Ready
  <2>2. r = o /\ s = i /\ i <= h /\ Spent' = Spent  BY <1>4, <1>6, <1>8, <1>12, <1>13, <2>1
  <2> QED  BY <1>3, <1>7, <1>8, <1>9, <1>10, <1>11, <1>13, <2>2
<1>14. CASE /\ pc[f] \in PaidPlaces \ {"post"} /\ Js(f)' = Js(f) /\ UNCHANGED billed
            /\ \/ pc'[f] = "costs" /\ loc'[f].today = day /\ UNCHANGED <<costs, excused>>
               \/ pc'[f] = "token" /\ UNCHANGED <<costs, excused>> /\ Admitted(f)
               \/ pc'[f] \in {"token", "post"} /\ UNCHANGED costs /\ excused' = excused + w
               \/ /\ pc'[f] \in {"count", "again", "fallback", "cost"} /\ UNCHANGED <<costs, excused>>
                  /\ pc[f] \in {"token", "again", "count"} /\ (pc'[f] = "cost" => loc'[f].today = day)
               \/ /\ pc[f] = "cost" /\ pc'[f] = "post" /\ UNCHANGED excused
                  /\ costs' = Bumped(costs, loc[f].today, w)
  <2>0. Cost(f)' = w /\ pc[f] # "post" /\ p = o  BY <1>3, <1>5, <1>8, <1>14
  <2>1. CASE pc'[f] = "costs" /\ loc'[f].today = day /\ UNCHANGED <<costs, excused>>
    <3>1. r = o /\ i <= h /\ Spent' = Spent  BY <1>4, <1>6, <1>8, <1>12, <2>1
    <3>2. CASE Admitted(f)'
      <4>1. SumBefore(day + 1, Paid') < CycleBudget  BY <2>1, <3>2 DEF Admitted, CycleBudget
      <4>2. day \in Day  BY DEF FetchTyped, TypeOK
      <4>3. \A d \in Day : d > day => Paid[d] = 0  BY DEF DaysInv, Paid
      <4>4. Spent = SumBefore(day + 1, Paid)  BY <1>11, <4>2, <4>3, SumStops DEF Spent
      <4>5. Spent < CycleBudget  BY <1>12, <2>1, <4>1, <4>4
      <4> QED  BY <1>4, <1>8, <1>9, <1>10, <1>11, <1>14, <2>0, <2>1, <3>1, <4>5
    <3>3. CASE ~Admitted(f)'
      <4>1. s = i  BY <1>4, <1>8, <3>3
      <4> QED  BY <1>3, <1>7, <1>8, <1>9, <1>10, <1>11, <1>14, <2>0, <2>1, <3>1, <4>1
    <3> QED  BY <3>2, <3>3
  <2>2. CASE pc'[f] = "token" /\ UNCHANGED <<costs, excused>> /\ Admitted(f)
    <3>1. r = o /\ i <= h /\ Spent' = Spent  BY <1>4, <1>6, <1>8, <1>12, <2>2
    <3>2. q = h + w /\ s <= i + w  BY <1>3, <1>4, <1>7, <1>8, <2>0, <2>2
    <3> QED  BY <1>4, <1>7, <1>8, <1>9, <1>10, <1>11, <1>14, <2>0, <2>2, <3>1, <3>2
  <2>3. CASE pc'[f] \in {"token", "post"} /\ UNCHANGED costs /\ excused' = excused + w
    <3>1. i <= h /\ Spent' = Spent /\ r = o + (IF pc'[f] = "post" THEN w ELSE 0)  BY <1>4, <1>6, <1>12, <2>0, <2>3
    <3>2. CASE pc'[f] = "post"
      <4>1. ~Admitted(f)'  BY <3>2 DEF Admitted
      <4>2. s = i /\ r = o + w  BY <1>4, <1>8, <3>1, <3>2, <4>1
      <4> QED  BY <1>3, <1>7, <1>8, <1>9, <1>10, <1>11, <1>14, <2>0, <2>3, <3>1, <4>2
    <3>3. CASE pc'[f] = "token"
      <4>1. s <= i + w /\ r = o  BY <1>4, <1>7, <1>8, <2>0, <3>1, <3>3
      <4> QED  BY <1>3, <1>4, <1>7, <1>8, <1>9, <1>10, <1>11, <1>14, <2>0, <2>3, <3>1, <4>1
    <3> QED  BY <2>3, <3>2, <3>3
  <2>4. CASE /\ pc'[f] \in {"count", "again", "fallback", "cost"} /\ UNCHANGED <<costs, excused>>
             /\ pc[f] \in {"token", "again", "count"} /\ (pc'[f] = "cost" => loc'[f].today = day)
    <3>1. r = o /\ i <= h /\ Spent' = Spent  BY <1>4, <1>6, <1>8, <1>12, <2>4
    <3>2. Admitted(f)  BY <2>4 DEF Admitted
    <3>3. q = h + w /\ s <= i + w  BY <1>3, <1>4, <1>7, <1>8, <2>0, <3>2
    <3> QED  BY <1>4, <1>7, <1>8, <1>9, <1>10, <1>11, <1>14, <2>0, <2>4, <3>1, <3>3
  <2>5. CASE /\ pc[f] = "cost" /\ pc'[f] = "post" /\ UNCHANGED excused
             /\ costs' = Bumped(costs, loc[f].today, w)
    <3>1. (\A d \in Day : Paid[d] <= Paid'[d]) /\ Spent' = Spent + w
      BY <1>14, <2>5, PaidGrows DEF w
    <3>2. Admitted(f) /\ ~Admitted(f)'  BY <2>5 DEF Admitted
    <3>3. i <= h /\ r = o + w /\ s = i /\ q = h + w  BY <1>3, <1>4, <1>6, <1>8, <2>0, <2>5, <3>1, <3>2
    <3> QED  BY <1>7, <1>8, <1>9, <1>10, <1>11, <1>14, <2>0, <2>5, <3>1, <3>3
  <2> QED  BY <1>14, <2>1, <2>2, <2>3, <2>4, <2>5
<1>15. w = Cost(f)  BY DEF w
<1> QED  BY <1>1, <1>13, <1>14, <1>15, Zenon DEF Pays

LEMMA DaysStep ==
    ASSUME FetchTyped, DaysInv, UNCHANGED day, NEW f \in Fetcher, NEW step, NEW l, Turns(f, step, l), Pays(f)
    PROVE  DaysInv'
<1>0. day \in Day /\ \A d \in Day : d \in Nat  BY LimiterAssumption DEF FetchTyped, TypeOK, Day
<1>1. ASSUME NEW g \in Fetcher, pc'[g] = "cost" PROVE loc'[g].today <= day'
  <2>1. CASE g # f
    <3>1. loc'[g] = loc[g] /\ pc'[g] = pc[g]  BY <2>1 DEF Turns
    <3>2. loc[g].today <= day  BY <1>1, <3>1 DEF DaysInv
    <3> QED  BY <3>1, <3>2
  <2>2. CASE g = f
    <3>1. loc'[f].today = day  BY <1>1, <2>2, Zenon DEF Pays, Unpaid, Ready
    <3>2. day <= day  BY <1>0
    <3> QED  BY <2>2, <3>1, <3>2
  <2> QED  BY <2>1, <2>2
<1>2. ASSUME NEW d \in Day, d > day PROVE costs'[d] = NoKey
  <2>1. costs[d] = NoKey  BY <1>2 DEF DaysInv
  <2>2. UNCHANGED costs \/ (pc[f] = "cost" /\ costs' = Bumped(costs, loc[f].today, Cost(f)))  BY DEF Pays
  <2>3. CASE UNCHANGED costs  BY <2>1, <2>3
  <2>4. CASE pc[f] = "cost" /\ costs' = Bumped(costs, loc[f].today, Cost(f))
    <3>1. loc[f].today <= day /\ loc[f].today \in Day  BY <2>4, FieldsOf DEF DaysInv, FetchTyped, TypeOK
    <3>2. d # loc[f].today  BY <1>0, <1>2, <3>1
    <3>3. costs \in [Day -> Nat \cup {NoKey}]  BY DEF FetchTyped, TypeOK
    <3> DEFINE by == Cost(f)
    <3>4. costs' = Bumped(costs, loc[f].today, by)  BY <2>4
    <3> HIDE DEF by
    <3> QED  BY <2>1, <3>2, <3>3, <3>4 DEF Bumped
  <2> QED  BY <2>2, <2>3, <2>4
<1> QED  BY <1>1, <1>2 DEF DaysInv

BudgetInv ==
    /\ FetchTyped
    /\ MonthlyCap > 0 => DaysInv
    /\ BillInv

\* A page put into the cache, the clock and the calendar change no bill.
LEMMA IdleStep ==
    ASSUME BudgetInv, FetchTyped', UNCHANGED <<pc, loc, costs, billed, excused>>, day' \in {day, day + 1}
    PROVE  BudgetInv'
<1>0. day \in Int /\ day' \in Int /\ \A d \in Day : d \in Int
  BY LimiterAssumption DEF BudgetInv, FetchTyped, TypeOK, Day
<1>1. Paid' = Paid  BY DEF Paid
<1>2. Spent' = Spent  BY <1>1 DEF Spent
<1>3. \A f \in Fetcher : Js(f)' = Js(f)  BY DEF Js
<1>4. \A f \in Fetcher : Admitted(f)' <=> Admitted(f)  BY <1>1 DEF Admitted
<1>5. Held' = Held
  <2>1. \A b : Ahead(b)' = Ahead(b)  BY <1>3, <1>4 DEF Ahead
  <2> QED  BY <2>1 DEF Held
<1>6. Owed' = Owed
  <2>1. \A b : Due(b)' = Due(b)  BY <1>3 DEF Due
  <2> QED  BY <2>1 DEF Owed
<1>7. BillInv'  BY <1>2, <1>5, <1>6 DEF BudgetInv, BillInv, CycleBudget, AllFetchers
<1>8. ASSUME DaysInv PROVE DaysInv'
  <2>1. ASSUME NEW d \in Day, d > day' PROVE costs'[d] = NoKey
    <3>1. d > day  BY <1>0, <2>1
    <3> QED  BY <1>8, <3>1 DEF DaysInv
  <2>2. ASSUME NEW f \in Fetcher, pc'[f] = "cost" PROVE loc'[f].today <= day'
    <3>1. loc[f].today \in Day  BY FieldsOf DEF BudgetInv, FetchTyped, TypeOK
    <3>2. loc[f].today <= day  BY <1>8, <2>2 DEF DaysInv
    <3>3. loc'[f] = loc[f] /\ loc[f].today \in Int  BY <1>0, <3>1
    <3> DEFINE t == loc[f].today
    <3>4. t \in Int /\ t <= day /\ loc'[f].today = t  BY <3>2, <3>3
    <3> HIDE DEF t
    <3>5. t <= day'  BY <1>0, <3>4
    <3> QED  BY <3>4, <3>5
  <2> QED  BY <2>1, <2>2 DEF DaysInv
<1> QED  BY <1>7, <1>8 DEF BudgetInv

LEMMA BudgetStep ==
    ASSUME BudgetInv, FetchInv, FetchInv', [Next]_vars
    PROVE  BudgetInv'
<1>1. CASE UNCHANGED vars
  <2>1. UNCHANGED <<pc, loc, costs, billed, excused, day>>  BY <1>1 DEF vars, ledger
  <2>2. FetchTyped'
    <3>1. FetchTyped  BY DEF BudgetInv
    <3>2. \A f \in Fetcher : Reached(pc'[f], loc'[f])  BY <2>1, <3>1 DEF FetchTyped
    <3>3. TypeOK /\ bucket.last <= clock /\ (browser.open \/ browser.pages = 0) /\ cache <= puts  BY <3>1 DEF FetchTyped
    <3>4. TypeOK' /\ bucket'.last <= clock' /\ (browser'.open \/ browser'.pages = 0) /\ cache' <= puts'
      BY <1>1, <3>3 DEF vars, ledger, environment, TypeOK
    <3> QED  BY <3>2, <3>4 DEF FetchTyped
  <2> QED  BY <2>1, <2>2, IdleStep
<1>2. CASE Next
  <2>1. FetchTyped' /\ FetchTyped  BY <1>2, FetchTypedStep DEF BudgetInv
  <2>2. Shares /\ Shares'
    <3>1. FetchTyped => Shares  BY SharesAre
    <3>2. (FetchTyped => Shares)'  BY SharesAre, PTL
    <3> QED  BY <2>1, <3>1, <3>2
  <2>3. ASSUME NEW f \in Fetcher, NEW step, NEW l, Turns(f, step, l), UNCHANGED day, MonthlyCap > 0 => Pays(f)
        PROVE  BudgetInv'
    <3>1. CASE MonthlyCap > 0
      <4>1. DaysInv  BY <3>1 DEF BudgetInv
      <4>2. BillInv'  BY <2>1, <2>2, <2>3, <4>1, BillStep DEF BudgetInv
      <4>3. DaysInv'  BY <2>1, <2>3, <3>1, <4>1, DaysStep
      <4> QED  BY <2>1, <4>2, <4>3 DEF BudgetInv
    <3>2. CASE ~(MonthlyCap > 0)  BY <2>1, <3>2 DEF BudgetInv, BillInv
    <3> QED  BY <3>1, <3>2
  <2>4. CASE \E f \in Fetcher : Step(f)
    <3>1. PICK f \in Fetcher : Step(f)  BY <2>4
    <3>2. PICK step \in PCs, l \in Locals : Turns(f, step, l)  BY <2>1, <3>1, StepTurns
    <3>3. UNCHANGED day  BY <2>1, <3>1, StepRest
    <3>4. MonthlyCap > 0 => Pays(f)  BY <2>1, <3>1, StepPays
    <3> QED  BY <2>3, <3>2, <3>3, <3>4
  <2>5. CASE \E f \in Fetcher, kind \in AllKinds : Call(f, kind)
    <3>1. PICK f \in Fetcher, kind \in AllKinds : Call(f, kind)  BY <2>5
    <3>2. PICK step \in Ready \cup {"cache_get"}, l \in Locals : Turns(f, step, l)  BY <2>1, <3>1, CallTurns
    <3>3. UNCHANGED day  BY <3>1 DEF Call
    <3>4. Pays(f)  BY <2>1, <3>1, CallPays
    <3> QED  BY <2>3, <3>2, <3>3, <3>4
  <2>6. CASE PutPage \/ TimePasses \/ NextDay
    <3>1. UNCHANGED <<pc, loc, costs, billed, excused>> /\ day' \in {day, day + 1}
      BY <2>6 DEF PutPage, TimePasses, NextDay, ledger
    <3> QED  BY <2>1, <3>1, IdleStep
  <2> QED  BY <1>2, <2>4, <2>5, <2>6 DEF Next
<1> QED  BY <1>1, <1>2

LEMMA BudgetStart == ASSUME Init PROVE BudgetInv
<1>1. FetchTyped  BY FetchTypedStart
<1>2. DaysInv
  <2>1. \A d \in Day : costs[d] = NoKey  BY DEF Init, NoCounters
  <2>2. \A f \in Fetcher : pc[f] = "idle"  BY DEF Init
  <2> QED  BY <2>1, <2>2 DEF DaysInv
<1>3. BillInv
  <2> SUFFICES ASSUME MonthlyCap > 0
               PROVE  billed + Owed <= Spent + excused /\ billed + Owed + Held < CycleBudget + AllFetchers + excused
    BY DEF BillInv
  <2>1. \A b : Ahead(b) = {} /\ Due(b) = {}  BY DEF Init, Ahead, Due, Admitted
  <2>2. Owed = 0 /\ Held = 0
    <3>1. Cardinality({}) = 0  BY FS_EmptySet
    <3>2. JsWeight \in Nat /\ NoJsWeight \in Nat  BY LimiterAssumption
    <3>3. Worth({}, {}) = 0  BY <3>1, <3>2 DEF Worth
    <3> QED  BY <2>1, <3>3 DEF Owed, Held
  <2>3. billed = 0 /\ excused = 0  BY DEF Init
  <2>4. Spent \in Nat
    <3>1. Paid \in Usages
      <4>1. \A d \in Day : costs[d] \in Nat \cup {NoKey}  BY <1>1 DEF FetchTyped, TypeOK
      <4> QED  BY <4>1 DEF Paid, Usages
    <3>2. CycleDays \in 0..CycleDays  BY LimiterAssumption
    <3> QED  BY <3>1, <3>2, SumIs DEF Spent
  <2>5. CycleBudget > 0 /\ CycleBudget \in Nat /\ AllFetchers \in Nat  BY NumbersAre
  <2> QED  BY <2>2, <2>3, <2>4, <2>5
<1> QED  BY <1>1, <1>2, <1>3 DEF BudgetInv

LEMMA BudgetSays == BudgetInv => BudgetOvershootBounded
<1> SUFFICES ASSUME BudgetInv, MonthlyCap > 0
             PROVE  billed < (MonthlyCap + Cardinality(Fetcher)) * JsWeight + excused
  BY DEF BudgetOvershootBounded
<1>1. FetchTyped /\ billed + Owed + Held < CycleBudget + AllFetchers + excused  BY DEF BudgetInv, BillInv
<1>2. billed \in Nat /\ excused \in Nat  BY <1>1 DEF FetchTyped, TypeOK
<1>3. Owed \in Nat /\ Held \in Nat
  <2>1. \A b : Due(b) \in SUBSET Fetcher /\ Ahead(b) \in SUBSET Fetcher  BY DEF Due, Ahead
  <2> QED  BY <2>1, WorthIs DEF Owed, Held
<1>4. CycleBudget \in Nat /\ AllFetchers \in Nat  BY NumbersAre
<1>5. (MonthlyCap + Cardinality(Fetcher)) * JsWeight = CycleBudget + AllFetchers
  <2>1. MonthlyCap \in Nat /\ JsWeight \in Nat  BY LimiterAssumption
  <2>2. Cardinality(Fetcher) \in Nat  BY FetchAssumption, FS_CardinalityType
  <2>3. \A a, b, c \in Nat : (a + b) * c = a * c + c * b  BY SMTT(30)
  <2> QED  BY <2>1, <2>2, <2>3 DEF CycleBudget, AllFetchers
<1> DEFINE x == (MonthlyCap + Cardinality(Fetcher)) * JsWeight
<1>6. x = CycleBudget + AllFetchers  BY <1>5
<1> HIDE DEF x
<1> QED  BY <1>1, <1>2, <1>3, <1>4, <1>6 DEF x

\* Whatever the fetches read before they act, and whatever Redis fails to check or to note, the bill of
\* the cycle stays below the budget and one request more for every fetch in flight, apart from what
\* Redis failed to guard; and the bucket keeps its rate (budget_status_sync, ProxyProviderBackend.fetch).
THEOREM BillStaysBounded ==
    (Spec => [](TypeOK /\ BudgetOvershootBounded)) /\ (MCSpec => []ProxyBounded)
<1> DEFINE Inv == FetchInv /\ BucketInv /\ BudgetInv
<1>1. Init => Inv  BY FetchStart, BucketStart, BudgetStart
<1>2. ASSUME Inv, [Next]_vars PROVE Inv'
  <2>1. FetchInv'  BY <1>2, FetchStays
  <2>2. BucketInv'  BY <1>2, BucketStays
  <2>3. BudgetInv'  BY <1>2, <2>1, BudgetStep
  <2> QED  BY <2>1, <2>2, <2>3
<1>3. Inv => TypeOK /\ BudgetOvershootBounded /\ RateBounded  BY BudgetSays, BucketSays DEF BudgetInv, FetchTyped
<1> HIDE DEF Inv
<1>4. Spec => [](TypeOK /\ BudgetOvershootBounded)  BY <1>1, <1>2, <1>3, PTL DEF Spec
<1>5. MCInit => Inv  BY <1>1 DEF MCInit
<1>6. ASSUME Inv, [MCNext]_allVars PROVE Inv'
  <2>1. [Next]_vars  BY <1>6 DEF MCNext, allVars
  <2> QED  BY <1>2, <1>6, <2>1
<1>7. Inv => ProxyBounded  BY <1>3 DEF ProxyBounded
<1>8. MCSpec => []ProxyBounded  BY <1>5, <1>6, <1>7, PTL DEF MCSpec, allVars
<1> QED  BY <1>4, <1>8

-----------------------------------------------------------------------------
(***************************************************************************)
(* The types.                                                              *)
(***************************************************************************)
GateTyped == G!TypeOK

LEMMA GateTypes ==
    ASSUME GateTyped, [G!Next]_gVars
    PROVE  GateTyped'
<1> USE DEF GateTyped, G!TypeOK, G!Secrets, G!Traces
<1>0. GateFaults \in Nat /\ MaxChanges \in Nat  BY ServicesAssumption
<1>s. G!Signed \subseteq DOMAIN req.rows  BY DEF G!Signed
<1>1. CASE G!Submit  BY <1>1 DEF G!Submit
<1>2. CASE G!Authorize  BY <1>0, <1>2 DEF G!Authorize, G!Isolated, G!RejectRows, G!Answer
<1>3. CASE G!RejectPersist  BY <1>3 DEF G!RejectPersist, G!Answer
<1>4. CASE G!EmitFailureAlert
  <2>1. UNCHANGED <<vault, setting, cached, changes, rejects>> /\ alerted' \in BOOLEAN /\ lost' \in BOOLEAN
    BY <1>4 DEF G!EmitFailureAlert, G!Isolated, G!RaiseAlert
  <2>2. gateFaults' = gateFaults \/ (gateFaults < GateFaults /\ gateFaults' = gateFaults + 1)
    BY <1>4 DEF G!EmitFailureAlert, G!Isolated
  <2>3. wpc' \in {"done", "failure_alert"} /\ answer' \in {answer, "refused", "raised"} /\ UNCHANGED <<stored, req>>
    BY <1>4 DEF G!EmitFailureAlert, G!Answer
  <2> QED  BY <1>0, <2>1, <2>2, <2>3
<1>5. CASE G!AssertSignature  BY <1>5 DEF G!AssertSignature
<1>6. CASE G!HandleInvalidSignature
  <2>1. UNCHANGED <<vault, setting, cached, changes, rejects>> /\ alerted' \in BOOLEAN /\ lost' \in BOOLEAN
    BY <1>6 DEF G!HandleInvalidSignature, G!Isolated, G!RaiseAlert
  <2>2. gateFaults' = gateFaults \/ (gateFaults < GateFaults /\ gateFaults' = gateFaults + 1)
    BY <1>6 DEF G!HandleInvalidSignature, G!Isolated
  <2>3. wpc' \in {"done", "failure_alert"} /\ answer' \in {answer, "refused", "raised"} /\ UNCHANGED <<stored, req>>
    BY <1>6 DEF G!HandleInvalidSignature, G!Answer
  <2> QED  BY <1>0, <2>1, <2>2, <2>3
<1>7. CASE G!HandleSigningUnavailable
  <2>1. UNCHANGED <<vault, setting, cached, changes, rejects>> /\ alerted' \in BOOLEAN /\ lost' \in BOOLEAN
    BY <1>7 DEF G!HandleSigningUnavailable, G!Isolated, G!RaiseAlert
  <2>2. gateFaults' = gateFaults \/ (gateFaults < GateFaults /\ gateFaults' = gateFaults + 1)
    BY <1>7 DEF G!HandleSigningUnavailable, G!Isolated
  <2>3. wpc' \in {"done", "failure_alert"} /\ answer' \in {answer, "refused", "raised"} /\ UNCHANGED <<stored, req>>
    BY <1>7 DEF G!HandleSigningUnavailable, G!Answer
  <2> QED  BY <1>0, <2>1, <2>2, <2>3
<1>8. CASE G!HandleRpcError
  <2>1. UNCHANGED <<vault, setting, cached, changes, rejects>> /\ alerted' \in BOOLEAN /\ lost' \in BOOLEAN
    BY <1>8 DEF G!HandleRpcError, G!Isolated, G!RaiseAlert
  <2>2. gateFaults' = gateFaults \/ (gateFaults < GateFaults /\ gateFaults' = gateFaults + 1)
    BY <1>8 DEF G!HandleRpcError, G!Isolated
  <2>3. wpc' \in {"done", "failure_alert"} /\ answer' \in {answer, "refused", "raised"} /\ UNCHANGED <<stored, req>>
    BY <1>8 DEF G!HandleRpcError, G!Answer
  <2> QED  BY <1>0, <2>1, <2>2, <2>3
<1>9. CASE G!Execute  BY <1>0, <1>9 DEF G!Execute
<1>10. CASE G!Commit  BY <1>s, <1>10 DEF G!Commit
<1>11. CASE G!Restart
  <2>1. rejects' = {} /\ stored' = {} /\ wpc' = "idle" /\ answer' = "none" /\ alerted' = FALSE /\ lost' = FALSE
        /\ UNCHANGED <<vault, setting, changes>> /\ cached' = setting
    BY <1>11 DEF G!Restart
  <2>2. gateFaults' \in 0..GateFaults  BY <1>0, <1>11 DEF G!Restart
  <2> QED  BY <2>1, <2>2
<1>12. CASE G!RotateVault \/ G!RotateSetting  BY <1>0, <1>12 DEF G!RotateVault, G!RotateSetting
<1>13. CASE UNCHANGED gVars  BY <1>13 DEF gVars
<1> QED  BY <1>1, <1>2, <1>3, <1>4, <1>5, <1>6, <1>7, <1>8, <1>9, <1>10, <1>11, <1>12, <1>13 DEF G!Next

LEMMA GateStarts == ASSUME G!Init PROVE GateTyped
<1>1. 0 \in 0..GateFaults /\ 0 \in 0..MaxChanges  BY ServicesAssumption
<1>2. /\ {vault, setting, cached} \subseteq Secret /\ wpc = "idle" /\ rejects = {} /\ stored = {}
      /\ alerted = FALSE /\ lost = FALSE /\ answer = "none" /\ gateFaults = 0 /\ changes = 0
  BY DEF G!Init
<1> QED  BY <1>1, <1>2 DEF GateTyped, G!TypeOK

IngestBounds ==
    /\ stamp \in 1..MaxStamp /\ crossed \in BOOLEAN
    /\ \A r \in fact_price : 1 <= r.at
    /\ \A i \in A!Ingestor :
          /\ ipc[i] \in {"seen", "inserted"} => 1 <= ingest[i].at
          /\ \A r \in ingest[i].replaces : 1 <= r.at /\ r.at <= stamp

LEMMA IngestBoundsStep ==
    ASSUME IngestTypes, IngestTypes', IngestBounds, [A!Next]_aVars
    PROVE  IngestBounds'
<1>0. /\ stamp \in 1..MaxStamp /\ MaxStamp \in Nat /\ crossed \in BOOLEAN
      /\ \A r \in fact_price : 1 <= r.at /\ r.at <= stamp /\ r.at \in Nat
      /\ ipc \in [A!Ingestor -> {"idle", "loaded", "seen", "inserted"}]
      /\ ingest \in [A!Ingestor -> Ingests]
      /\ \A i \in A!Ingestor : ingest[i].at \in Nat
      /\ \A i \in A!Ingestor : \A r \in ingest[i].replaces : r.at \in Nat
  BY ServicesAssumption DEF IngestTypes, IngestBounds, PriceRow, Ingests
<1>f. A!Fresh.replaces = {} /\ A!Fresh.at = 0  BY DEF A!Fresh
<1>1. CASE A!Ingest
  <2>1. PICK i \in A!Ingestor : \/ A!Load(i) \/ A!Reject(i) \/ A!Insert(i) \/ A!CommitNoChange(i) \/ A!CommitPrice(i)
                                \/ A!Rollback(i) \/ \E p \in Price : A!See(i, p)
    BY <1>1 DEF A!Ingest
  <2>2. /\ stamp' \in 1..MaxStamp /\ stamp <= stamp' /\ stamp' \in Nat /\ stamp \in Nat
        /\ crossed' \in BOOLEAN
    <3>1. stamp' = stamp \/ (stamp < MaxStamp /\ stamp' = stamp + 1)
      BY <2>1 DEF A!Load, A!Reject, A!Insert, A!CommitNoChange, A!CommitPrice, A!Rollback, A!See, A!Stamp
    <3>2. UNCHANGED crossed \/ A!Load(i)
      BY <2>1 DEF A!Reject, A!Insert, A!CommitNoChange, A!CommitPrice, A!Rollback, A!See
    <3>3. crossed' \in BOOLEAN  BY <1>0, <3>2 DEF A!Load
    <3> QED  BY <1>0, <3>1, <3>3
  <2>3. ASSUME NEW r \in fact_price' PROVE 1 <= r.at
    <3>1. CASE r \in fact_price  BY <1>0, <3>1
    <3>2. CASE r \notin fact_price
      <4>1. ipc[i] = "inserted" /\ r = [at |-> ingest[i].at, price |-> ingest[i].seen, from |-> ingest[i].copy.price]
        BY <2>1, <2>3, <3>2 DEF A!Load, A!Reject, A!Insert, A!CommitNoChange, A!CommitPrice, A!Rollback, A!See
      <4>2. 1 <= ingest[i].at  BY <4>1 DEF IngestBounds
      <4> QED  BY <4>1, <4>2
    <3> QED  BY <3>1, <3>2
  <2>4. \A j \in A!Ingestor \ {i} : ipc'[j] = ipc[j] /\ ingest'[j] = ingest[j]
    BY <1>0, <2>1 DEF A!Load, A!Reject, A!Insert, A!CommitNoChange, A!CommitPrice, A!Rollback, A!See
  <2>5. ipc'[i] \in {"seen", "inserted"} => 1 <= ingest'[i].at
    <3>1. CASE A!Load(i) \/ A!Reject(i) \/ A!CommitNoChange(i) \/ A!CommitPrice(i) \/ A!Rollback(i)
      BY <1>0, <3>1 DEF A!Load, A!Reject, A!CommitNoChange, A!CommitPrice, A!Rollback
    <3>2. CASE A!Insert(i)
      <4>1. ipc[i] = "seen" /\ \E rows : ingest' = [ingest EXCEPT ![i].replaces = rows]  BY <3>2 DEF A!Insert
      <4>2. ingest'[i].at = ingest[i].at  BY <1>0, <4>1 DEF Ingests
      <4> QED  BY <4>1, <4>2 DEF IngestBounds
    <3>3. CASE \E p \in Price : A!See(i, p)
      <4>1. PICK p \in Price : ingest' = [ingest EXCEPT ![i].seen = p, ![i].at = stamp']  BY <3>3 DEF A!See
      <4>2. ingest'[i].at = stamp'  BY <1>0, <4>1 DEF Ingests
      <4> QED  BY <2>2, <4>2
    <3> QED  BY <2>1, <3>1, <3>2, <3>3
  <2>6. ASSUME NEW r \in ingest'[i].replaces PROVE 1 <= r.at /\ r.at <= stamp /\ r.at \in Nat
    <3>1. CASE A!Load(i) \/ A!Reject(i) \/ A!CommitNoChange(i) \/ A!CommitPrice(i) \/ A!Rollback(i)
      <4>1. ingest'[i] = A!Fresh \/ ingest'[i] = [A!Fresh EXCEPT !.copy = listing]
        BY <1>0, <3>1 DEF A!Load, A!Reject, A!CommitNoChange, A!CommitPrice, A!Rollback
      <4>2. ingest'[i].replaces = {}  BY <4>1 DEF A!Fresh
      <4> QED  BY <2>6, <4>2
    <3>2. CASE A!Insert(i)
      <4> DEFINE rows == {s \in fact_price : A!Day(s.at) = A!Day(ingest[i].at)}
      <4>1. ingest' = [ingest EXCEPT ![i].replaces = rows]  BY <3>2 DEF A!Insert
      <4>2. rows \subseteq fact_price  OBVIOUS
      <4> HIDE DEF rows
      <4>3. ingest'[i].replaces = rows  BY <1>0, <4>1 DEF Ingests
      <4> QED  BY <1>0, <2>6, <4>2, <4>3
    <3>3. CASE \E p \in Price : A!See(i, p)
      <4>1. PICK p \in Price : ingest' = [ingest EXCEPT ![i].seen = p, ![i].at = stamp']  BY <3>3 DEF A!See
      <4>2. ingest'[i].replaces = ingest[i].replaces  BY <1>0, <4>1 DEF Ingests
      <4> QED  BY <1>0, <2>6, <4>2 DEF IngestBounds
    <3> QED  BY <2>1, <3>1, <3>2, <3>3
  <2>7. ASSUME NEW j \in A!Ingestor
        PROVE  /\ ipc'[j] \in {"seen", "inserted"} => 1 <= ingest'[j].at
               /\ \A r \in ingest'[j].replaces : 1 <= r.at /\ r.at <= stamp'
    <3>1. CASE j = i  BY <2>2, <2>5, <2>6, <3>1
    <3>2. CASE j # i  BY <1>0, <2>2, <2>4, <3>2 DEF IngestBounds
    <3> QED  BY <3>1, <3>2
  <2> QED  BY <2>2, <2>3, <2>7 DEF IngestBounds
<1>2. CASE UNCHANGED <<listing, fact_price, ipc, ingest, crossed>> /\ stamp' \in 1..MaxStamp /\ stamp <= stamp'
  BY <1>0, <1>2 DEF IngestBounds
<1>3. A!Next /\ ~A!Ingest => UNCHANGED <<listing, fact_price, ipc, ingest, crossed>>
                             /\ (stamp' = stamp \/ (stamp < MaxStamp /\ stamp' = stamp + 1))
  BY DEF A!Next, A!Evaluate, A!Begin, A!ReadFacts, A!Skip, A!Deliver, A!RecordEvent, A!EventRefused, A!MarkRule,
         A!MarkRefused, A!Abort, A!ListingFlips, A!UpdateRule, A!Passes, A!ingestVars, A!Stamp
<1>4. UNCHANGED aVars => UNCHANGED <<listing, fact_price, ipc, ingest, crossed>> /\ stamp' = stamp  BY DEF aVars
<1> QED  BY <1>0, <1>1, <1>2, <1>3, <1>4

\* An evaluation and what it holds, of the row it read and the time it began.
Dated(place, held, now) == held.row.at <= now /\ (place # "idle" => 1 <= held.now)

EvalBounds ==
    /\ \A e \in Evaluator : Dated(epc[e], eval[e], stamp)
    /\ \A r \in Rule : alerts[r].triggered <= stamp
    /\ \A n \in Event : 1 <= alert_events[n].at /\ alert_events[n].row <= stamp
    /\ Len(alert_events) <= MaxEvents
    /\ edits \in 0..MaxEdits /\ flips \in 0..MaxFlips

LEMMA OffDated == \A now \in Nat : Dated("idle", A!Off, now)
BY DEF A!Off, A!NoRow, Dated

\* A step that goes on with what the evaluation holds.
LEMMA ProceedDated ==
    ASSUME AlertInv, NEW e \in Evaluator, Dated(epc[e], eval[e], stamp), epc[e] # "idle",
           NEW l \in Evals, l.row = eval[e].row, l.now = eval[e].now, A!Proceed(e, l)
    PROVE  /\ Dated(epc'[e], eval'[e], stamp)
           /\ \A g \in Evaluator \ {e} : epc'[g] = epc[g] /\ eval'[g] = eval[g]
<1>0. epc \in [Evaluator -> EPlaces] /\ eval \in [Evaluator -> Evals] /\ stamp \in Nat
  BY DEF AlertInv, AlertsTyped, ShownInv, IngestTypes
<1> DEFINE m == [l EXCEPT !.firing = {}]
<1>1. m.row = l.row /\ m.now = l.now  BY DEF Evals
<1>2. epc' = [epc EXCEPT ![e] = IF l.todo = {} THEN "idle" ELSE "deciding"]
      /\ eval' = [eval EXCEPT ![e] = IF l.todo = {} THEN A!Off ELSE m]
  BY DEF A!Proceed
<1> HIDE DEF m
<1>3. \A g \in Evaluator \ {e} : epc'[g] = epc[g] /\ eval'[g] = eval[g]  BY <1>0, <1>2
<1>4. CASE l.todo = {}
  <2>1. epc'[e] = "idle" /\ eval'[e] = A!Off  BY <1>0, <1>2, <1>4
  <2>2. Dated("idle", A!Off, stamp)  BY <1>0, OffDated
  <2> QED  BY <1>3, <2>1, <2>2
<1>5. CASE l.todo # {}
  <2>1. eval'[e] = m  BY <1>0, <1>2, <1>5
  <2> QED  BY <1>1, <1>3, <2>1 DEF Dated
<1> QED  BY <1>4, <1>5

LEMMA BeginDated ==
    ASSUME AlertInv, EvalBounds, NEW e \in Evaluator, A!Begin(e)
    PROVE  \A g \in Evaluator : Dated(epc'[g], eval'[g], stamp')
<1>0. /\ epc \in [Evaluator -> EPlaces] /\ eval \in [Evaluator -> Evals] /\ alerts \in [Rule -> RuleRow]
      /\ is_active \in BOOLEAN /\ stamp \in Nat
  BY DEF AlertInv, AlertsTyped, ShownInv, IngestTypes
<1>1. stamp' = stamp + 1 /\ epc' = [epc EXCEPT ![e] = "started"]  BY DEF A!Begin, A!Stamp
<1> DEFINE others == {f \in Evaluator \ {e} : epc[f] # "idle"}
           new == [A!Off EXCEPT !.now = stamp', !.rules = alerts, !.active = is_active, !.todo = Rule, !.alone = (others = {})]
<1>2. eval' = [f \in Evaluator |-> IF f = e THEN new
                                   ELSE IF f \in others THEN [eval[f] EXCEPT !.alone = FALSE] ELSE eval[f]]
  BY DEF A!Begin
<1>3. new.now = stamp + 1 /\ new.row = A!NoRow  BY <1>1 DEF A!Off
<1> HIDE DEF new
<1>4. A!NoRow.at = 0  BY DEF A!NoRow
<1>5. ASSUME NEW g \in Evaluator PROVE Dated(epc'[g], eval'[g], stamp')
  <2>1. CASE g = e
    <3>1. eval'[g] = new  BY <1>2, <2>1
    <3> QED  BY <1>0, <1>1, <1>3, <1>4, <3>1 DEF Dated
  <2>2. CASE g # e
    <3>1. epc'[g] = epc[g]  BY <1>0, <1>1, <2>2
    <3>2. eval'[g] = [eval[g] EXCEPT !.alone = FALSE] \/ eval'[g] = eval[g]  BY <1>2, <2>2
    <3>3. eval[g] \in Evals  BY <1>0
    <3>4. eval'[g].row = eval[g].row /\ eval'[g].now = eval[g].now  BY <3>2, <3>3 DEF Evals
    <3>5. eval[g].row.at \in Nat  BY <3>3 DEF Evals, FactRow
    <3>6. Dated(epc[g], eval[g], stamp)  BY DEF EvalBounds
    <3> QED  BY <1>0, <1>1, <3>1, <3>4, <3>5, <3>6 DEF Dated
  <2> QED  BY <2>1, <2>2
<1> QED  BY <1>5

LEMMA ReadDated ==
    ASSUME AlertInv, EvalBounds, NEW e \in Evaluator, A!ReadFacts(e)
    PROVE  Dated(epc'[e], eval'[e], stamp) /\ \A g \in Evaluator \ {e} : epc'[g] = epc[g] /\ eval'[g] = eval[g]
<1>0. /\ epc \in [Evaluator -> EPlaces] /\ eval \in [Evaluator -> Evals] /\ stamp \in Nat
  BY DEF AlertInv, AlertsTyped, ShownInv, IngestTypes
<1> DEFINE watch == {r \in Rule : eval[e].rules[r].type = "availability"}
           row == IF watch = Rule \/ fact_price = {} THEN A!NoRow ELSE A!Newest(fact_price)
           was == [r \in watch |-> A!PreviousAvailability(r)]
           held == [eval[e] EXCEPT !.row = row, !.was = was]
<1>1. epc[e] = "started" /\ epc' = [epc EXCEPT ![e] = "deciding"] /\ eval' = [eval EXCEPT ![e] = held]
  BY <1>0 DEF A!ReadFacts
<1>2. row.at <= stamp
  <2>1. A!NoRow.at <= stamp  BY <1>0 DEF A!NoRow
  <2>2. fact_price # {} => A!Newest(fact_price).at <= stamp  BY NewestIs DEF AlertInv, ShownInv, IngestTypes
  <2> QED  BY <2>1, <2>2
<1> HIDE DEF row, was
<1>3. held.row = row /\ held.now = eval[e].now  BY <1>0 DEF Evals
<1> HIDE DEF held
<1>4. eval'[e] = held /\ \A g \in Evaluator \ {e} : epc'[g] = epc[g] /\ eval'[g] = eval[g]  BY <1>0, <1>1
<1>5. Dated(epc[e], eval[e], stamp)  BY DEF EvalBounds
<1> QED  BY <1>1, <1>2, <1>3, <1>4, <1>5 DEF Dated

LEMMA SkipDated ==
    ASSUME AlertInv, EvalBounds, NEW e \in Evaluator, A!Skip(e) \/ A!EventRefused(e) \/ A!MarkRule(e) \/ A!MarkRefused(e)
    PROVE  Dated(epc'[e], eval'[e], stamp) /\ \A g \in Evaluator \ {e} : epc'[g] = epc[g] /\ eval'[g] = eval[g]
<1>0. eval[e] \in Evals /\ Dated(epc[e], eval[e], stamp)  BY DEF AlertInv, AlertsTyped, EvalBounds
<1>1. epc[e] # "idle" /\ (A!Proceed(e, eval[e]) \/ \E r \in eval[e].todo : A!Proceed(e, [eval[e] EXCEPT !.todo = @ \ {r}]))
  BY DEF A!Skip, A!EventRefused, A!MarkRule, A!MarkRefused
<1>2. CASE A!Proceed(e, eval[e])  BY <1>0, <1>1, <1>2, ProceedDated
<1>3. CASE \E r \in eval[e].todo : A!Proceed(e, [eval[e] EXCEPT !.todo = @ \ {r}])
  <2>1. PICK r \in eval[e].todo : A!Proceed(e, [eval[e] EXCEPT !.todo = @ \ {r}])  BY <1>3
  <2> DEFINE left == eval[e].todo \ {r}
             l == [eval[e] EXCEPT !.todo = left]
  <2>2. A!Proceed(e, l)  BY <2>1
  <2>3. left \in SUBSET Rule  BY <1>0 DEF Evals
  <2> HIDE DEF left
  <2>4. l \in Evals /\ l.row = eval[e].row /\ l.now = eval[e].now  BY <1>0, <2>3 DEF Evals
  <2> HIDE DEF l
  <2> QED  BY <1>0, <1>1, <2>2, <2>4, ProceedDated
<1> QED  BY <1>1, <1>2, <1>3

LEMMA DeliverDated ==
    ASSUME AlertInv, EvalBounds, NEW e \in Evaluator, A!Deliver(e)
    PROVE  Dated(epc'[e], eval'[e], stamp) /\ \A g \in Evaluator \ {e} : epc'[g] = epc[g] /\ eval'[g] = eval[g]
<1>0. /\ epc \in [Evaluator -> EPlaces] /\ eval \in [Evaluator -> Evals] /\ eval[e] \in Evals
      /\ Dated(epc[e], eval[e], stamp)
  BY DEF AlertInv, AlertsTyped, EvalBounds
<1>1. PICK r \in eval[e].todo : eval' = [eval EXCEPT ![e].todo = @ \ {r}, ![e].firing = {r}]  BY DEF A!Deliver
<1>2. epc[e] = "deciding" /\ epc' = [epc EXCEPT ![e] = "delivered"]  BY DEF A!Deliver
<1> DEFINE l == [eval[e] EXCEPT !.todo = @ \ {r}, !.firing = {r}]
<1>3. eval'[e] = l /\ \A g \in Evaluator \ {e} : epc'[g] = epc[g] /\ eval'[g] = eval[g]  BY <1>0, <1>1, <1>2
<1>4. l.row = eval[e].row /\ l.now = eval[e].now  BY <1>0 DEF Evals
<1> HIDE DEF l
<1> QED  BY <1>0, <1>2, <1>3, <1>4 DEF Dated

LEMMA EvalsDated ==
    ASSUME AlertInv, EvalBounds, [A!Next]_aVars
    PROVE  \A g \in Evaluator : Dated(epc'[g], eval'[g], stamp')
<1>0. /\ epc \in [Evaluator -> EPlaces] /\ eval \in [Evaluator -> Evals] /\ stamp \in Nat
      /\ \A g \in Evaluator : Dated(epc[g], eval[g], stamp)
      /\ \A g \in Evaluator : eval[g].row.at \in Nat
  BY DEF AlertInv, AlertsTyped, ShownInv, IngestTypes, EvalBounds, Evals, FactRow
<1>1. ASSUME NEW e \in Evaluator, stamp' = stamp, Dated(epc'[e], eval'[e], stamp),
             \A g \in Evaluator \ {e} : epc'[g] = epc[g] /\ eval'[g] = eval[g]
      PROVE  \A g \in Evaluator : Dated(epc'[g], eval'[g], stamp')
  BY <1>0, <1>1
<1>2. CASE A!Evaluate
  <2>1. PICK e \in Evaluator :
          \/ A!Begin(e) \/ A!ReadFacts(e) \/ A!Skip(e) \/ A!Deliver(e)
          \/ A!RecordEvent(e) \/ A!EventRefused(e) \/ A!MarkRule(e) \/ A!MarkRefused(e) \/ A!Abort(e)
    BY <1>2 DEF A!Evaluate
  <2>2. CASE A!Begin(e)  BY <2>2, BeginDated
  <2>3. CASE A!ReadFacts(e)
    <3>1. stamp' = stamp  BY <2>3 DEF A!ReadFacts
    <3> QED  BY <1>1, <2>3, <3>1, ReadDated
  <2>4. CASE A!Skip(e) \/ A!EventRefused(e) \/ A!MarkRule(e) \/ A!MarkRefused(e)
    <3>1. stamp' = stamp  BY <2>4 DEF A!Skip, A!EventRefused, A!MarkRule, A!MarkRefused
    <3> QED  BY <1>1, <2>4, <3>1, SkipDated
  <2>5. CASE A!Deliver(e)
    <3>1. stamp' = stamp  BY <2>5 DEF A!Deliver
    <3> QED  BY <1>1, <2>5, <3>1, DeliverDated
  <2>6. CASE A!RecordEvent(e)
    <3>1. stamp' = stamp /\ eval' = eval /\ epc[e] = "delivered" /\ epc' = [epc EXCEPT ![e] = "recorded"]
      BY <2>6 DEF A!RecordEvent
    <3>2. Dated(epc'[e], eval'[e], stamp)  BY <1>0, <3>1 DEF Dated
    <3> QED  BY <1>0, <1>1, <3>1, <3>2
  <2>7. CASE A!Abort(e)
    <3>1. stamp' = stamp /\ eval' = [eval EXCEPT ![e] = A!Off] /\ epc' = [epc EXCEPT ![e] = "idle"]
      BY <2>7 DEF A!Abort
    <3>2. Dated("idle", A!Off, stamp)  BY <1>0, OffDated
    <3> QED  BY <1>0, <1>1, <3>1, <3>2
  <2> QED  BY <2>1, <2>2, <2>3, <2>4, <2>5, <2>6, <2>7
<1>3. CASE ~A!Evaluate
  <2>1. UNCHANGED <<epc, eval>>
    BY <1>3 DEF A!Next, A!alertVars, A!ListingFlips, A!UpdateRule, A!Passes, aVars
  <2>2. stamp' = stamp \/ stamp' = stamp + 1
    BY <1>3 DEF A!Next, A!Ingest, A!Load, A!See, A!Reject, A!Insert, A!CommitNoChange, A!CommitPrice, A!Rollback,
                A!Stamp, A!ListingFlips, A!UpdateRule, A!Passes, aVars
  <2> QED  BY <1>0, <2>1, <2>2 DEF Dated
<1> QED  BY <1>2, <1>3

LEMMA EvalBoundsStep ==
    ASSUME AlertInv, AlertInv', EvalBounds, [A!Next]_aVars
    PROVE  EvalBounds'
<1>0. /\ epc \in [Evaluator -> EPlaces] /\ eval \in [Evaluator -> Evals] /\ stamp \in Nat
      /\ \A g \in Evaluator : Dated(epc[g], eval[g], stamp)
      /\ alerts \in [Rule -> RuleRow] /\ alert_events \in Seq(EventRow)
      /\ \A r \in Rule : alerts[r].triggered \in Nat /\ alerts[r].triggered <= stamp
      /\ \A n \in Event : alert_events[n].row \in Nat
      /\ Event = 1..Len(alert_events) /\ Len(alert_events) \in Nat
  BY EventsTyped DEF AlertInv, AlertsTyped, ShownInv, IngestTypes, EvalBounds, RuleRow, EventRow
<1>1. \A g \in Evaluator : Dated(epc'[g], eval'[g], stamp')  BY EvalsDated
<1>2. stamp' = stamp \/ stamp' = stamp + 1
  BY DEF A!Next, A!Ingest, A!Load, A!See, A!Reject, A!Insert, A!CommitNoChange, A!CommitPrice, A!Rollback,
         A!Evaluate, A!Begin, A!ReadFacts, A!Skip, A!Deliver, A!RecordEvent, A!EventRefused, A!MarkRule,
         A!MarkRefused, A!Abort, A!Stamp, A!ListingFlips, A!UpdateRule, A!Passes, aVars
<1>3. edits' \in 0..MaxEdits /\ flips' \in 0..MaxFlips
  <2>1. edits \in 0..MaxEdits /\ flips \in 0..MaxFlips /\ MaxEdits \in Nat /\ MaxFlips \in Nat
    BY ServicesAssumption DEF EvalBounds
  <2>2. \/ UNCHANGED <<edits, flips>>
        \/ edits < MaxEdits /\ edits' = edits + 1 /\ UNCHANGED flips
        \/ flips < MaxFlips /\ flips' = flips + 1 /\ UNCHANGED edits
    BY DEF A!Next, A!alertVars, A!Evaluate, A!Begin, A!ReadFacts, A!Skip, A!Deliver, A!RecordEvent, A!EventRefused,
           A!MarkRule, A!MarkRefused, A!Abort, A!ListingFlips, A!UpdateRule, A!Passes, aVars
  <2> QED  BY <2>1, <2>2
<1>4. CASE UNCHANGED <<alerts, alert_events>>
  <2>1. \A n \in Event : 1 <= alert_events[n].at /\ alert_events[n].row <= stamp'  BY <1>0, <1>2 DEF EvalBounds
  <2>2. \A r \in Rule : alerts[r].triggered <= stamp'  BY <1>0, <1>2
  <2>3. Len(alert_events) <= MaxEvents  BY DEF EvalBounds
  <2> QED  BY <1>1, <1>3, <1>4, <2>1, <2>2, <2>3 DEF EvalBounds, Event
<1>5. CASE A!UpdateRule
  <2>1. PICK r \in Rule : \E type \in AlertTypes : alerts' = [alerts EXCEPT ![r].type = type]
    BY <1>5 DEF A!UpdateRule
  <2>2. PICK type \in AlertTypes : alerts' = [alerts EXCEPT ![r].type = type]  BY <2>1
  <2>3. \A s \in Rule : alerts'[s].triggered = alerts[s].triggered  BY <1>0, <2>2 DEF RuleRow
  <2>4. UNCHANGED <<stamp, alert_events>>  BY <1>5 DEF A!UpdateRule
  <2> QED  BY <1>0, <1>1, <1>3, <2>3, <2>4 DEF EvalBounds, Event
<1>6. CASE \E e \in Evaluator : A!MarkRule(e)
  <2>1. PICK e \in Evaluator : A!MarkRule(e)  BY <1>6
  <2>2. PICK r \in eval[e].firing :
           /\ alerts' = [alerts EXCEPT ![r].triggered = eval[e].now]
           /\ alert_events' = [n \in DOMAIN alert_events |->
                                 IF alert_events[n].rule = r /\ alert_events[n].at = eval[e].now
                                 THEN [alert_events[n] EXCEPT !.marked = TRUE] ELSE alert_events[n]]
    BY <2>1 DEF A!MarkRule
  <2>3. stamp' = stamp /\ eval[e].now <= stamp /\ eval[e] \in Evals
    BY <2>1 DEF A!MarkRule, AlertInv, AlertsTyped
  <2>4. \A s \in Rule : alerts'[s].triggered <= stamp
    <3>1. \A s \in Rule : alerts'[s].triggered \in {alerts[s].triggered, eval[e].now}  BY <1>0, <2>2 DEF RuleRow
    <3> QED  BY <1>0, <2>3, <3>1
  <2>5. \A n \in Event : alert_events[n] \in EventRow  BY <1>0, EventsTyped DEF AlertInv, AlertsTyped
  <2>6. ASSUME NEW n \in Event PROVE alert_events'[n].at = alert_events[n].at /\ alert_events'[n].row = alert_events[n].row
    BY <2>2, <2>5 DEF EventRow, Event
  <2>7. DOMAIN alert_events' = Event  BY <2>2 DEF Event
  <2>8. Len(alert_events') = Len(alert_events)
    <3>1. alert_events' \in Seq(EventRow)  BY DEF AlertInv, AlertsTyped
    <3>2. DOMAIN alert_events' = 1..Len(alert_events') /\ Len(alert_events') \in Nat  BY <3>1
    <3> QED  BY <1>0, <2>7, <3>2
  <2> QED  BY <1>1, <1>3, <2>3, <2>4, <2>6, <2>7, <2>8 DEF EvalBounds, Event
<1>7. CASE \E e \in Evaluator : A!RecordEvent(e)
  <2>1. PICK e \in Evaluator : A!RecordEvent(e)  BY <1>7
  <2> DEFINE l == eval[e]
             event(r) == [rule |-> r, type |-> l.rules[r].type, at |-> l.now, alone |-> l.alone, marked |-> FALSE,
                          row |-> IF l.rules[r].type = "availability" THEN 0 ELSE l.row.at,
                          new |-> IF l.rules[r].type # "availability" THEN l.row.price
                                  ELSE IF l.active THEN 1 ELSE 0]
  <2>2. PICK r \in l.firing : alert_events' = Append(alert_events, event(r))  BY <2>1 DEF A!RecordEvent
  <2>3. epc[e] = "delivered" /\ Len(alert_events) < MaxEvents /\ UNCHANGED <<stamp, alerts>>  BY <2>1 DEF A!RecordEvent
  <2> DEFINE ev == event(r)
             k == Len(alert_events) + 1
  <2>4. ev.at = l.now /\ ev.row \in {0, l.row.at}  OBVIOUS
  <2>5. alert_events' = Append(alert_events, ev)  BY <2>2
  <2> HIDE DEF ev
  <2>6. Dated(epc[e], l, stamp)  BY <1>0
  <2>7. 1 <= ev.at /\ ev.row <= stamp  BY <1>0, <2>3, <2>4, <2>6 DEF Dated
  <2>8. Len(alert_events') = k /\ DOMAIN alert_events' = 1..k /\ alert_events'[k] = ev
        /\ \A n \in Event : alert_events'[n] = alert_events[n]
    BY <1>0, <2>5
  <2>9. \A n \in 1..k : n \in Event \/ n = k  BY <1>0
  <2>10. \A n \in DOMAIN alert_events' : 1 <= alert_events'[n].at /\ alert_events'[n].row <= stamp
    BY <2>7, <2>8, <2>9 DEF EvalBounds
  <2>11. Len(alert_events') <= MaxEvents
    <3>1. MaxEvents \in Nat  BY ServicesAssumption
    <3> QED  BY <1>0, <2>3, <2>8, <3>1
  <2> QED  BY <1>1, <1>3, <2>3, <2>10, <2>11 DEF EvalBounds, Event
<1>8. UNCHANGED <<alerts, alert_events>> \/ A!UpdateRule
      \/ (\E e \in Evaluator : A!MarkRule(e)) \/ (\E e \in Evaluator : A!RecordEvent(e))
  BY DEF A!Next, A!alertVars, A!Evaluate, A!Begin, A!ReadFacts, A!Skip, A!Deliver, A!EventRefused,
         A!MarkRefused, A!Abort, A!ListingFlips, A!Passes, aVars
<1> QED  BY <1>4, <1>5, <1>6, <1>7, <1>8

AlertTyped == AlertInv /\ IngestBounds /\ EvalBounds

LEMMA AlertTypedStep == ASSUME AlertTyped, [A!Next]_aVars PROVE AlertTyped'
<1>1. AlertInv'  BY AlertStays DEF AlertTyped
<1>2. IngestTypes /\ IngestTypes'  BY <1>1 DEF AlertTyped, AlertInv, ShownInv
<1> QED  BY <1>1, <1>2, IngestBoundsStep, EvalBoundsStep DEF AlertTyped

LEMMA AlertTypedStart == ASSUME A!Init PROVE AlertTyped
<1>0. MaxStamp \in Nat \ {0} /\ {MaxEvents, MaxEdits, MaxFlips} \subseteq Nat  BY ServicesAssumption
<1>1. AlertInv  BY AlertInit
<1>2. IngestBounds
  <2>1. stamp = 1 /\ crossed = FALSE /\ (\A r \in fact_price : r.at = 1) /\ ingest = [i \in A!Ingestor |-> A!Fresh]
        /\ ipc = [i \in A!Ingestor |-> "idle"]
    BY DEF A!Init, A!IngestInit
  <2>2. A!Fresh.replaces = {}  BY DEF A!Fresh
  <2>3. stamp \in 1..MaxStamp /\ \A r \in fact_price : 1 <= r.at  BY <1>0, <2>1
  <2>4. \A i \in A!Ingestor : ipc[i] = "idle" /\ ingest[i].replaces = {}  BY <2>1, <2>2
  <2> QED  BY <2>1, <2>3, <2>4 DEF IngestBounds
<1>3. EvalBounds
  <2>1. stamp = 1 /\ alert_events = <<>> /\ edits = 0 /\ flips = 0 /\ eval = [e \in Evaluator |-> A!Off]
        /\ epc = [e \in Evaluator |-> "idle"]
    BY DEF A!Init, A!IngestInit
  <2>2. \A r \in Rule : alerts[r].triggered <= 1
    <3>1. alerts \in [Rule -> [type : AlertTypes, triggered : {A!Never}]]  BY DEF A!Init
    <3> QED  BY <3>1 DEF A!Never
  <2>3. Dated("idle", A!Off, stamp)  BY <2>1, OffDated
  <2>4. Event = {} /\ Len(alert_events) = 0  BY <2>1 DEF Event
  <2> QED  BY <1>0, <2>1, <2>2, <2>3, <2>4 DEF EvalBounds
<1> QED  BY <1>1, <1>2, <1>3 DEF AlertTyped

LEMMA AlertTypedSays == AlertTyped => A!TypeOK
<1> SUFFICES ASSUME AlertTyped PROVE A!TypeOK  OBVIOUS
<1>0. AlertInv /\ ShownInv /\ AlertsTyped /\ IngestTypes /\ IngestBounds /\ EvalBounds /\ stamp \in Nat /\ MaxStamp \in Nat
  BY ServicesAssumption DEF AlertTyped, AlertInv, ShownInv, IngestTypes
<1>1. A!IngestTypeOK
  <2> DEFINE Rows == [at : 1..MaxStamp, price : Price, from : Known]
  <2>1. ASSUME NEW r \in PriceRow, 1 <= r.at, r.at <= stamp PROVE r \in Rows
    <3>1. r.at \in 1..MaxStamp  BY <1>0, <2>1 DEF PriceRow, IngestBounds
    <3> QED  BY <2>1, <3>1 DEF PriceRow
  <2>2. fact_price \subseteq Rows
    <3>1. ASSUME NEW r \in fact_price PROVE r \in Rows
      <4>1. r \in PriceRow /\ 1 <= r.at /\ r.at <= stamp  BY <1>0 DEF IngestTypes, IngestBounds
      <4> QED  BY <2>1, <4>1
    <3> QED  BY <3>1
  <2>3. ASSUME NEW i \in A!Ingestor
        PROVE  /\ ingest[i].copy \in Shown /\ ingest[i].seen \in Known
               /\ ingest[i].at \in 0..MaxStamp /\ ingest[i].replaces \subseteq Rows
    <3>1. ingest[i] \in Ingests /\ ingest[i].at <= stamp  BY <1>0 DEF IngestTypes
    <3>2. ingest[i].copy \in Shown /\ ingest[i].seen \in Known /\ ingest[i].at \in Nat
          /\ ingest[i].replaces \subseteq PriceRow
      BY <3>1 DEF Ingests
    <3>3. ingest[i].at \in 0..MaxStamp  BY <1>0, <3>1, <3>2 DEF IngestBounds
    <3>4. \A r \in ingest[i].replaces : 1 <= r.at /\ r.at <= stamp  BY <1>0 DEF IngestBounds
    <3> QED  BY <2>1, <3>2, <3>3, <3>4
  <2> HIDE DEF Rows
  <2>4. \A i \in A!Ingestor :
          /\ ingest[i].copy \in Shown /\ ingest[i].seen \in Known
          /\ ingest[i].at \in 0..MaxStamp /\ ingest[i].replaces \subseteq fact_price \cup Rows
    BY <2>3
  <2>5. stamp \in 1..MaxStamp /\ crossed \in BOOLEAN /\ listing \in Shown
        /\ ipc \in [A!Ingestor -> {"idle", "loaded", "seen", "inserted"}]
    BY <1>0 DEF IngestBounds, IngestTypes
  <2> QED  BY <2>2, <2>4, <2>5, Zenon DEF A!IngestTypeOK, Rows, Shown, Known
<1>2. alerts \in [Rule -> [type : AlertTypes, triggered : 0..MaxStamp]]
  <2>1. ASSUME NEW r \in Rule PROVE alerts[r] \in [type : AlertTypes, triggered : 0..MaxStamp]
    <3>1. alerts[r] \in RuleRow /\ alerts[r].triggered <= stamp  BY <1>0 DEF AlertsTyped, EvalBounds
    <3>2. alerts[r].triggered \in 0..MaxStamp  BY <1>0, <3>1 DEF RuleRow, IngestBounds
    <3> QED  BY <3>1, <3>2 DEF RuleRow
  <2>2. alerts = [r \in Rule |-> alerts[r]]  BY <1>0 DEF AlertsTyped
  <2> HIDE DEF AlertsTyped
  <2> QED  BY <2>1, <2>2
<1>3. \A n \in DOMAIN alert_events :
          /\ alert_events[n].rule \in Rule /\ alert_events[n].type \in AlertTypes
          /\ alert_events[n].at \in 1..MaxStamp /\ alert_events[n].row \in 0..MaxStamp
          /\ {alert_events[n].alone, alert_events[n].marked} \subseteq BOOLEAN
  <2> SUFFICES ASSUME NEW n \in Event
               PROVE  /\ alert_events[n].rule \in Rule /\ alert_events[n].type \in AlertTypes
                      /\ alert_events[n].at \in 1..MaxStamp /\ alert_events[n].row \in 0..MaxStamp
                      /\ {alert_events[n].alone, alert_events[n].marked} \subseteq BOOLEAN
    BY DEF Event
  <2>1. alert_events[n] \in EventRow  BY <1>0, EventsTyped DEF AlertsTyped
  <2>2. alert_events[n].rule \in Rule /\ alert_events[n].type \in AlertTypes /\ alert_events[n].at \in Nat
        /\ alert_events[n].row \in Nat /\ alert_events[n].alone \in BOOLEAN /\ alert_events[n].marked \in BOOLEAN
    BY <2>1 DEF EventRow
  <2>3. alert_events[n].at <= stamp /\ 1 <= alert_events[n].at /\ alert_events[n].row <= stamp
    BY <1>0 DEF AlertsTyped, EvalBounds
  <2>4. alert_events[n].at \in 1..MaxStamp /\ alert_events[n].row \in 0..MaxStamp
    BY <1>0, <2>2, <2>3 DEF IngestBounds
  <2> QED  BY <2>2, <2>4
<1>4. \A e \in Evaluator : eval[e].now \in 0..MaxStamp /\ {eval[e].todo, eval[e].firing} \subseteq SUBSET Rule
  <2>1. \A e \in Evaluator : eval[e].now \in Nat /\ eval[e].now <= stamp /\ eval[e].todo \in SUBSET Rule
                             /\ eval[e].firing \in SUBSET Rule
    BY <1>0 DEF AlertsTyped, Evals
  <2>2. \A e \in Evaluator : eval[e].now \in 0..MaxStamp  BY <1>0, <2>1 DEF IngestBounds
  <2> QED  BY <2>1, <2>2
<1>5. Len(alert_events) <= MaxEvents /\ edits \in 0..MaxEdits /\ flips \in 0..MaxFlips  BY <1>0 DEF EvalBounds
<1>6. is_active \in BOOLEAN /\ epc \in [Evaluator -> EPlaces]  BY <1>0 DEF AlertsTyped
<1> QED  BY <1>1, <1>2, <1>3, <1>4, <1>5, <1>6, Zenon DEF A!TypeOK, EPlaces

\* Every part of the composition keeps its types: where a fetch, an ingest, an evaluation and a write
\* are and what they hold, the counters, the bucket, the history and the events (scraper_pool.py,
\* proxy_provider_limiter.py, scraper/service.py, alert_tasks.py, data_firewall/writer.py).
THEOREM ServicesAreTyped == (A!Spec => []A!TypeOK) /\ (G!Spec => []G!TypeOK) /\ (MCSpec => []TypesOK)
<1>1. A!Spec => []A!TypeOK
  <2>1. UNCHANGED A!vars <=> UNCHANGED aVars  BY DEF A!vars, A!ingestVars, A!alertVars, aVars
  <2>2. ASSUME AlertTyped, [A!Next]_(A!vars) PROVE AlertTyped'  BY <2>1, <2>2, AlertTypedStep
  <2> QED  BY <2>2, AlertTypedStart, AlertTypedSays, PTL DEF A!Spec
<1>2. G!Spec => []G!TypeOK
  <2>1. UNCHANGED G!vars <=> UNCHANGED gVars  BY DEF G!vars, gVars
  <2>2. ASSUME GateTyped, [G!Next]_(G!vars) PROVE GateTyped'  BY <2>1, <2>2, GateTypes
  <2>3. GateTyped => G!TypeOK  BY DEF GateTyped
  <2> QED  BY <2>2, <2>3, GateStarts, PTL DEF G!Spec
<1>3. MCSpec => []TypesOK
  <2> DEFINE Inv == /\ FetchInv /\ BudgetInv
                    /\ part \in AlertParts => AlertTyped
                    /\ part = "gate" => GateTyped
  <2>1. MCInit => Inv  BY FetchStart, BudgetStart, AlertTypedStart, GateStarts DEF MCInit
  <2>2. ASSUME Inv, [MCNext]_allVars PROVE Inv'
    <3>1. [Next]_vars  BY <2>2 DEF MCNext, allVars
    <3>2. FetchInv' /\ BudgetInv'  BY <2>2, <3>1, FetchStays, BudgetStep
    <3>3. (part \in AlertParts => AlertTyped)'  BY <2>2, AlertPart, AlertTypedStep
    <3>4. (part = "gate" => GateTyped)'  BY <2>2, GatePart, GateTypes
    <3> QED  BY <3>2, <3>3, <3>4
  <2>3. Inv => TypesOK  BY AlertTypedSays DEF BudgetInv, FetchTyped, GateTyped, TypesOK
  <2> HIDE DEF Inv
  <2> QED  BY <2>1, <2>2, <2>3, PTL DEF MCSpec, allVars
<1> QED  BY <1>1, <1>2, <1>3

=============================================================================
