------------------------- MODULE CompositeCustody -------------------------
(***************************************************************************)
(* Taking a document into custody under a contract that two places state:  *)
(* the Pydantic models of the service and the scope CHECK of the table     *)
(* archive_documents, which migrations 014 to 021 replace one after the    *)
(* other while workers run.  One request is offered, stored, lost on the   *)
(* way back and offered again; ArchiveWriter has the races of several.     *)
(* The store, the database and the worker fail between any two steps.      *)
(*                                                                         *)
(* A request is the body as it arrives: fields left out are Absent.        *)
(***************************************************************************)
EXTENDS CompositeIdentity

CONSTANTS
    Requests,    \* the bodies that may be offered
    MaxTries,    \* how often one is offered
    MaxFaults    \* bound: how many steps fail

ASSUME MaxTriesAssumption == MaxTries \in Nat \ {0}
ASSUME MaxFaultsAssumption == MaxFaults \in Nat

VARIABLES
    level,       \* the scope CHECK in force: 0 before migration 014, k for contracts v1 .. vk
    request,     \* the body on the wire
    tries,
    pc,          \* where the worker is in archive_document
    object,      \* the bytes of the request in hand or of the row are in object storage
    row,         \* the row of archive_documents, or Null
    answer,
    strays,      \* how many objects earlier tries left behind; each try has a key of its own
    faults       \* how many steps failed

vars == <<level, request, tries, pc, object, row, answer, strays, faults>>

---------------------------------------------------------------------------
(* What the service accepts.                                               *)

IsComposite(d) == d.report_type = "composite_review"

(* The part of an identity that names its scope: v3 keeps it in the        *)
(* request it answers.                                                     *)
ScopeOf(i) ==
    IF i.contract_version = 3 THEN i.selection.source_request ELSE i.selection

_report_scope_must_agree(d) ==
    LET i == d.composite_report_identity IN
    \/ /\ IsComposite(d)
       /\ d.portfolio_scope = "composite" /\ d.portfolio_id = Null
       /\ i # Null /\ d.composite_id # Null
       /\ <<i.selection.tenant_id, ScopeOf(i).composite_id, ScopeOf(i).start, ScopeOf(i).end>>
            = <<d.tenant_id, d.composite_id, d.reporting_period_start, d.reporting_period_end>>
       /\ d.as_of_date = ScopeOf(i).end
       /\ d.template_id = "composite-review" /\ d.format = "xlsx"
       /\ d.template_version = i.contract_version
       /\ d.report_data_contract_version = i.contract_version
       /\ d.evidence = {"report_revision_id", "document_reference", "declared_artifact_sha256"}
    \/ /\ ~IsComposite(d)
       /\ d.portfolio_id # Null /\ d.portfolio_scope # "composite"
       /\ d.composite_id = Null /\ i = Null

(* A summary of reviewed text is archived only when it was rendered and    *)
(* its hashes have the form of their source; all but an accepted           *)
(* commentary, which has no such field, must be for the advisor.           *)
SummaryIsAdmissible(s) ==
    /\ s.included_in_render /\ s.hash = "sha256"
    /\ s.kind # "advisor_commentary" => s.audience = "advisor"

SummaryFits(s, d) ==
    IF s.kind = "idea_evidence_pack"
    THEN /\ d.report_type = "proof_pack" /\ d.template_id = "proof-pack"
         /\ d.report_data_contract_version = "dpm_proof_pack_report_input.v1"
    ELSE d.report_type = "portfolio_review" /\ d.template_id = "portfolio-review"

_dates_must_be_ordered(d) ==
    /\ d.reporting_period_start <= d.reporting_period_end
    /\ Null \notin {d.retention_start_date, d.retain_until_date}
         => d.retention_start_date <= d.retain_until_date
    /\ \A s \in d.summaries : SummaryIsAdmissible(s) /\ SummaryFits(s, d)

ArchiveDocumentInput(d) ==
    /\ d.composite_report_identity # Null
         => CompositeCustodyIdentity(d.composite_report_identity)
    /\ _report_scope_must_agree(d)
    /\ _dates_must_be_ordered(d)

---------------------------------------------------------------------------
(* Parsing a body and dumping a model.  A list left out becomes an empty   *)
(* list; v8 leaves an empty product list out again.  A linked request      *)
(* keeps apart a sequence that is null and one that is not there: each has *)
(* a model class of its own.                                               *)

WithIdentity(d, i) == [d EXCEPT !.composite_report_identity = i]

IsSourceContext(d) ==
    /\ d.composite_report_identity # Null
    /\ d.composite_report_identity.contract_version = 8

Parse(d) ==
    IF IsSourceContext(d) /\ d.composite_report_identity.source_products = Absent
    THEN WithIdentity(d, [d.composite_report_identity EXCEPT !.source_products = <<>>])
    ELSE d

Dump(d) ==
    IF IsSourceContext(d) /\ d.composite_report_identity.source_products = <<>>
    THEN WithIdentity(d, [d.composite_report_identity EXCEPT !.source_products = Absent])
    ELSE d

IsLinked(d) ==
    /\ d.composite_report_identity # Null
    /\ d.composite_report_identity.contract_version = 3

(* Mutant: a dump that drops null fields, as exclude_none would.           *)
Stored_ExcludeNone(d) ==
    IF IsLinked(d)
    THEN WithIdentity(d, [d.composite_report_identity EXCEPT
                            !.selection.source_request.restatement_sequence = Absent])
    ELSE Dump(d)

(* The JSON column of the row.                                             *)
Stored(d) == Dump(d)

(* What reaches the validators has passed the checks of single fields:     *)
(* objects have their fields, lists are lists, dates are days.             *)
IsObject(o, fields) == fields \subseteq DOMAIN o /\ o = [f \in DOMAIN o |-> o[f]]
IsList(s) == s \in Seq({s[n] : n \in DOMAIN s})

DocumentFields ==
    {"report_type", "portfolio_scope", "portfolio_id", "composite_id", "composite_report_identity",
     "tenant_id", "reporting_period_start", "reporting_period_end", "as_of_date", "template_id",
     "template_version", "report_data_contract_version", "format", "evidence", "summaries",
     "retention_start_date", "retain_until_date"}

IsVector(ws) == IsList(ws) /\ \A n \in DOMAIN ws : ws[n].start \in Int /\ ws[n].end \in Int

IsMonths(ms) ==
    /\ IsList(ms)
    /\ \A n \in DOMAIN ms : ms[n].month \in Int /\ ms[n].evidence_kind \in {"PUBLISHED", "EVALUATED_ONLY"}

IsProducts(ps) ==
    \A n \in DOMAIN ps :
      /\ IsVector(ps[n].pin.selection.windows)
      /\ ps[n].pin.kind = "CALENDAR_RETURN" => ps[n].pin.year \in Int

IsIdentity(i) ==
    /\ i.contract_version \in {1, 2, 3, 8} => IsVector(i.selection.windows)
    /\ i.contract_version \in {4, 6, 7} => IsMonths(i.selection.months)
    /\ i.contract_version \in {6, 7} =>
         \A n \in DOMAIN i.selection.months :
           LET receipts == i.selection.months[n].lineage_receipts IN
           receipts = Absent \/ IsList(receipts)
    /\ i.contract_version \in {2, 8} => i.source_products = Absent \/ IsProducts(i.source_products)
    /\ i.contract_version = 8 =>
         IsObject(i, {"contract_version", "selection", "source_products", "source_context", "definition"})

(* The ways a body may be written.                                         *)
Spellings(d) == {d, Parse(d), Dump(d)}

ASSUME RequestsAssumption ==
    \A d \in Requests :
      /\ IsObject(d, DocumentFields)
      /\ d.reporting_period_start \in Int /\ d.reporting_period_end \in Int
      /\ d.composite_report_identity # Null => IsIdentity(d.composite_report_identity)
      /\ \A e \in Spellings(d) :
           e # Null /\ (e.composite_report_identity = Null => d.composite_report_identity = Null)

ASSUME AbsentAssumption == Absent # <<>>

---------------------------------------------------------------------------
(* What the database accepts: archive_documents_scope_check after          *)
(* migration 013 + k.  It sees the JSON that was stored, and repeats only  *)
(* part of what the models say.                                            *)

MonthsCheck(d, sel) ==
    /\ d.reporting_period_start = FirstDay(Month(d.reporting_period_start))
    /\ d.reporting_period_end = LastDay(Month(d.reporting_period_end))
    /\ sel.months # <<>>
    /\ sel.months[1].month = Month(d.reporting_period_start)
    /\ sel.months[Len(sel.months)].month = Month(d.reporting_period_end)

PooledCheck(sel) ==
    /\ sel.start < sel.end
    /\ \/ sel.correction_of_calculation_id = Null /\ sel.predecessor_response_digest = Null
       \/ /\ Null \notin {sel.correction_of_calculation_id, sel.predecessor_response_digest}
          /\ sel.correction_of_calculation_id # sel.calculation_id
    /\ sel.source_pins # <<>> /\ sel.expected_portfolio_ids # <<>>

AmendmentCheck(sel) ==
    \A n \in DOMAIN sel.months :
      LET m == sel.months[n] IN
      /\ m.lineage_receipts \notin {Absent, <<>>}
      /\ m.evidence_kind = "PUBLISHED" => m.parent_publication_response_digest # Absent
      /\ \A r \in DOMAIN m.lineage_receipts : m.lineage_receipts[r] \in {"v1", "v2"}

Corrections(sel) == {n \in DOMAIN sel.months : sel.months[n].product_version = "v4"}

(* The receipts of product version v3, counted over all the corrections.   *)
RootReceipts(sel) ==
    UNION {{<<n, r>> : r \in {r \in DOMAIN sel.months[n].lineage_receipts :
                                sel.months[n].lineage_receipts[r] = "v3"}} :
           n \in Corrections(sel)}

HistoricalCheck(sel) ==
    /\ \A n \in DOMAIN sel.months :
         LET m == sel.months[n] IN
         \/ /\ m.product_version = "v3" /\ m.lineage_receipts = Absent
            /\ m.parent_publication_response_digest = Absent
         \/ /\ m.product_version = "v4" /\ m.lineage_receipts \notin {Absent, <<>>}
            /\ m.lineage_receipts[Len(m.lineage_receipts)] = "v3"
            /\ \/ m.evidence_kind = "EVALUATED_ONLY"
               \/ m.parent_publication_response_digest # Absent
    /\ Cardinality(RootReceipts(sel)) = Cardinality(Corrections(sel))

ProductCheck(primary, products, hash) ==
    /\ Distinct(ProductKey, products)
    /\ \A n \in DOMAIN products :
         LET pin == products[n].pin
             ws == pin.selection.windows IN
         /\ ws # <<>> /\ ws = Subvector(primary.windows, pin.selection)
         /\ \/ /\ pin.kind = "CALENDAR_RETURN" /\ Len(ws) = MonthsPerYear
               /\ pin.selection.start = FirstDay((pin.year - 1) * MonthsPerYear + 1)
               /\ pin.selection.end = LastDay(pin.year * MonthsPerYear)
            \/ /\ pin.kind = "TRAILING_RETURN" /\ Len(ws) = pin.months
               /\ pin.selection.end = primary.end
         /\ products[n].source_response_digest = pin.selection.response_digest
         /\ Scope(pin.selection) = Scope(primary)
         /\ \A w \in DOMAIN ws : ws[w].definition_content_hash = hash

SourceContextCheck(d, i) ==
    LET ws == i.selection.windows
        ms == i.source_context.memberships
        pin == i.definition.pin IN
    /\ i.definition.source_response_digest = pin.response_digest
    /\ i.source_context.definition = pin
    /\ Len(ms) <= 2 /\ Distinct(MembershipRevision, ms)
    /\ i.source_context.since_inception \/ ms # <<>>
    /\ ws # <<>> /\ Distinct(MaterializationId, ws)
    /\ ExactHorizon(ws, d.reporting_period_start, d.reporting_period_end)
    /\ \A n \in DOMAIN ws :
         /\ ws[n].definition_content_hash = pin.content_hash
         /\ ms # <<>> => \E k \in DOMAIN ms : ws[n].membership_content_hash = ms[k].content_hash
    /\ i.source_products # Absent
         => ProductCheck(i.selection, i.source_products, pin.content_hash)

LinkedCheck(d, sel) ==
    /\ sel.source_request.restatement_sequence \in {Absent, Null}
    /\ sel.windows # <<>>
    /\ sel.source_request.ids = [n \in DOMAIN sel.windows |-> sel.windows[n].id]
    /\ ExactHorizon(sel.windows, d.reporting_period_start, d.reporting_period_end)

IdentityCheck(d, i) ==
    /\ ScopeOf(i).composite_id = d.composite_id
    /\ ScopeOf(i).start = d.reporting_period_start /\ ScopeOf(i).end = d.reporting_period_end
    /\ CASE i.contract_version = 1 -> TRUE
         [] i.contract_version = 2 -> i.source_products \notin {Absent, <<>>}
         [] i.contract_version = 3 -> LinkedCheck(d, i.selection)
         [] i.contract_version = 4 -> MonthsCheck(d, i.selection)
         [] i.contract_version = 5 -> PooledCheck(i.selection)
         [] i.contract_version = 6 -> MonthsCheck(d, i.selection) /\ AmendmentCheck(i.selection)
         [] i.contract_version = 7 -> MonthsCheck(d, i.selection) /\ HistoricalCheck(i.selection)
         [] i.contract_version = 8 -> SourceContextCheck(d, i)

(* The CHECK at level k.  Before migration 014 the columns the service     *)
(* writes are missing and every INSERT fails.                              *)
scope_check(k, d) ==
    LET i == d.composite_report_identity IN
    /\ k >= 1
    /\ \/ /\ IsComposite(d)
          /\ d.portfolio_scope = "composite" /\ d.portfolio_id = Null
          /\ d.composite_id # Null /\ i # Null
          /\ i.selection.tenant_id = d.tenant_id /\ d.as_of_date = d.reporting_period_end
          /\ d.evidence = {"report_revision_id", "document_reference", "declared_artifact_sha256"}
          /\ d.template_id = "composite-review" /\ d.template_version \in 1 .. k
          /\ d.report_data_contract_version = d.template_version
          /\ i.contract_version = d.report_data_contract_version
          /\ IdentityCheck(d, i)
          /\ d.format = "xlsx"
       \/ /\ ~IsComposite(d) /\ d.portfolio_scope # "composite"
          /\ d.portfolio_id # Null /\ d.composite_id = Null /\ i = Null

---------------------------------------------------------------------------
Init ==
    /\ level = 0 /\ request \in Requests
    /\ tries = 0 /\ pc = "idle" /\ object = FALSE /\ row = Null /\ answer = "none"
    /\ strays = 0 /\ faults = 0

(* The body is parsed and validated before the handler runs; a refusal is  *)
(* a 422 and changes nothing.                                              *)
Offer ==
    /\ pc = "idle" /\ tries < MaxTries /\ tries' = tries + 1
    /\ IF ArchiveDocumentInput(Parse(request))
       THEN pc' = "lookup" /\ answer' = "none"
       ELSE pc' = "idle" /\ answer' = "invalid"
    /\ UNCHANGED <<level, request, object, row, strays, faults>>

(* get_by_archive_request_id: the retained row is parsed again, and the    *)
(* dumps of the two models are compared.                                   *)
Lookup ==
    /\ pc = "lookup"
    /\ IF row = Null
       THEN pc' = "put" /\ UNCHANGED answer
       ELSE /\ pc' = "idle"
            /\ answer' = CASE ~ArchiveDocumentInput(Parse(row)) -> "unreadable"
                           [] Dump(Parse(row)) = Dump(Parse(request)) -> "archived"
                           [] OTHER -> "conflict"
    /\ UNCHANGED <<level, request, tries, object, row, strays, faults>>

Put ==
    /\ pc = "put" /\ pc' = "save"
    /\ object' = TRUE
    /\ UNCHANGED <<level, request, tries, row, answer, strays, faults>>

(* The metadata is built from the dumped input, which validates it again,  *)
(* and inserted under the CHECK in force.                                  *)
Metadata == Parse(Dump(Parse(request)))
Insertable == ArchiveDocumentInput(Metadata) /\ scope_check(level, Stored(Metadata))

Save ==
    /\ pc = "save"
    /\ IF Insertable
       THEN pc' = "idle" /\ row' = Stored(Metadata) /\ answer' = "archived"
       ELSE pc' = "compensate" /\ UNCHANGED <<row, answer>>
    /\ UNCHANGED <<level, request, tries, object, strays, faults>>

(* The database fails: nothing was committed, or the row was and only the  *)
(* acknowledgement is lost.  The handler cannot tell.                      *)
SaveFails ==
    /\ pc = "save" /\ pc' = "compensate"
    /\ faults < MaxFaults /\ faults' = faults + 1
    /\ row' = row \/ (Insertable /\ row' = Stored(Metadata))
    /\ UNCHANGED <<level, request, tries, object, answer, strays>>

(* Every exception of the save deletes the bytes and reaches the caller.   *)
Compensate ==
    /\ pc = "compensate" /\ pc' = "idle"
    /\ object' = FALSE /\ answer' = "refused"
    /\ UNCHANGED <<level, request, tries, row, strays, faults>>

(* The worker dies, the store fails to put or to delete: the request ends  *)
(* with what it has done so far.  Bytes no row refers to stay behind.      *)
CutShort ==
    /\ pc # "idle" /\ pc' = "idle"
    /\ faults < MaxFaults /\ faults' = faults + 1
    /\ IF row = Null
       THEN object' = FALSE /\ strays' = strays + (IF object THEN 1 ELSE 0)
       ELSE UNCHANGED <<object, strays>>
    /\ answer' = "failed"
    /\ UNCHANGED <<level, request, tries, row>>

(* The answer was lost: the same request comes again, an empty product     *)
(* list written out or left out.                                           *)
Resend ==
    /\ pc = "idle" /\ tries \in 1 .. MaxTries - 1
    /\ request' \in {Dump(request), Parse(request)}
    /\ request' # request
    /\ UNCHANGED <<level, tries, pc, object, row, answer, strays, faults>>

(* Mutant: the CHECK is added NOT VALID.                                   *)
RetainedRowsPass_NotValid(k) == TRUE

(* Adding a CHECK validates the retained rows; if one fails, the migration *)
(* is rolled back.                                                         *)
RetainedRowsPass(k) == row # Null => scope_check(k, row)

(* Migration 013 + k: the next one, or an earlier one replayed.            *)
Migrate(k) ==
    /\ k <= level + 1
    /\ RetainedRowsPass(k)
    /\ level' = k
    /\ UNCHANGED <<request, tries, pc, object, row, answer, strays, faults>>

Next ==
    \/ Offer \/ Lookup \/ Put \/ Save \/ SaveFails \/ Compensate \/ CutShort \/ Resend
    \/ \E k \in Versions : Migrate(k)

Spec == Init /\ [][Next]_vars

---------------------------------------------------------------------------
Identity == row.composite_report_identity
HasWindows == Identity.contract_version \in {1, 2, 3, 8}
HasMonths == Identity.contract_version \in {4, 6, 7}
RetainedComposite == row # Null /\ IsComposite(row)

DaysOf(ws) == UNION {ws[n].start .. ws[n].end : n \in DOMAIN ws}
Horizon == row.reporting_period_start .. row.reporting_period_end

(* The evidence behind a retained composite report is that of its horizon: *)
(* every day belongs to exactly one window and no window reaches outside;  *)
(* in a report over months no month has two pins, the first and the last   *)
(* have one, and the horizon is whole months.  The validators look only at *)
(* neighbours and at the two ends (composite_identity.py,                  *)
(* composite_linked.py, composite_eligibility.py).                         *)
HorizonCovered ==
    RetainedComposite =>
      /\ HasWindows =>
           LET ws == Identity.selection.windows IN
           /\ DaysOf(ws) = Horizon
           /\ \A day \in Horizon :
                Cardinality({n \in DOMAIN ws : day \in ws[n].start .. ws[n].end}) = 1
      /\ HasMonths =>
           LET ms == Identity.selection.months
               pinned(m) == {n \in DOMAIN ms : ms[n].month = m} IN
           /\ Horizon = UNION {FirstDay(m) .. LastDay(m) :
                               m \in Month(row.reporting_period_start)
                                       .. Month(row.reporting_period_end)}
           /\ \A m \in {Month(day) : day \in Horizon} : Cardinality(pinned(m)) <= 1
           /\ \A n \in DOMAIN ms : ms[n].month \in {Month(day) : day \in Horizon}
           /\ pinned(Month(row.reporting_period_start)) # {}
           /\ pinned(Month(row.reporting_period_end)) # {}

(* A product retained beside a calculation says what its name says, from   *)
(* that calculation's own windows: a calendar return is the whole of its   *)
(* year, a trailing return of n months the last n months of the horizon,   *)
(* each month one window of the primary vector (composite_products.py).    *)
ProductsTellThePrimary ==
    RetainedComposite /\ Identity.contract_version \in {2, 8} /\ Identity.source_products # Absent =>
      \A n \in DOMAIN Identity.source_products :
        LET pin == Identity.source_products[n].pin
            ws == Identity.selection.windows
            months == IF pin.kind = "CALENDAR_RETURN"
                      THEN (pin.year - 1) * MonthsPerYear + 1 .. pin.year * MonthsPerYear
                      ELSE Month(row.reporting_period_end) - pin.months + 1
                             .. Month(row.reporting_period_end) IN
        /\ {pin.selection.windows[i] : i \in DOMAIN pin.selection.windows}
             = {ws[i] : i \in {i \in DOMAIN ws : Month(ws[i].start) \in months}}
        /\ DaysOf(pin.selection.windows) = UNION {FirstDay(m) .. LastDay(m) : m \in months}

(* The models and the CHECK state one contract: a request of a version the *)
(* schema is ready for is never accepted by the service, written to object *)
(* storage and then refused by the database (models.py, migrations 014 to  *)
(* 021).                                                                   *)
ValidatedPassesTheCheck ==
    pc = "save" /\ level >= (IF IsComposite(request) THEN request.template_version ELSE 1)
      => scope_check(level, Stored(Parse(request)))

(* A request that comes again is answered with the document it made,       *)
(* whichever way its optional fields are written and whatever the          *)
(* migrations did in between: what is stored reads back as what was        *)
(* offered (archive_writer.py, _ensure_duplicate_request_is_idempotent).   *)
ReplayConverges == answer \notin {"conflict", "unreadable"}

(* A retained row is guarded by the CHECK in force.  Between requests the  *)
(* rows without bytes and the bytes without a row are together no more     *)
(* than the steps that failed: a request the schema was not ready for, or  *)
(* one that is sent again, leaves no half of a document by itself          *)
(* (archive_writer.py, the compensation of archive_document).              *)
CustodyIsWhole ==
    /\ row # Null => scope_check(level, row)
    /\ pc = "idle" => strays + (IF object <=> row # Null THEN 0 ELSE 1) <= faults
==========================================================================
