------------------------ MODULE CompositeIdentity ------------------------
(***************************************************************************)
(* The custody contracts of composite reports, composite_review.v1 to v8,  *)
(* as the Pydantic models validate them.  An identity pins the evidence a  *)
(* report was made from: windows of days (v1, v2, v3, v8), months (v4, v6, *)
(* v7) or one pooled interval (v5).                                        *)
(*                                                                         *)
(* A day is a positive integer; a month has DaysPerMonth days and a year   *)
(* MonthsPerYear months.  Digests, revisions and identifiers are small     *)
(* values; their patterns and lengths are left out, as are the fields that *)
(* no validator relates to another.  An optional field that is not on the  *)
(* wire is Absent; JSON null is Null.                                      *)
(***************************************************************************)
EXTENDS Integers, Sequences, FiniteSets

CONSTANTS DaysPerMonth, MonthsPerYear, Absent, Null

ASSUME CalendarAssumption ==
    DaysPerMonth \in Nat \ {0} /\ MonthsPerYear \in Nat \ {0}

Versions == 1 .. 8

Month(day) == (day - 1) \div DaysPerMonth + 1
FirstDay(month) == (month - 1) * DaysPerMonth + 1
LastDay(month) == month * DaysPerMonth

Distinct(key(_), s) == Cardinality({key(s[i]) : i \in DOMAIN s}) = Len(s)
All(test(_), s) == \A i \in DOMAIN s : test(s[i])

---------------------------------------------------------------------------
(* Windows: the vector of an identity that was calculated over days.       *)

MaterializationId(w) == w.id

ordered_window(w) == w.start <= w.end

(* Mutant: a window may start on the last day of the one before it.        *)
Contiguous_Overlap(ws) == \A i \in 1 .. Len(ws) - 1 : ws[i + 1].start \in ws[i].end .. ws[i].end + 1

Contiguous(ws) == \A i \in 1 .. Len(ws) - 1 : ws[i + 1].start = ws[i].end + 1

ExactHorizon(ws, start, end) == ws[1].start = start /\ ws[Len(ws)].end = end

ordered_vector(sel) ==
    /\ sel.windows # <<>> /\ All(ordered_window, sel.windows)
    /\ Distinct(MaterializationId, sel.windows)
    /\ ExactHorizon(sel.windows, sel.start, sel.end)
    /\ Contiguous(sel.windows)

exact_linked_vector(sel) ==
    LET ids == [i \in DOMAIN sel.windows |-> sel.windows[i].id] IN
    /\ sel.windows # <<>> /\ All(ordered_window, sel.windows)
    /\ sel.source_request.restatement_sequence \in {Absent, Null}
    /\ Distinct(MaterializationId, sel.windows) /\ ids = sel.source_request.ids
    /\ ExactHorizon(sel.windows, sel.source_request.start, sel.source_request.end)
    /\ Contiguous(sel.windows)

---------------------------------------------------------------------------
(* Source products: calendar and trailing returns of the same calculation. *)

CompleteMonth(w) ==
    /\ w.start = FirstDay(Month(w.start))
    /\ Month(w.start) = Month(w.end)
    /\ w.end = LastDay(Month(w.end))

require_complete_months(sel) == All(CompleteMonth, sel.windows)

calendar_horizon(pin) ==
    /\ pin.selection.start = FirstDay((pin.year - 1) * MonthsPerYear + 1)
    /\ pin.selection.end = LastDay(pin.year * MonthsPerYear)
    /\ Len(pin.selection.windows) = MonthsPerYear
    /\ require_complete_months(pin.selection)

trailing_horizon(pin) ==
    /\ Len(pin.selection.windows) = pin.months
    /\ require_complete_months(pin.selection)

SourceProduct(p) ==
    /\ ordered_vector(p.pin.selection)
    /\ \/ p.pin.kind = "CALENDAR_RETURN" /\ calendar_horizon(p.pin)
       \/ p.pin.kind = "TRAILING_RETURN" /\ trailing_horizon(p.pin)
    /\ p.source_response_digest = p.pin.selection.response_digest

ProductKey(p) == p.pin.product_key

(* The windows of ws that lie within a selection, in the order of ws.      *)
Within(ws, sel) == {n \in DOMAIN ws : ws[n].start >= sel.start /\ ws[n].end <= sel.end}
Place(n, S) == Cardinality({m \in S : m <= n})

Subvector(ws, sel) ==
    LET S == Within(ws, sel) IN
    [k \in 1 .. Cardinality(S) |-> ws[CHOOSE n \in S : Place(n, S) = k]]

Scope(sel) == <<sel.tenant_id, sel.composite_id, sel.basis>>

(* Mutant: a trailing return may end anywhere in the primary horizon.      *)
EndsAtPrimary_Any(pin, primary) == TRUE

EndsAtPrimary(pin, primary) ==
    pin.kind = "TRAILING_RETURN" => pin.selection.end = primary.end

product_scope(primary, products) ==
    /\ All(SourceProduct, products) /\ Distinct(ProductKey, products)
    /\ \A i \in DOMAIN products :
         LET pin == products[i].pin IN
         /\ Scope(pin.selection) = Scope(primary)
         /\ pin.selection.windows = Subvector(primary.windows, pin.selection)
         /\ EndsAtPrimary(pin, primary)

---------------------------------------------------------------------------
(* Source context (v8): the definition and the memberships behind the      *)
(* windows.                                                                *)

MembershipRevision(pin) == pin.membership_revision

require_attachment(ctx) ==
    /\ ctx.since_inception \/ ctx.memberships # <<>>
    /\ Len(ctx.memberships) <= 2 /\ Distinct(MembershipRevision, ctx.memberships)

definition_digest_agrees(def) == def.source_response_digest = def.pin.response_digest

source_context_agrees(i) ==
    LET ws == i.selection.windows
        ms == i.source_context.memberships IN
    /\ require_attachment(i.source_context) /\ definition_digest_agrees(i.definition)
    /\ i.source_products # <<>> => product_scope(i.selection, i.source_products)
    /\ i.source_context.definition = i.definition.pin
    /\ \A n \in DOMAIN ws : ws[n].definition_content_hash = i.definition.pin.content_hash
    /\ ms # <<>> => {ws[n].membership_content_hash : n \in DOMAIN ws}
                       \subseteq {ms[n].content_hash : n \in DOMAIN ms}

---------------------------------------------------------------------------
(* Months: eligibility evidence, its amendments and historical corrections.*)

ordered_selected_months(sel) ==
    LET ms == sel.months IN
    /\ ms # <<>> /\ \A i \in 1 .. Len(ms) - 1 : ms[i].month < ms[i + 1].month
    /\ sel.start <= sel.end
    /\ ms[1].month = Month(sel.start) /\ ms[Len(ms)].month = Month(sel.end)
    /\ sel.start = FirstDay(Month(sel.start)) /\ sel.end = LastDay(Month(sel.end))

(* Whether a published month names its parent's publication digest.        *)
ParentPublication(m) ==
    (m.evidence_kind = "PUBLISHED") = (m.parent_publication_response_digest # Absent)

Amendment(m) ==
    /\ m.lineage_receipts \notin {Absent, <<>>}
    /\ \A n \in DOMAIN m.lineage_receipts : m.lineage_receipts[n] \in {"v1", "v2"}
    /\ ParentPublication(m)

(* Mutant: only the last receipt is looked at.                             *)
OriginalRoot_Last(receipts) == receipts[Len(receipts)] = "v3"

OriginalRoot(receipts) ==
    /\ receipts[Len(receipts)] = "v3"
    /\ \A n \in 1 .. Len(receipts) - 1 : receipts[n] = "v4"

HistoricalMonth(m) ==
    \/ /\ m.product_version = "v3" /\ m.lineage_receipts = Absent
       /\ m.parent_publication_response_digest = Absent
    \/ /\ m.product_version = "v4" /\ m.lineage_receipts \notin {Absent, <<>>}
       /\ OriginalRoot(m.lineage_receipts) /\ ParentPublication(m)

---------------------------------------------------------------------------
(* The pooled money-weighted result (v5).                                  *)

require_complete_pages(pin) ==
    /\ pin.coverage_from <= pin.coverage_to
    /\ Len(pin.page_ids) = pin.expected_page_count
    /\ Distinct(LAMBDA page : page, pin.page_ids)

require_exact_pooled_identity(sel) ==
    /\ sel.start < sel.end
    /\ sel.expected_portfolio_ids # <<>> /\ sel.source_pins # <<>>
    /\ Distinct(LAMBDA member : member, sel.expected_portfolio_ids)
    /\ All(require_complete_pages, sel.source_pins)
    /\ Distinct(LAMBDA pin : pin.pin_id, sel.source_pins)
    /\ (sel.correction_of_calculation_id = Null) = (sel.predecessor_response_digest = Null)
    /\ sel.correction_of_calculation_id # sel.calculation_id

---------------------------------------------------------------------------
(* The eight contracts, and their union discriminated by contract_version. *)

CompositeReportIdentity(i) == ordered_vector(i.selection)

CompositeReportIdentityV2(i) ==
    /\ ordered_vector(i.selection) /\ i.source_products \notin {Absent, <<>>}
    /\ product_scope(i.selection, i.source_products)

CompositeReportIdentityV3(i) == exact_linked_vector(i.selection)

CompositeReportIdentityV4(i) == ordered_selected_months(i.selection)

CompositeReportIdentityV5(i) == require_exact_pooled_identity(i.selection)

CompositeReportIdentityV6(i) ==
    All(Amendment, i.selection.months) /\ ordered_selected_months(i.selection)

CompositeReportIdentityV7(i) ==
    All(HistoricalMonth, i.selection.months) /\ ordered_selected_months(i.selection)

CompositeReportIdentityV8(i) == ordered_vector(i.selection) /\ source_context_agrees(i)

CompositeCustodyIdentity(i) ==
    /\ i.contract_version \in Versions
    /\ CASE i.contract_version = 1 -> CompositeReportIdentity(i)
         [] i.contract_version = 2 -> CompositeReportIdentityV2(i)
         [] i.contract_version = 3 -> CompositeReportIdentityV3(i)
         [] i.contract_version = 4 -> CompositeReportIdentityV4(i)
         [] i.contract_version = 5 -> CompositeReportIdentityV5(i)
         [] i.contract_version = 6 -> CompositeReportIdentityV6(i)
         [] i.contract_version = 7 -> CompositeReportIdentityV7(i)
         [] i.contract_version = 8 -> CompositeReportIdentityV8(i)
==========================================================================
