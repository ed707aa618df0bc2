---------------------------- MODULE MCComposite ----------------------------
(* Three months of two days; a year is two months.  The requests are, per  *)
(* contract, everything its validators decide between in that calendar,    *)
(* and every way one field of the envelope can disagree.                   *)
EXTENDS CompositeCustody

Days == 1 .. 6
Intervals == {iv \in Days \X Days : iv[1] <= iv[2]}
MonthIntervals == {<<1, 2>>, <<3, 4>>, <<5, 6>>}

Window(id, iv, mem) ==
    [id |-> id, start |-> iv[1], end |-> iv[2],
     definition_content_hash |-> "d", membership_content_hash |-> mem]

Vectors(S, n) == UNION {[1 .. k -> S] : k \in 1 .. n}
AsWindows(v) == [n \in DOMAIN v |-> Window(n, v[n], "m")]

Selection(ws, start, end) ==
    [tenant_id |-> "t", composite_id |-> "c", basis |-> "b", response_digest |-> "r",
     start |-> start, end |-> end, windows |-> ws]

Over(ws) == Selection(ws, ws[1].start, ws[Len(ws)].end)

Calculated ==
    LET vs == {AsWindows(v) : v \in Vectors(Intervals, 2)
                                      \cup Vectors({iv \in Intervals : iv[2] <= 4}, 3)}
        short == {AsWindows(v) : v \in Vectors(MonthIntervals, 2)} IN
    {[contract_version |-> 1, selection |-> Over(ws)] : ws \in vs}
      \cup {[contract_version |-> 1, selection |-> Selection(ws, iv[1], iv[2])] :
              ws \in short, iv \in Intervals}
      \cup {[contract_version |-> 1,
             selection |-> [Over(ws) EXCEPT !.windows = [n \in DOMAIN ws |-> [ws[n] EXCEPT !.id = 1]]]] :
              ws \in short}

Linked ==
    {[contract_version |-> 3,
      selection |-> [tenant_id |-> "t", windows |-> AsWindows(v),
                     source_request |-> [composite_id |-> "c", start |-> v[1][1], end |-> e,
                                         ids |-> ids, restatement_sequence |-> rs]]] :
       v \in Vectors(MonthIntervals \cup {<<2, 3>>, <<4, 4>>}, 2), e \in {4, 6},
       ids \in {<<1>>, <<1, 2>>, <<2, 1>>}, rs \in {Absent, Null}}

(* Primary vectors: whole months, and one that splits a month.             *)
Primaries ==
    {Over(AsWindows(v)) : v \in {<< <<1, 2>>, <<3, 4>>, <<5, 6>> >>, << <<3, 4>>, <<5, 6>> >>,
                                 << <<1, 2>>, <<3, 4>> >>,
                                 << <<1, 1>>, <<2, 2>>, <<3, 6>> >>}}

Slices(sel) ==
    {Over(SubSeq(sel.windows, p[1], p[2])) :
       p \in {p \in (DOMAIN sel.windows) \X (DOMAIN sel.windows) : p[1] <= p[2]}}

Products(sel) ==
    LET changed(s) == {s, [s EXCEPT !.basis = "x"], [s EXCEPT !.windows[1].membership_content_hash = "x"]}
        named(s) == {[kind |-> "CALENDAR_RETURN", product_key |-> "k", year |-> y, selection |-> s] : y \in 1 .. 2}
                      \cup {[kind |-> "TRAILING_RETURN", product_key |-> "k", months |-> m, selection |-> s] : m \in 1 .. 3}
    IN {[pin |-> pin, source_response_digest |-> "r"] :
          pin \in UNION {named(s) : s \in UNION {changed(s) : s \in Slices(sel)}}}

Pairs(sel) ==
    {<<p, [q EXCEPT !.pin.product_key = key]>> :
       p \in {p \in Products(sel) : p.pin.kind = "CALENDAR_RETURN" /\ p.pin.year = 1},
       q \in {q \in Products(sel) : q.pin.kind = "TRAILING_RETURN"}, key \in {"k", "k2"}}

WithProducts ==
    UNION {{[contract_version |-> 2, selection |-> sel, source_products |-> ps] :
              ps \in {<<p>> : p \in Products(sel)} \cup Pairs(sel)} : sel \in Primaries}

Periods == {iv \in Intervals : iv[1] \in 1 .. 3}

MonthSelection(ms, iv) ==
    [tenant_id |-> "t", composite_id |-> "c", start |-> iv[1], end |-> iv[2], months |-> ms]

Eligibility ==
    {[contract_version |-> 4, selection |-> MonthSelection([n \in DOMAIN v |-> [month |-> v[n], evidence_kind |-> "PUBLISHED"]], iv)] :
       v \in Vectors(1 .. 3, 3), iv \in Periods}

MonthPins(receipts) ==
    [month : 1 .. 2, evidence_kind : {"PUBLISHED", "EVALUATED_ONLY"}, lineage_receipts : receipts,
     parent_publication_response_digest : {Absent, "p"}]

Amended ==
    {[contract_version |-> 6, selection |-> MonthSelection(ms, <<1, 4>>)] :
       ms \in {v \in Vectors(MonthPins({<<>>, <<"v1">>, <<"v2", "v1">>, <<"v3">>}), 2) :
                 Len(v) = 2 => v[1].month = 1 /\ v[2].lineage_receipts # <<"v3">>}}

Receipts == {Absent, <<"v3">>, <<"v4">>, <<"v4", "v3">>, <<"v3", "v3">>, <<"v3", "v4">>}
HistoricalPins ==
    [month : 1 .. 2, evidence_kind : {"PUBLISHED", "EVALUATED_ONLY"}, product_version : {"v3", "v4"},
     lineage_receipts : Receipts, parent_publication_response_digest : {Absent, "p"}]
Historical ==
    {[contract_version |-> 7, selection |-> MonthSelection(ms, <<1, 4>>)] :
       ms \in {v \in Vectors(HistoricalPins, 2) :
                 Len(v) = 2 /\ v[1].month = 1 /\ v[1].evidence_kind = "EVALUATED_ONLY"}}

Pooled ==
    {[contract_version |-> 5,
      selection |-> [tenant_id |-> "t", composite_id |-> "c", start |-> 1, end |-> e,
                     calculation_id |-> "n1", correction_of_calculation_id |-> cor,
                     predecessor_response_digest |-> dig, expected_portfolio_ids |-> members,
                     source_pins |-> << [pin_id |-> "a", coverage_from |-> 1, coverage_to |-> 2,
                                         page_ids |-> pages, expected_page_count |-> 2] >>]] :
       e \in {1, 2, 6}, cor \in {Null, "n1", "n2"}, dig \in {Null, "r"},
       members \in {<<"p1">>, <<"p1", "p2">>, <<"p1", "p1">>},
       pages \in {<<"g1">>, <<"g1", "g2">>, <<"g1", "g1">>}}

SourceContext ==
    LET defs == [content_hash : {"d", "x"}, response_digest : {"r"}]
        sel(mem) == Over(<<Window(1, <<1, 2>>, "m"), Window(2, <<3, 4>>, mem)>>) IN
    UNION {
      {[contract_version |-> 8, selection |-> sel(mem), source_products |-> ps,
        source_context |-> [definition |-> d, since_inception |-> si, memberships |-> ms],
        definition |-> [pin |-> d, source_response_digest |-> dig]] :
         ps \in {Absent, <<>>} \cup {<<p>> : p \in Products(sel(mem))},
         d \in defs, si \in BOOLEAN, dig \in {"r", "x"},
         ms \in {<<>>, << [membership_revision |-> 1, content_hash |-> "m"] >>,
                 << [membership_revision |-> 1, content_hash |-> "m"],
                    [membership_revision |-> 2, content_hash |-> "n"] >>,
                 << [membership_revision |-> 1, content_hash |-> "m"],
                    [membership_revision |-> 1, content_hash |-> "n"] >>}} : mem \in {"m", "n"}}

Identities ==
    UNION {Calculated, WithProducts, Linked, Eligibility, Pooled, Amended, Historical, SourceContext}

Evidence == {"report_revision_id", "document_reference", "declared_artifact_sha256"}

Document(i) ==
    [report_type |-> "composite_review", portfolio_scope |-> "composite", portfolio_id |-> Null,
     composite_id |-> "c", composite_report_identity |-> i, tenant_id |-> "t",
     reporting_period_start |-> ScopeOf(i).start, reporting_period_end |-> ScopeOf(i).end,
     as_of_date |-> ScopeOf(i).end, template_id |-> "composite-review",
     template_version |-> i.contract_version, report_data_contract_version |-> i.contract_version,
     format |-> "xlsx", evidence |-> Evidence, summaries |-> {},
     retention_start_date |-> Null, retain_until_date |-> Null]

Base == Document([contract_version |-> 1, selection |-> Over(AsWindows(<< <<1, 2>> >>))])

Disagreeing ==
    {[Base EXCEPT !.portfolio_scope = "portfolio"], [Base EXCEPT !.portfolio_id = "p"],
     [Base EXCEPT !.composite_id = "x"], [Base EXCEPT !.composite_id = Null],
     [Base EXCEPT !.composite_report_identity = Null], [Base EXCEPT !.tenant_id = "x"],
     [Base EXCEPT !.reporting_period_end = 3], [Base EXCEPT !.as_of_date = 1],
     [Base EXCEPT !.template_version = 2], [Base EXCEPT !.report_data_contract_version = 2],
     [Base EXCEPT !.format = "pdf"], [Base EXCEPT !.evidence = {"document_reference"}],
     [Base EXCEPT !.retention_start_date = 5, !.retain_until_date = 4]}

Summaries ==
    [kind : {"advisor_proposal_memo", "advisor_commentary", "idea_evidence_pack"}, included_in_render : BOOLEAN,
     hash : {"sha256", "bare"}, audience : {"advisor", "client"}]

Portfolio ==
    {[Base EXCEPT !.report_type = type, !.portfolio_scope = "portfolio", !.portfolio_id = p,
                  !.composite_id = Null, !.composite_report_identity = Null,
                  !.template_id = template, !.report_data_contract_version = "dpm_proof_pack_report_input.v1",
                  !.summaries = ss] :
       type \in {"portfolio_review", "proof_pack"}, p \in {"p", Null},
       template \in {"portfolio-review", "proof-pack"}, ss \in {{}} \cup {{s} : s \in Summaries}}

AllRequests == {Document(i) : i \in Identities} \cup Disagreeing \cup Portfolio
============================================================================
