----------------------------- MODULE MCServices -----------------------------
(***************************************************************************)
(* The services that share no state with one another while they work: one  *)
(* instance of each.  A behaviour chooses one of them and follows it; the  *)
(* others stay as they begin, so that the run explores the sum of their    *)
(* states and not their product.                                           *)
(***************************************************************************)
EXTENDS AccountAccess, BusinessAuthorization, StoreReviews, StructuredQuery, EvidenceSearch,
        LauncherTransfers, McpGateway, OrderScope, PartitionExport, TLC

CONSTANTS s1, s2, g1, g2, d1, anna, boris, east, west, menu, ledger, photo,
          i1, i2, north, south, q1, q2, e1, e2

VARIABLE awake  \* the service that the behaviour follows

servicesVars == <<accountVars, bizVars, reviewVars, queryVars, evidenceVars, transferVars, gatewayVars, scopeVars, exportVars, awake>>

-----------------------------------------------------------------------------
(* Business authorization: two users, two stores, a document of each kind *)

MCClearances == {1}
MCGrantChoices ==
    {{}, {[categories |-> Categories, group |-> FALSE, stores |-> Stores, values |-> {}]}}

-----------------------------------------------------------------------------
(* Store reviews *)

MCStoreOf == (i1 :> north) @@ (i2 :> south)
MCMomentOf == (i1 :> 1) @@ (i2 :> 1)
Observed(c, r, s) == [content |-> c, merchantReply |-> r, replyStatus |-> s]
MCPatches ==
    { Observed(Omitted, "spaces", Omitted),
      Observed(Omitted, "words", "replied"),
      Observed("words", "empty", "unreplied_with_content") }
MCFilters == {Statuses, {"needs_verification", "unreplied_with_content"}}

-----------------------------------------------------------------------------
(* Structured queries *)

\* Three fields of the file, one of them beyond the 25th column, and the
\* document's id.
MCFields == [amount |-> [type |-> "decimal", measure |-> TRUE, early |-> TRUE, storage |-> "payload"],
             name   |-> [type |-> "string", measure |-> FALSE, early |-> TRUE, storage |-> "payload"],
             note   |-> [type |-> "string", measure |-> FALSE, early |-> FALSE, storage |-> "payload"],
             doc    |-> [type |-> "string", measure |-> FALSE, early |-> TRUE, storage |-> "document"]]

TableRow(n, i, a, m) == [number |-> n, id |-> i, amount |-> a, name |-> m, note |-> m]
MCRowsOf == (q1 :> {TableRow(1, 3, 5, 1), TableRow(2, 1, 5, 2)}) @@ (q2 :> {TableRow(1, 2, 5, 1), TableRow(2, 4, Missing, 3)})
MCLevelOf == (q1 :> 0) @@ (q2 :> 1)
MCClearanceOf == [ann |-> 1]

All == [op |-> "none"]
Is(f, v) == [op |-> "eq", field |-> f, value |-> v]
Body(select, groupBy, aggregates, sort, filter) ==
    [dataset |-> "rows", select |-> select, groupBy |-> groupBy, aggregates |-> aggregates,
     sort |-> sort, filter |-> filter, limit |-> 1]
Count == [op |-> "count", field |-> NoField, as |-> "count"]

MCLimits == [fields |-> 2, sort |-> 1, aggregates |-> 1, rows |-> 2, depth |-> 3, conditions |-> 3, values |-> 2]

MCQueryRequests ==
    { Body({"name"}, {}, {}, <<"name">>, All),
      [Body({"name"}, {}, {}, <<>>, All) EXCEPT !.dataset = "cost_cards"],
      Body({"name"}, {}, {}, <<"amount">>, [op |-> "and",
          of |-> <<[op |-> "not", of |-> Is("name", 3)],
                   [op |-> "or", of |-> <<Is("amount", 5), [op |-> "gte", field |-> "amount", value |-> 6]>>]>>]),
      Body({"name"}, {}, {}, <<>>, [op |-> "in", field |-> "name", value |-> {}]),
      Body({}, {"name"}, {Count}, <<>>, All),
      Body({}, {"name"}, {Count}, <<"count">>, All),
      \* refused: too many sorts, too many rows, too deep a filter, an unstored sort, a sort beyond the early columns, a group by
      \* a measure, an alias that hides a group, a field that is not there
      Body({"name"}, {}, {}, <<"name", "amount">>, All),
      [Body({"name"}, {}, {}, <<>>, All) EXCEPT !.limit = 3],
      Body({"name"}, {}, {}, <<>>, [op |-> "not", of |-> [op |-> "not", of |->
          [op |-> "not", of |-> Is("name", 1)]]]),
      Body({"name"}, {}, {}, <<"doc">>, All),
      Body({"name"}, {}, {}, <<"note">>, All),
      Body({}, {"amount"}, {Count}, <<>>, All),
      Body({}, {"name"}, {[Count EXCEPT !.as = "name"]}, <<>>, All),
      Body({"price"}, {}, {}, <<>>, All) }

\* The nodes of a filter: itself, and the nodes of what it is made of.
RECURSIVE NodesOf(_)
NodesOf(node) ==
    {node} \cup CASE node.op \in {"and", "or"} -> UNION {NodesOf(node.of[i]) : i \in DOMAIN node.of}
                 [] node.op = "not" -> NodesOf(node.of)
                 [] OTHER -> {}
MCFilterNodes == UNION {NodesOf(q.filter) : q \in MCQueryRequests}

-----------------------------------------------------------------------------
(* Evidence: one document whose file parses to texts that reach every branch of the chunker, and a short one *)

W(id, n) == [word |-> id, at |-> 0, len |-> n, gap |-> FALSE]
G(n)     == [word |-> 0, at |-> 0, len |-> n, gap |-> TRUE]
B(h, text) == [heading |-> h, text |-> text]

MCParsed ==
  e1 :> { <<B("h1", <<G(2)>>), B("h1", <<G(1), W(1, 1), G(1)>>), B("h1", <<W(2, 2)>>),
            B("h2", <<W(3, 4)>>), B("h2", <<W(4, 1)>>)>>,
          <<B("h1", <<W(1, 3), G(1), W(2, 7)>>), B("h1", <<W(3, 2)>>)>>,
          <<B("h1", <<W(1, 1)>>), B("h1", <<W(2, 6), G(1), W(3, 6)>>)>>,
          <<B("h1", <<W(1, 2)>>), B("h2", <<W(2, 1)>>)>> }
  @@ e2 :> { <<B("h1", <<W(1, 4)>>)>> }

MCHybrid(k) == IF k[1] = e1 THEN 10 - k[2] ELSE 20 + k[2]
MCRelevance(k) == IF k[1] = e1 THEN 10 - 3 * k[2] ELSE 6
MCAccessGrants == {{e1, e2}, {e2}}
MCSearchRequests == 
  {[documentIds |-> {}, limit |-> 1], [documentIds |-> {e1}, limit |-> 2],
   [documentIds |-> {}, limit |-> 9]}

-----------------------------------------------------------------------------
(* The launcher's transfers *)

MCBundle == 1 :> 1 @@ 2 :> 1

-----------------------------------------------------------------------------
(* The MCP gateway *)

Prerelease(v) == [v EXCEPT !.pre = TRUE]
Sent(tool, dataset, v, valid, bytes, fault) ==
  [tool |-> tool, dataset |-> dataset, version |-> v, valid |-> valid, bytes |-> bytes, fault |-> fault]
MCArrivals ==
  { Sent("upload_evidence_document", "none", NoVersion, TRUE, 4, "none"),
    Sent("upload_quarantine_certificate", "none", NoVersion, TRUE, 5, "none"),
    Sent("upload_evidence_document", "none", NoVersion, FALSE, 7, "none"),
    Sent("upload_evidence_document", "none", NoVersion, TRUE, 60, "none"),
    Sent("upload_structured_dataset", "in_store_orders", Version(0, 9, 2), TRUE, 3, "none"),
    Sent("upload_structured_dataset", "dishes", Prerelease(Version(1, 0, 0)), TRUE, 3, "none"),
    Sent("query_structured_dataset", "cost_cards", Prerelease(Version(0, 10, 0)), TRUE, 0, "none"),
    Sent("archive_cost_card", "none", Version(0, 10, 0), TRUE, 0, "none"),
    Sent("list_account_permissions", "none", NoVersion, FALSE, 0, "none") }
  \cup {Sent("list_account_permissions", "none", NoVersion, TRUE, 0, f) : f \in {"none", "guard", "body", "envelope"}}

\* One connection makes every call, the other asks for the permissions of its account.
PlainSecond == gate[2] # NoRequest => gate[2].call.tool = "list_account_permissions" /\ gate[2].call.fault = "none"

-----------------------------------------------------------------------------
(* The scope of order partitions *)

MCStoreKey == [n \in {"East", "east", "West"} |-> IF n = "West" THEN "west" ELSE "east"]

Row(name, day, sum) == [name |-> name, day |-> day, sum |-> sum]

MCOrderFiles ==
  {[sum |-> "f1", from |-> 1, to |-> 2, rows |-> {Row("East", 1, "a"), Row("East", 2, "a")}],
   [sum |-> "f2", from |-> 1, to |-> 1, rows |-> {Row("East", 1, "b"), Row("West", 1, "b")}],
   [sum |-> "f3", from |-> 2, to |-> 2, rows |-> {Row("east", 2, "a")}]}

MCHistoric == {[key |-> "east", day |-> 1, name |-> "East", scope |-> "legacy_unknown", version |-> 1, sum |-> "a"]}

\* One thing at a time is unlike the beginning: the requirement, an administrator, a store.
OneChange ==
  (IF scopeRequired THEN 1 ELSE 0) + Cardinality(Administrators \ uploadAdmins)
    + Cardinality(StoreNames \ registered) <= 1

\* Two previews and one upload, or one preview and two uploads.
FewOrders == Cardinality(DOMAIN previews) + Cardinality(DOMAIN uploads) <= 3

-----------------------------------------------------------------------------
(* The exporter *)

Blank == [kind |-> "blank", label |-> FALSE, merchant |-> "", store |-> "", day |-> "", valid |-> TRUE, wide |-> FALSE, bytes |-> 1]
Titles == [Blank EXCEPT !.kind = "header", !.valid = FALSE]
Data(merchant, store, day, bytes) == [Blank EXCEPT !.kind = "data", !.merchant = merchant, !.store = store, !.day = day, !.bytes = bytes]
Footer(store, day) == [Data("", store, day, 1) EXCEPT !.label = TRUE]

MCLowerCase == [n \in {"", "--", "total", "a", "A", "b"} |-> IF n = "A" THEN "a" ELSE n]

Plain(hidden, lines) == [hidden |-> hidden, rows |-> lines]

Common == {Data("", "a", "d1", 1), Data("", "b", "d1", 2), Data("m", "", "d1", 1), Data("m", "a", "d1", 1), Data("", "a", "d2", 1)}

\* Every report of common rows that is not too long, longer ones, and the unusual ones
\* one by one.
MCExportSources ==
  {[order |-> FALSE, sheets |-> <<Plain(FALSE, <<Titles>> \o lines)>>] :
      lines \in UNION {[1..n -> Common] : n \in 0..MaxRows}
                 \cup [1..(MaxRows + 1) -> {Data("", "a", "d1", 1), Data("", "b", "d1", 2)}]}
  \cup {[order |-> o, sheets |-> <<Plain(FALSE, <<Titles, Data("", "a", "d1", 1), odd, Data("", "b", "d1", 1)>>)>>] :
          o \in BOOLEAN,
          odd \in {Blank, Titles, Footer("", ""), Footer("--", "--"), Footer("total", "--"), Footer("a", "d1"),
                   Data("", "total", "--", 1), Data("", "A", "d1", 1), Data("", "--", "d1", 1), Data("", "", "d1", 1),
                   Data("", "a", "--", 1), [Data("", "a", "d1", 1) EXCEPT !.wide = TRUE]}}
  \cup {[order |-> TRUE, sheets |-> <<Plain(h, first), Plain(FALSE, <<Titles, Data("", "a", "d1", 1)>>)>>] :
          h \in BOOLEAN,
          first \in {<<>>, <<Blank, Blank, Blank>>, <<Blank, Data("", "b", "d1", 1), Titles>>,
                     <<Blank, Titles, Data("", "a", "d2", 1)>>, <<Data("", "a", "d1", 1)>>,
                     <<Titles, Titles>>, <<Footer("", ""), Blank, Data("", "a", "d1", 1)>>}}

-----------------------------------------------------------------------------
Bounded == OneChange /\ FewOrders /\ PlainSecond

AnyParse == [d \in Docs |-> CHOOSE p \in Parsed[d] : TRUE]
AnyConfig == CHOOSE v \in Configs : TRUE
AnySource == [order |-> FALSE, sheets |-> <<Plain(FALSE, <<Titles>>)>>]

\* A service that is not followed has one initial state.
Init ==
    /\ awake \in {"account", "business", "reviews", "query", "evidence", "transfers", "gateway", "scope", "export"}
    /\ AccountInit /\ (awake # "account" => grant[g1] = "open")
    /\ BizInit
    /\ ReviewsInit
    /\ QueryInit /\ (awake # "query" => stance = "enabled" /\ \A d \in Sources : imports[d] = "queued")
    /\ (awake # "evidence" => grants = Docs /\ blocks = AnyParse) /\ EvidenceInit
       /\ (awake # "evidence" => deployed.version = AnyConfig)
    /\ TransfersInit
    /\ GatewayInit
    /\ ScopeInit
    /\ (awake # "export" => source = AnySource) /\ ExportInit

Next ==
    \/ /\ awake = "account" /\ AccountNext
       /\ UNCHANGED <<bizVars, reviewVars, queryVars, evidenceVars,
                      transferVars, gatewayVars, scopeVars, exportVars, awake>>
    \/ /\ awake = "business" /\ BizNext
       /\ UNCHANGED <<accountVars, reviewVars, queryVars, evidenceVars,
                      transferVars, gatewayVars, scopeVars, exportVars, awake>>
    \/ /\ awake = "reviews" /\ ReviewsNext
       /\ UNCHANGED <<accountVars, bizVars, queryVars, evidenceVars,
                      transferVars, gatewayVars, scopeVars, exportVars, awake>>
    \/ /\ awake = "query" /\ QueryNext
       /\ UNCHANGED <<accountVars, bizVars, reviewVars, evidenceVars,
                      transferVars, gatewayVars, scopeVars, exportVars, awake>>
    \/ /\ awake = "evidence" /\ EvidenceNext
       /\ UNCHANGED <<accountVars, bizVars, reviewVars, queryVars,
                      transferVars, gatewayVars, scopeVars, exportVars, awake>>
    \/ /\ awake = "transfers" /\ TransfersNext
       /\ UNCHANGED <<accountVars, bizVars, reviewVars, queryVars,
                      evidenceVars, gatewayVars, scopeVars, exportVars, awake>>
    \/ /\ awake = "gateway" /\ GatewayNext
       /\ UNCHANGED <<accountVars, bizVars, reviewVars, queryVars,
                      evidenceVars, transferVars, scopeVars, exportVars, awake>>
    \/ /\ awake = "scope" /\ ScopeNext
       /\ UNCHANGED <<accountVars, bizVars, reviewVars, queryVars,
                      evidenceVars, transferVars, gatewayVars, exportVars, awake>>
    \/ /\ awake = "export" /\ ExportNext
       /\ UNCHANGED <<accountVars, bizVars, reviewVars, queryVars,
                      evidenceVars, transferVars, gatewayVars, scopeVars, awake>>

ServicesSpec == Init /\ [][Next]_servicesVars
=============================================================================
