----------------------------- MODULE MCSecAnalyst ----------------------------
(***************************************************************************)
(* Two companies, a handful of facts and of filings.                       *)
(***************************************************************************)
EXTENDS SecAnalyst, TLC

O(m, k, value, start, end, period, year, form, filed, accession) ==
    [concept |-> <<m, k>>, unit |-> IF m = "diluted_shares" THEN "shares" ELSE "USD",
     value |-> value, numeric |-> TRUE, start |-> start, end |-> end, period |-> period,
     year |-> year, form |-> form, filed |-> filed, accession |-> accession]
Annual(m, k, values) ==
    [y \in DOMAIN values |-> O(m, k, values[y], 10 * y, 10 * y + 9, 1, y, "10-K", 10 * y + 15, y)]
Instants(m, values) ==
    [y \in DOMAIN values |-> O(m, 1, values[y], 0, 10 * y + 9, 1, y, "10-K", 10 * y + 15, y)]
Quarters(m, values) ==
    Concat([y \in DOMAIN values |->
        <<O(m, 1, values[y], 10 * y, 10 * y + 2, 2, y, "10-Q", 10 * y + 4, 100 + y),
          O(m, 1, values[y] + 1, 10 * y + 3, 10 * y + 5, 3, y, "10-Q", 10 * y + 7, 200 + y)>>])
In(unit, observations) == MappedSeq(observations, LAMBDA o : [o EXCEPT !.unit = unit])
Growing ==
    Annual("revenue", 2, <<10, 11, 12, 14>>) \o Annual("revenue", 1, <<9>>)
    \o Annual("operating_cash_flow", 1, <<4, 4, 4, 2>>) \o Annual("capital_expenditures", 2, <<1, 2, 1, 3>>)
    \o Annual("operating_income", 1, <<3, 3, 2, 2>>) \o Annual("stock_compensation", 1, <<1, 1, 1, 3>>)
    \o Annual("gross_profit", 1, <<5, 5, 6, 9>>)
Balanced ==
    Instants("current_debt", <<2, 3>>) \o Instants("long_term_debt", <<4, 9>>)
    \o Instants("cash", <<5, 2>>) \o Instants("current_assets", <<7, 6>>)
    \o Instants("current_liabilities", <<3, 0>>) \o Instants("inventory", <<2, 8>>)
    \o Annual("revenue", 1, <<10, 11>>) \o Annual("diluted_shares", 1, <<50, 60>>)
\* The first year is told again in a later filing, with another value.
Restated ==
    Quarters("revenue", <<3, 5>>)
    \o <<O("revenue", 1, 4, 10, 12, 2, 1, "10-Q/A", 30, 300),
         O("revenue", 1, 5, 10, 12, 2, 2, "8-K", 31, 301),
         O("cash", 1, 5, 0, 12, 2, 1, "10-Q", 14, 101), O("cash", 1, 6, 0, 12, 1, 2, "10-K", 24, 201),
         O("cash", 1, 6, 0, 12, 5, 2, "10-K", 24, 201), O("net_income", 2, 1, 10, 0, 0, 0, "10-Q", 14, 9),
         O("net_income", 2, 0, 10, 12, 0, 0, "10-Q", 14, 9), O("net_income", 2, 2, 10, 12, 0, 0, "20-F", 15, 10),
         O("net_income", 2, 3, 10, 15, 6, 0, "40-F", 16, 11),
         [O("goodwill", 1, 2, 0, 12, 0, 0, "10-K", 14, 9) EXCEPT !.numeric = FALSE]>>
    \o In("EUR", Instants("payable", <<2, 3>>))
Response_(c, length, observations) ==
    [cik |-> c, readable |-> TRUE, sound |-> TRUE, length |-> length, observations |-> observations]
SomeResponses ==
    <<<<Response_(1, 2, Growing), Response_(1, 2, Restated),
        [Response_(1, 3, <<>>) EXCEPT !.sound = FALSE]>>,
      <<Response_(2, 1, Balanced), Response_(1, 2, Growing),
        [Response_(2, 1, <<>>) EXCEPT !.readable = FALSE]>>>>
SomeListings == {[ticker |-> "A", cik |-> 1], [ticker |-> "B", cik |-> 2], [ticker |-> "C", cik |-> 2]}
Request(tickers, ciks, overwrite) ==
    [tickers |-> tickers, ciks |-> ciks, sample |-> 2, overwrite |-> overwrite]
SomeFetches ==
    {Request({}, {}, FALSE), Request({"A"}, {}, TRUE), Request({"D"}, {1}, FALSE)}
Usual == [forms |-> {"10-K", "10-K/A", "10-Q", "10-Q/A", "20-F", "40-F"}, earliest |-> 0, maximumPoints |-> 9,
          minimumPoints |-> 3, materialChange |-> <<3, 20>>, anomaly |-> <<7, 2>>,
          absoluteTolerance |-> <<1, 1000>>, relativeTolerance |-> <<1, 1000>>,
          marginPoints |-> <<1, 50>>, dilution |-> <<3, 100>>, spread |-> <<3, 20>>,
          maximumAlerts |-> 9]
Narrow == [Usual EXCEPT !.maximumPoints = 2, !.maximumAlerts = 2, !.earliest = 15,
                         !.absoluteTolerance = <<3, 2>>]
SomeAnalyses ==
    {[ciks |-> {}, replace |-> TRUE, options |-> Usual],
     [ciks |-> {}, replace |-> TRUE, options |-> [Usual EXCEPT !.minimumPoints = 2]],
     [ciks |-> {1}, replace |-> FALSE, options |-> Narrow]}
Mixed == <<2, 1>>
-----------------------------------------------------------------------------
(* Filings: two companies, one item with titles that differ, three years,   *)
(* two filings of one day, and a section each that is short, not dated or   *)
(* not the one of the manifest.                                             *)

S(id, cik, title, year, month, day) ==
    [id |-> id, cik |-> cik, title |-> title, date |-> <<year, month, day>>, matches |-> TRUE,
     characters |-> 9]
Filings ==
    {S(1, 1, "Item 1A", 2023, 12, 31), S(2, 1, "ITEM 1A.", 2024, 2, 29), S(3, 1, "Item 1A", 2024, 3, 1),
     S(4, 2, "Item 1A", 2024, 2, 29), S(5, 1, "Item 7", 2024, 2, 29),
     [S(6, 1, "Item 1A", 2022, 1, 1) EXCEPT !.characters = 2],
     [S(7, 1, "Item 1A", 2025, 1, 1) EXCEPT !.date = <<>>], S(8, 0, "Item 1A", 2025, 1, 1)}
LaterFilings ==
    Filings \cup {S(9, 1, "Item 1A", 2024, 3, 1), S(10, 2, "Item 1A", 2025, 1, 1),
                  [S(11, 2, "Item 7", 2024, 2, 30) EXCEPT !.matches = FALSE]}
SomeCorpora ==
    {[provider |-> "sec_10k", sections |-> Filings], [provider |-> "sec_10k", sections |-> LaterFilings],
     [provider |-> "sec_filings", sections |-> Filings]}
Key(title) == IF title = "Item 7" THEN "item 7" ELSE "item 1a"
HasFragment(title, fragment) == fragment = "item" \/ title # "Item 7"
ResultsFile(id) == <<"results", id>>
PathAsTitle(id) == <<"1", "2", "3", "4", "5", "6", "7", "8", "9", "10", "11">>[id]
Fifths(n) == Ratio(n, 5)
Passage(s, score, query, edit, tokens) ==
    [path |-> s, method |-> "franken_overlap", score |-> Fifths(score), query |-> Fifths(query),
     edit |-> Fifths(edit), source |-> Fifths(query), tokens |-> tokens, chance |-> 0, place |-> tokens]
SomeFound(t, s) ==
    CASE <<t, s>> = <<2, 1>> -> {Passage(s, 4, 4, 4, 90)}
      [] <<t, s>> = <<3, 1>> -> {Passage(s, 4, 3, 4, 60), Passage(s, 3, 1, 4, 40)}
      [] <<t, s>> = <<3, 2>> -> {Passage(s, 3, 2, 4, 60)}
      [] <<t, s>> = <<9, 3>> -> {Passage(s, 3, 1, 4, 60)}
      [] <<t, s>> = <<9, 2>> -> {Passage(s, 2, 1, 3, 60)}
      [] <<t, s>> \in {<<10, 3>>, <<3, 4>>, <<10, 1>>} -> {Passage(s, 3, 3, 4, 50 - s)}
      [] OTHER -> {}
Tells(t) == t # 10
EdgeId(key) == <<(7 * key[1] + 5 * key[2]) % 11, Len(key[3]), key[1], key[2]>>
Policy(all, noHistory, peers) ==
    [filters |-> {}, allTargets |-> all, noHistory |-> noHistory, peers |-> peers,
     minimumCharacters |-> 5, threads |-> 4,
     maximumTargets |-> 9, maximumPrior |-> 2, maximumPeers |-> 2, maximumSources |-> 2,
     reviewCandidates |-> 2, edgeScore |-> Ratio(30, 100), edgeCoverage |-> Ratio(15, 100),
     edgeTokens |-> 32, newCoverage |-> Ratio(25, 100), materialCoverage |-> Ratio(55, 100),
     materialSimilarity |-> Ratio(72, 100), highCoverage |-> Ratio(80, 100),
     highSimilarity |-> Ratio(80, 100), legacyMargin |-> Ratio(8, 100),
     peerScore |-> Ratio(55, 100), peerCoverage |-> Ratio(35, 100)]
SomeNodes == {[id |-> 3, label |-> "seen", observed |-> {1}]}
Ingestion(target, score, tokens) ==
    [target |-> target, label |-> "target", observed |-> {}, relation |-> "near_duplicate", detected |-> 0,
     minimumScore |-> score, minimumCoverage |-> Zero, minimumTokens |-> tokens]
SomeIngestions == {Ingestion(3, Fifths(3), 45)}
Methods == <<"franken_overlap", "franken_overlap_composite">>
SomeResults ==
    {<<[path |-> 1, label |-> "found", observed |-> {5}, overlap |-> <<>>],
       [path |-> 2, label |-> "found", observed |-> {5},
        overlap |-> <<[Passage(2, 4, 2, 4, 50) EXCEPT !.method = Methods[2], !.chance = 1]>>]>>}
SomeDirectories == Permutations(Outputs)
SomeLineageOptions ==
    {Policy(TRUE, TRUE, TRUE), [Policy(FALSE, FALSE, TRUE) EXCEPT !.maximumPrior = 1],
     [Policy(TRUE, FALSE, FALSE) EXCEPT !.filters = {"1a"}, !.maximumTargets = 3],
     [Policy(TRUE, TRUE, TRUE) EXCEPT !.newCoverage = Ratio(60, 100)]}
-----------------------------------------------------------------------------
(* Texts: a filing with a table of its items and with items that are short, *)
(* too long and written in two ways; a book with a preface; a letter that   *)
(* has breaks before, at and after the target and ends with white space.    *)

W == <<"word">>
B == <<"space">>
N == <<"newline">>
Item(digits, letters, title) == <<"item", digits, letters, title>>
Annual10K ==
    <<W, W, N, Item(1, 1, "Item 1A"), N, Item(2, 0, "Item 10"), N, N, Item(1, 1, "ITEM 1A"), N, W, W, N,
      Item(3, 0, "Item 100"), B, N, Item(2, 0, "Item 10"), N, W, W, W, N, N, W, W, W, W, B, W, W,
      N, Item(1, 0, "Item 2"), W>>
Chapter(title) == <<"chapter", title>>
Book ==
    <<B, Chapter("Preface"), N, W, W, N, Chapter("Chapter 1"), N, W, W, N, N, Chapter("Chapter 2"), N>>
Letter == <<W, W, W, W, N, N, W, W, N, N, W, W, W, W, W, W, W, W, N, N, N, W, B>>
Blank == <<N, B, N, B, N, B, N>>
Document(id, text) == [id |-> id, text |-> text, readable |-> TRUE]
Folder(provider, documents) == [provider |-> provider, documents |-> documents]
SomeParents ==
    {Folder("filings", <<Document("a", Annual10K), Document("b", Letter)>>),
     Folder("gutenberg", <<Document("a", Book), [Document("c", Book) EXCEPT !.readable = FALSE],
                           Document("A", Book)>>),
     Folder("local", <<Document("b", Blank), Document("c", Letter), Document("d", <<W>>)>>)}
WithoutCase(title) == IF title = "ITEM 1A" THEN "Item 1A" ELSE title
InLowerCase(id) == IF id = "A" THEN "a" ELSE id
Sized(minimum, target, maximum, overlap) ==
    [strategy |-> "auto", minimum |-> minimum, target |-> target, maximum |-> maximum,
     overlap |-> overlap, sections |-> 9, replace |-> TRUE]
SomeSectionOptions ==
    {Sized(2, 4, 6, 1), Sized(3, 3, 5, 0), Sized(2, 5, 5, 4), Sized(4, 3, 5, 0),
     [Sized(2, 4, 6, 1) EXCEPT !.strategy = "windows", !.sections = 2, !.replace = FALSE],
     [Sized(2, 4, 6, 3) EXCEPT !.strategy = "gutenberg"]}
-----------------------------------------------------------------------------
(* A corpus: three companies, of which one is found under the number of     *)
(* another and one has a submission only fetch_sec_10k can read; filings    *)
(* that two pages list, once with one date and once with two.               *)

SomeRows == <<[ticker |-> "a", cik |-> 1], [ticker |-> "B", cik |-> 2], [ticker |-> "A", cik |-> 3]>>
Mix(number, seed) == (5 * number + seed) % 7
UpperCase(s) == CASE s = "a" -> "A" [] s = "8-k" -> "8-K" [] OTHER -> s
SomeForms == <<"10-K", "10-K/A", "8-K">>
Row(accession, date, form) ==
    [accession |-> accession, date |-> date, accepted |-> date, form |-> form, name |-> "plain",
     iso |-> TRUE]
Columns(n) == [accession |-> n, date |-> n, form |-> n, document |-> n, report |-> n]
Page(rows) == [rows |-> rows, lengths |-> Columns(Len(rows))]
Recent ==
    Page(<<Row(5, 50, "10-K"), [Row(6, 55, "8-k") EXCEPT !.name = "dots"], Row(4, 40, "10-K/A"),
           [Row(7, 56, "10-K") EXCEPT !.name = "slash"], [Row(8, 57, "8-K") EXCEPT !.iso = FALSE]>>)
Older == Page(<<Row(4, 40, "10-K/A"), Row(3, 40, "10-K"), Row(5, 49, "10-K"), Row(9, 50, "10-K")>>)
File(from, to, page) == [json |-> TRUE, from |-> from, to |-> to, page |-> page]
SomeSubmission(cik) ==
    CASE cik = 1 -> [cik |-> 1, readers |-> {"sec_10k", "sec_filings"}, recent |-> Recent,
                     files |-> <<File(0, 45, Older), [File(0, 0, Older) EXCEPT !.json = FALSE],
                                 File(0, 20, Older), File(0, 0, Page(<<>>))>>]
      [] cik = 2 -> [cik |-> 1, readers |-> {"sec_10k", "sec_filings"}, recent |-> Older, files |-> <<>>]
      [] cik = 3 -> [cik |-> 3, readers |-> {"sec_10k"}, files |-> <<>>,
                     recent |-> [Page(<<Row(1, 10, "10-K"), Row(2, 10, "10-K"), Row(3, 90, "10-K")>>)
                                 EXCEPT !.lengths.report = 2]]
SomeDownloads ==
    {[binary |-> FALSE, converts |-> TRUE,
      lines |-> <<"blank", "text", "start", "space", "blank", "text", "blank", "blank", "text", "blank",
                  "space", "end", "start", "text", "blank">>],
     [binary |-> FALSE, converts |-> TRUE, lines |-> <<"text", "space", "space">>],
     [binary |-> TRUE, converts |-> FALSE, lines |-> <<>>]}
CatalogRow(id) == [id |-> id, text |-> TRUE, languages |-> {"en"}, titled |-> TRUE]
SomeCatalog ==
    <<CatalogRow(5), CatalogRow(2), [CatalogRow(1) EXCEPT !.text = FALSE], CatalogRow(4), [CatalogRow(3) EXCEPT !.languages = {"de"}]>>
Library(explicit, limit) ==
    [provider |-> "gutenberg", rows |-> SomeCatalog, language |-> "en", explicit |-> explicit,
     limit |-> limit, seed |-> 1, mirror |-> FALSE, minimum |-> 2, overwrite |-> FALSE]
Selection(provider, tickers, perCompany) ==
    [provider |-> provider, tickers |-> tickers, ciks |-> {}, sample |-> 2, seed |-> 3,
     perCompany |-> perCompany, from |-> 0, to |-> 0, forms |-> {"10-K", "10-K/A"}, amendments |-> TRUE,
     historical |-> TRUE, maximumFiles |-> 4, minimum |-> 2, overwrite |-> FALSE]
SomeAcquisitions ==
    {Library(<<>>, 2), Library(<<4, 9>>, 1), Library(<<4, 2, 4, 2>>, 1),
     [Library(<<2, 5>>, 1) EXCEPT !.rows = @ \o @],
     Selection("sec_10k", {}, 2), [Selection("sec_10k", {"A"}, 9) EXCEPT !.ciks = {2}],
     Selection("sec_filings", {"b"}, 2), Selection("sec_filings", {}, 2),
     [Selection("sec_filings", {"B"}, 4) EXCEPT !.forms = {"8-K", "10-K"}, !.from = 41, !.to = 55,
                                               !.ciks = {1}],
     [Selection("sec_filings", {}, 3) EXCEPT !.ciks = {1}, !.from = 30, !.to = 45],
     [Selection("sec_filings", {"a"}, 2) EXCEPT !.ciks = {1}, !.maximumFiles = 1, !.overwrite = TRUE]}
=============================================================================
