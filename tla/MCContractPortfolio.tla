------------------------- MODULE MCContractPortfolio -------------------------
(***************************************************************************)
(* A dozen short contracts that differ in a clause, an amount, a helper    *)
(* verb or the order of clauses; directories of three or four of them.     *)
(***************************************************************************)
EXTENDS ContractPortfolio

Words(lines) == Concat(lines)
Pay == <<"section", "payment", NL, "tenant", "shall", "pay", "$9", "within", "30", "days", ".", NL>>
Raised == <<"section", "payment", NL, "tenant", "may", "pay", "$12", "within", "30", "days", ".", NL>>
Tiered == <<"section", "payment", NL, "tenant", "shall", "pay", "$20", ",", "$12", ",", "$9", NL>>
PayMore == <<"section", "payment", NL, "tenant", "must", "pay", "$12", "rent", ";", NL>>
MayPay == <<"payment", ":", NL, "if", "invoice", ",", "tenant", "may", "not", "pay", ".", NL>>
Ending == <<"1", ".", "termination", NL, "owner", "may", "terminate", "upon", "breach", NL>>
Meaning == <<"DEFINITIONS", NL, "rent", "means", "$9", ".", "rent", "means", "5%", "sales", NL>>
Net == <<"tenant", ",", "shall", "pay", "net", "30", ",", "late", "interest", "5%", NL>>
Blank == <<NL, NL>>
SomeTexts ==
    <<Words(<<Pay, Ending>>), Words(<<PayMore, Ending>>), Words(<<Ending, Pay>>),
      Words(<<Pay, Pay>>), Words(<<Blank, Net, Meaning, Ending>>), Words(<<Meaning, MayPay>>),
      Words(<<Net>>), Blank, Words(<<Raised, Ending>>), Words(<<Tiered>>),
      Words(<<Ending, PayMore, Blank, Meaning, Pay>>)>>

NumeralWords == {"1", "5", "30"}
AmountWords == {"$9", "$12", "$20"}
PercentWords == {"5%"}
Values == [w \in NumeralWords \cup AmountWords \cup PercentWords |->
              CASE w = "1" -> 1 [] w \in {"5", "5%"} -> 5 [] w = "30" -> 30 [] w = "$9" -> 9
                [] w = "$20" -> 20
                [] OTHER -> 12]
CapitalWords == {"DEFINITIONS"}
Brief == {"1", "5", "30", "5%", "$9", "$12", "$20", "if"}
InOrder ==
    <<NL, "$12", "$20", "$9", ",", ".", "1", "30", "5", "5%", ":", ";", "breach", "days",
      "DEFINITIONS", "if", "interest", "invoice", "late", "may", "means", "must", "net", "not",
      "owner", "pay", "payment", "rent", "sales", "section", "shall", "tenant", "terminate",
      "termination", "upon", "within">>
Places_ == [w \in Range(InOrder) |-> CHOOSE i \in DOMAIN InOrder : InOrder[i] = w]

Usual == [minimumSize |-> 1, maximumSize |-> 99, maximumClauses |-> 9, maximumKinds |-> 4,
          maximumDefinitions |-> 9, maximumObligations |-> 9, maximumTerms |-> 9]
Tight == [minimumSize |-> 6, maximumSize |-> 10, maximumClauses |-> 2, maximumKinds |-> 1,
          maximumDefinitions |-> 1, maximumObligations |-> 1, maximumTerms |-> 2]
SomeLimits == {Usual, Tight, [Usual EXCEPT !.minimumSize = 100]}
Comparing == [align |-> <<21, 50>>, unchanged |-> <<39, 40>>, minor |-> <<41, 50>>,
              movedDistance |-> 0, maximumPairs |-> 99, maximumExact |-> 40, q |-> 2,
              obligationAlign |-> <<14, 25>>, economicTolerance |-> <<1, 1000>>,
              economicMateriality |-> <<1, 20>>, maximumAlerts |-> 20]
SomeComparisons ==
    {Comparing, [Comparing EXCEPT !.maximumExact = 6, !.maximumAlerts = 2, !.movedDistance = 1],
     [Comparing EXCEPT !.maximumPairs = 3], [Comparing EXCEPT !.minor = One],
     [Comparing EXCEPT !.economicTolerance = <<10, 1>>]}
Benchmarking == [rare |-> <<17, 50>>, common |-> <<3, 5>>, madMultiplier |-> <<7, 2>>,
                 minimumObservations |-> 3,
                 maximumOutliers |-> 20]

File(path, family, date, stem, text) ==
    [path |-> path, kind |-> "text", size |-> 1, listed |-> TRUE, family |-> family, date |-> date,
     stem |-> stem, digest |-> text]
Two == {File(1, 1, 1, 1, 1), File(2, 1, 2, 1, 2)}
Three == Two \cup {File(3, 2, 1, 3, 6)}
Twins == {File(1, 1, 1, 1, 4), File(2, 1, 1, 1, 4), File(3, 1, 2, 1, 10)}
Spread == {File(1, 1, 1, 1, 4), File(2, 1, 2, 1, 9), File(3, 2, 1, 3, 10)}
Odd == {File(1, 1, 1, 1, 3), [File(2, 1, 2, 1, 2) EXCEPT !.kind = "blank"],
        [File(3, 1, 2, 1, 4) EXCEPT !.size = 9], [File(4, 1, 3, 1, 4) EXCEPT !.listed = FALSE],
        File(5, 1, 0, 2, 5)}
Named(path, id, previous) == [NoRow(path) EXCEPT !.id = id, !.previous = previous]
Clashing == <<Named(1, <<1, Dot>>, NoName), Named(2, <<1, Underscore>>, <<1, Dot>>)>>
Options(replace, infer) ==
    [maximumBytes |-> 5, allFiles |-> FALSE, infer |-> infer, replace |-> replace]
Import(some, rows, options) == [files |-> some, rows |-> rows, options |-> options]
SomeSources ==
    {Import(Three, <<>>, Options(TRUE, TRUE)), Import(Twins, <<>>, Options(FALSE, TRUE)),
     Import(Odd, <<Named(1, <<5>>, NoName)>>, Options(TRUE, FALSE)),
     Import(Two, Clashing, Options(TRUE, TRUE)),
     Import(Spread, <<>>, Options(TRUE, TRUE)),
     Import(Two, <<Named(2, NoName, <<6>>)>>, Options(TRUE, TRUE)),
     Import(Two, <<NoRow(1), NoRow(1)>>, Options(TRUE, TRUE))}
Everything == [family |-> Unstated, maximum |-> 3, profile |-> "lease"]
=============================================================================
