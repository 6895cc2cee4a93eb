---------------------------- MODULE MCInvoiceDz -----------------------------
(***************************************************************************)
(* Small documents for InvoiceDz: every sequence of up to three header and  *)
(* total blocks, every sequence of four or five blocks of line items, of six *)
(* with numbers in digits that are letters too, and tables.                *)
(***************************************************************************)
EXTENDS InvoiceDz

NoIds == [name \in Ids |-> "none"]
Empty == [ids |-> NoIds, number |-> "none", date |-> "none", company |-> 0,
          open |-> FALSE, buyer |-> FALSE, ht |-> NoAmount, rate |-> NoAmount,
          tva |-> NoAmount, ttc |-> NoAmount, plain |-> NoAmount,
          tokens |-> {}, currency |-> FALSE, words |-> TRUE, count |-> FALSE]

Header == [Empty EXCEPT !.number = "labelled", !.date = "bare", !.company = 2,
                        !.ids = [NoIds EXCEPT !["nif"] = "good", !["rc"] = "good"]]
Bare == [Empty EXCEPT !.number = "bare", !.date = "labelled",
                      !.ids = [NoIds EXCEPT !["nis"] = "bad"]]
Client == [Empty EXCEPT !.buyer = TRUE]
Company == [Empty EXCEPT !.company = 1, !.open = TRUE]
Ht100 == [Empty EXCEPT !.ht = 100, !.tokens = {100}, !.currency = TRUE]
\* The digits behind the label are two numbers, read as one.
Ht200 == [Empty EXCEPT !.ht = 200, !.tokens = {20, 0}]
Tva == [Empty EXCEPT !.rate = 19, !.tva = 19, !.tokens = {19}]
TvaFree == [Empty EXCEPT !.tva = 0, !.tokens = {0}]
Ttc(v) == [Empty EXCEPT !.ttc = v, !.tokens = {v}]
Plain(v) == [Empty EXCEPT !.plain = v, !.tokens = {v}, !.words = FALSE]
Count == [Plain(2) EXCEPT !.count = TRUE]
\* A count whose digits are no amount's: Devanagari.
OddCount == [Empty EXCEPT !.count = TRUE, !.words = FALSE]
\* A number in Arabic-Indic digits.
Numeral(b) == [b EXCEPT !.words = TRUE]

Oversize == 1000
Heads == {Header, Bare, Client, Company, Ht100, Ht200, Tva, TvaFree, Ttc(0), Ttc(219),
          Plain(119), Plain(Oversize)}
ItemBlocks == {Empty, Count, Plain(100), Ht100, Numeral(Count), Numeral(Plain(100))}
NumeralBlocks == {Empty, Count, Numeral(Plain(100))}
NoTable == {<<>>}
SomeTables == {<<>>, <<<<2, 50, 100>>, <<1, NoAmount, NoAmount>>>>, <<<<1, 1, Oversize>>>>}

SomeDocuments ==
    [blocks : UNION {[1..n -> Heads] : n \in 0..3}, rows : NoTable]
    \cup [blocks : [1..4 -> ItemBlocks \cup {OddCount}] \cup [1..5 -> ItemBlocks], rows : NoTable]
    \cup [blocks : [1..6 -> NumeralBlocks], rows : NoTable]
    \cup [blocks : {<<>>, <<Ht100>>, <<Header, Ht200, Tva>>, <<Empty, Count, Plain(100), Plain(100)>>},
          rows : SomeTables]
=============================================================================
