----------------------------- MODULE InvoiceDz ------------------------------
(***************************************************************************)
(* InvoiceDzPack.extract (document_packs/invoice_dz.py) on one document:    *)
(* labelled fields block by block, then what is only recognized by its      *)
(* shape or its neighbour, then line items from four blocks in a row, a     *)
(* total recovered by arithmetic, tables, and the checks.                  *)
(*                                                                         *)
(* A block of text is a record of what the regular expressions find in it;  *)
(* amounts are in hundredths.  An amount with more digits than Decimal's    *)
(* context makes quantize raise, and the extraction fails as a whole.       *)
(***************************************************************************)
EXTENDS Integers, FiniteSets, Sequences, SequencesExt

CONSTANTS Documents,  \* [blocks, rows]: evidence in reading order, table rows
          MaxAmount   \* the largest amount Decimal.quantize takes

NoAmount == -1
Amounts == Nat \cup {NoAmount}
Ids == {"nif", "nis", "rc"}
Companies == {"buyer_company", "supplier_company"}
ItemParts == <<"description", "quantity", "unit_price_ht", "line_total_ht">>

\* What there is to find in a block: identifiers, an invoice number or a date with
\* its label or only by shape, the length of a company's name and whether it runs
\* on, a buyer's word, a currency, whether it can be a description (words) or a
\* quantity (count), and amounts.  Nothing keeps these apart: Arabic-Indic digits
\* are letters to the description's pattern and digits to the others.
\* An amount with a label (ht, rate, tva, ttc) is all the digits after it, read as
\* one number and rounded to hundredths; plain is what the block reads as a whole;
\* tokens are the numbers in it that are whole hundredths.  No label's amount has
\* to be one of them: "190,00 (2)" reads as 190002.  A total is zero or at least
\* a hundredth.
Marks == {"none", "bare", "labelled"}
BlockTexts == [ids : [Ids -> {"none", "bad", "good"}], number : Marks, date : Marks,
               company : Nat, open : BOOLEAN, buyer : BOOLEAN,
               ht : Amounts, rate : Amounts, tva : Amounts, ttc : Amounts, plain : Amounts,
               tokens : SUBSET Nat, currency : BOOLEAN, words : BOOLEAN, count : BOOLEAN]

ASSUME AmountAssumption == MaxAmount \in Nat
\* A row of a table has its three amounts: quantity, unit price and line total.
ASSUME DocumentsAssumption == \A d \in Documents :
    d.blocks \in Seq(BlockTexts) /\ d.rows \in Seq([1..3 -> Amounts])

VARIABLES document, \* the pages' blocks and tables
          phase,    \* "labels", "shapes", "items", "total", "tables", "checks",
                    \* "done" or "failed"
          next,     \* the block the loop is at
          fields,   \* the fields added, in order
          checks    \* the validations

vars == <<document, phase, next, fields, checks>>

\* name and item identify the field (item = NoItem outside line items); value is
\* the amount, or the length of a company's name; at is the source block, or
\* InTable.
NoItem == -1
InTable == 0
Field(name, item, value, at) == [name |-> name, item |-> item, value |-> value, at |-> at]

blocks == document.blocks
Block(i) == blocks[i]

Init ==
    /\ document \in Documents
    /\ phase = "labels" /\ next = 1
    /\ fields = <<>> /\ checks = <<>>

-----------------------------------------------------------------------------
(* Helpers                                                                 *)

Has(name) == \E f \in Range(fields) : f.name = name

\* {field.field_name: field.normalized_value}: the last one wins.
Places(name) == {k \in DOMAIN fields : fields[k].name = name}
LastValue(name) == IF Has(name) THEN fields[Max(Places(name))].value ELSE NoAmount

\* Mutant of Quantizable: any amount is formatted.
Quantizable_Any(values) == TRUE
\* _decimal_text on each of the amounts.
Quantizable(values) == \A v \in values : v <= MaxAmount

\* add for each field in turn, or the exception of a _decimal_text on the way.  The
\* document's identifier leaves room for the field's name: StructuredField takes
\* 200 characters for both.
AmountsOf(new) == {f.value : f \in {g \in Range(new) : g.name \notin Companies}}
AddAll(new, continue) ==
    IF Quantizable(AmountsOf(new))
    THEN fields' = fields \o new /\ continue
    ELSE phase' = "failed" /\ UNCHANGED <<fields, next>>

When(condition, field) == IF condition THEN <<field>> ELSE <<>>

-----------------------------------------------------------------------------
(* The first loop: fields that carry a label                               *)

\* What one block adds, in the order of the code.  A total that reads zero is
\* no value to the code; a TVA of zero is.
Labelled(i) ==
    LET b == Block(i)
        F(name, value) == Field(name, NoItem, value, i)
    IN  FlattenSeq(<<
          When(b.ids["nif"] # "none", F("nif", NoAmount)),
          When(b.ids["nis"] # "none", F("nis", NoAmount)),
          When(b.ids["rc"] # "none", F("rc", NoAmount)),
          When(b.number = "labelled", F("invoice_number", NoAmount)),
          When(b.date = "labelled", F("invoice_date", NoAmount)),
          When(b.company > 0,
               F(IF b.buyer THEN "buyer_company" ELSE "supplier_company", b.company)),
          When(b.ht > 0, F("total_ht", b.ht)),
          When(b.rate >= 0, F("tva_rate", b.rate)),
          When(b.tva >= 0, F("tva_amount", b.tva)),
          When(b.ttc > 0, F("total_ttc", b.ttc)),
          When(b.currency /\ ~Has("currency"), F("currency", NoAmount))>>)

Labels ==
    /\ phase = "labels"
    /\ IF next <= Len(blocks)
       THEN AddAll(Labelled(next), next' = next + 1 /\ UNCHANGED phase)
       ELSE phase' = "shapes" /\ next' = 1 /\ UNCHANGED fields
    /\ UNCHANGED <<document, checks>>

-----------------------------------------------------------------------------
(* The second loop: what has the right shape, and companies over two blocks *)

\* Mutant of Missing: only the blocks before this one have been looked at.
Missing_SoFar(name) == \A f \in Range(fields) : f.name = name => f.at >= next
\* not _has_field
Missing(name) == ~Has(name)

\* _COMPANY in the text of block i and the next: the first name, which runs on
\* into the next block if nothing ends it.
MergedCompany(i) ==
    CASE Block(i).company > 0 -> Block(i).company + (IF Block(i).open THEN 1 ELSE 0)
      [] OTHER -> Block(i + 1).company

Shaped(i) ==
    When(Missing("invoice_number") /\ Block(i).number # "none",
         Field("invoice_number", NoItem, NoAmount, i))
    \o When(Missing("invoice_date") /\ Block(i).date # "none",
            Field("invoice_date", NoItem, NoAmount, i))

\* The merged name takes the place of all buyers found, if there is none or the
\* first of them is shorter.
BetterBuyer(i) ==
    /\ i < Len(blocks)
    /\ Block(i).buyer \/ Block(i + 1).buyer
    /\ MergedCompany(i) > 0
    /\ Has("buyer_company") => MergedCompany(i) > fields[Min(Places("buyer_company"))].value
WithoutBuyers(found) ==
    FlattenSeq([k \in DOMAIN found |-> When(found[k].name # "buyer_company", found[k])])

Shapes ==
    /\ phase = "shapes"
    /\ IF next > Len(blocks)
       THEN phase' = "items" /\ UNCHANGED <<next, fields>>
       ELSE /\ LET known == fields \o Shaped(next)
               IN  fields' = IF BetterBuyer(next)
                             THEN Append(WithoutBuyers(known),
                                    Field("buyer_company", NoItem, MergedCompany(next), next))
                             ELSE known
            /\ next' = next + 1
            /\ UNCHANGED phase
    /\ UNCHANGED <<document, checks>>

-----------------------------------------------------------------------------
(* Line items from a sequence of blocks                                    *)

\* _full_money: the whole block reads as an amount.
IsAmount(b) == b.plain # NoAmount

\* Mutant of IsItem: any block may be the description.
IsItem_AnyText(i) ==
    Block(i + 1).count /\ IsAmount(Block(i + 2)) /\ IsAmount(Block(i + 3))
\* Four blocks in a row that read as description, quantity, price and total.
IsItem(i) ==
    /\ Block(i).words
    /\ Block(i + 1).count /\ IsAmount(Block(i + 2)) /\ IsAmount(Block(i + 3))

\* Mutant of SourceOf: all four fields point at the description.
SourceOf_First(i, part) == i
SourceOf(i, part) == i + part - 1

\* The four fields of the item that begins at block i; items are counted from 0.
ItemIndex(i) == Cardinality({k \in 1..(i - 1) : IsItem(k)})
ItemAt(i) == [part \in 1..4 |->
    Field(ItemParts[part], ItemIndex(i),
          IF part = 1 THEN NoAmount ELSE Block(i + part - 1).plain, SourceOf(i, part))]

\* _recover_sequence_line_items: the window moves by one block.
Items ==
    LET new == FlattenSeq([i \in DOMAIN blocks |->
                 IF i + 3 <= Len(blocks) /\ IsItem(i) THEN ItemAt(i) ELSE <<>>])
    IN  /\ phase = "items"
        /\ IF \E f \in Range(fields) : f.item # NoItem
           THEN phase' = "total" /\ UNCHANGED <<next, fields>>
           ELSE AddAll(new, phase' = "total" /\ UNCHANGED next)
        /\ UNCHANGED <<document, checks>>

-----------------------------------------------------------------------------
(* The total recovered by arithmetic                                       *)

Expected == LastValue("total_ht") + LastValue("tva_amount")

\* Mutant of Recovered: the first HT of the document, not the one the check uses.
Recovered_First ==
    (IF Has("total_ht") THEN fields[Min(Places("total_ht"))].value ELSE 0) + LastValue("tva_amount")
Recovered == Expected

\* _recover_validated_ttc: the first block that shows HT + TVA.
Total ==
    LET known == ~Has("total_ttc") /\ Has("total_ht") /\ Has("tva_amount")
        shows == {i \in DOMAIN blocks : Recovered \in Block(i).tokens}
    IN  /\ phase = "total"
        /\ IF known /\ shows # {}
           THEN AddAll(<<Field("total_ttc", NoItem, Recovered, Min(shows))>>,
                       phase' = "tables" /\ UNCHANGED next)
           ELSE phase' = "tables" /\ UNCHANGED <<next, fields>>
        /\ UNCHANGED <<document, checks>>

-----------------------------------------------------------------------------
(* Tables and checks                                                       *)

\* _line_item_fields of a table whose header names all four columns; a cell
\* that does not read as an amount is kept with no value.
RowAt(k) == [part \in 1..4 |->
    Field(ItemParts[part], k - 1,
          IF part = 1 THEN NoAmount ELSE document.rows[k][part - 1], InTable)]

Tables ==
    LET new == FlattenSeq([k \in DOMAIN document.rows |-> RowAt(k)])
    IN  /\ phase = "tables"
        /\ AddAll(new, phase' = "checks" /\ UNCHANGED next)
        /\ UNCHANGED <<document, checks>>

\* _arithmetic_validation, to a tolerance of one hundredth.
Arithmetic(calculated, reported) ==
    CASE NoAmount \in {calculated, reported} -> "review"
      [] calculated - reported \in -1..1 -> "pass"
      [] OTHER -> "fail"

\* Mutant of Readable: a cell without a value is converted as well.
Readable_All(f) == TRUE
Readable(f) == f.value # NoAmount

\* The line totals that are converted and summed.
LineTotals == {k \in Places("line_total_ht") : Readable(fields[k])}

WellFormed(name) ==
    IF Has(name) /\ Block(fields[Max(Places(name))].at).ids[name] = "good"
    THEN "pass" ELSE "review"

\* _validate: Decimal("") would raise.
Checks ==
    LET sum == IF LineTotals = {} THEN NoAmount
               ELSE SumFunction([k \in LineTotals |-> fields[k].value])
        expected == IF Has("total_ht") /\ Has("tva_amount") THEN Expected ELSE NoAmount
    IN  /\ phase = "checks"
        /\ IF \E k \in LineTotals : fields[k].value = NoAmount
           THEN phase' = "failed" /\ UNCHANGED checks
           ELSE /\ phase' = "done"
                /\ checks' = [nif |-> WellFormed("nif"), nis |-> WellFormed("nis"),
                              items |-> Arithmetic(sum, LastValue("total_ht")),
                              total |-> Arithmetic(expected, LastValue("total_ttc"))]
        /\ UNCHANGED <<document, next, fields>>

Next == Labels \/ Shapes \/ Items \/ Total \/ Tables \/ Checks

Spec == Init /\ [][Next]_vars

-----------------------------------------------------------------------------
(* Properties                                                              *)

\* Every amount that is returned fits the decimal context, and every source is
\* a block of the document or a table cell.
TypeOK ==
    /\ document \in Documents
    /\ phase \in {"labels", "shapes", "items", "total", "tables", "checks", "done", "failed"}
    /\ next \in 1..(Len(blocks) + 1)
    /\ \A f \in Range(fields) :
         /\ f.value \in Amounts /\ (f.name \in Companies \/ f.value <= MaxAmount)
         /\ f.at \in 0..Len(blocks)
         /\ f.item = NoItem \/ f.name \in Range(ItemParts)

\* No block carries a total with its label.
NoTotal == \A b \in Range(blocks) : b.ttc <= 0

\* A total that no block labels, and that was found by arithmetic, makes the
\* arithmetic check pass: the recovery and the check read the same HT and TVA,
\* whatever was added in between (_recover_validated_ttc, _validate).
RecoveredTotalAgrees ==
    phase = "done" /\ Has("total_ttc") /\ NoTotal => checks.total = "pass"

\* The window of four moves by one block after an item too, and two items share a
\* block only if a block that can be a description, the shared one or one of the
\* three before it, is also a quantity or an amount: a number in digits that are
\* letters to the pattern (_recover_sequence_line_items).
ItemsShareOnlyNumerals == \A f, g \in Range(fields) :
    f.item # NoItem /\ g.item # NoItem /\ f.at = g.at /\ f.at # InTable /\ f.item # g.item
        => \E i \in (f.at - 3)..f.at \cap DOMAIN blocks :
             Block(i).words /\ (Block(i).count \/ IsAmount(Block(i)))

\* A number or a date with a label is never joined by one that merely has the
\* shape, wherever in the document the label stands (the two loops of extract).
LabelsWin ==
    /\ \A f \in Range(fields) : f.name = "invoice_number" /\ Block(f.at).number = "bare" =>
         \A b \in Range(blocks) : b.number # "labelled"
    /\ \A f \in Range(fields) : f.name = "invoice_date" /\ Block(f.at).date = "bare" =>
         \A b \in Range(blocks) : b.date # "labelled"

\* What the source block of an amount reads as for the field: behind its label, as a
\* whole for a part of a line item, and one of the block's numbers for a total that
\* arithmetic found.
Readings(f) ==
    LET b == Block(f.at)
    IN  CASE f.name = "total_ht" -> {b.ht}
          [] f.name = "tva_rate" -> {b.rate}
          [] f.name = "tva_amount" -> {b.tva}
          [] f.name = "total_ttc" -> IF NoTotal THEN b.tokens ELSE {b.ttc}
          [] OTHER -> {b.plain}

\* A reviewer who follows an amount to its source block finds there what was read;
\* a total is never arithmetic where some block labels one (source_block_id).
AmountsAsRead == \A f \in Range(fields) :
    f.at # InTable /\ f.value # NoAmount /\ f.name \notin Companies => f.value \in Readings(f)

\* Every amount that something reads in a block.
ReadIn(b) == {b.ht, b.rate, b.tva, b.ttc, b.plain} \cup b.tokens

\* A document is only lost to an amount beyond the decimal context: a table cell
\* that does not read as an amount does not end the extraction (_decimal_text).
FailsOnlyOnOversize == phase = "failed" =>
    \/ \E i \in DOMAIN blocks : \E v \in ReadIn(Block(i)) : v > MaxAmount
    \/ \E k \in DOMAIN document.rows : \E v \in Range(document.rows[k]) : v > MaxAmount
=============================================================================
