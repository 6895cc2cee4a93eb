-------------------------- MODULE InvoiceDz_proofs --------------------------
(***************************************************************************)
(* Proofs about the invoice pack: every amount is what its source block     *)
(* reads as, a label beats a shape, two line items share a block only over  *)
(* a number that can be a description, a recovered total passes the check,  *)
(* and only an amount beyond the decimal context loses a document.         *)
(***************************************************************************)
EXTENDS InvoiceDz, SequenceLemmas

-----------------------------------------------------------------------------
(* Documents and fields                                                    *)

Phases == {"labels", "shapes", "items", "total", "tables", "checks", "done", "failed"}
ItemNames == {"description", "quantity", "unit_price_ht", "line_total_ht"}
Names == {"nif", "nis", "rc", "invoice_number", "invoice_date", "buyer_company",
          "supplier_company", "total_ht", "tva_rate", "tva_amount", "total_ttc", "currency"}
Fields == [name : Names \cup ItemNames, item : Int, value : Amounts, at : Nat]

Typed ==
    /\ document \in Documents
    /\ phase \in Phases
    /\ next \in 1..(Len(blocks) + 1)
    /\ fields \in Seq(Fields)

LEMMA Blocks ==
  ASSUME Typed
  PROVE  /\ blocks \in Seq(BlockTexts) /\ Len(blocks) \in Nat
         /\ \A i \in 1..Len(blocks) : Block(i) \in BlockTexts
         /\ document.rows \in Seq([1..3 -> Amounts])
  BY DocumentsAssumption DEF Typed, blocks, Block

\* What the type says of a block, field by field.
LEMMA BlockParts ==
  ASSUME NEW b \in BlockTexts
  PROVE  /\ b.company \in Nat /\ b.open \in BOOLEAN /\ b.buyer \in BOOLEAN
         /\ b.ht \in Amounts /\ b.rate \in Amounts /\ b.tva \in Amounts
         /\ b.ttc \in Amounts /\ b.plain \in Amounts /\ b.tokens \in SUBSET Nat
  BY DEF BlockTexts

\* The fields in two lists, and in the list that a document has with new ones added.
LEMMA JoinedRange ==
  ASSUME NEW s \in Seq(Fields), NEW t \in Seq(Fields)
  PROVE  s \o t \in Seq(Fields) /\ Range(s \o t) = Range(s) \cup Range(t)
  BY RangeConcatenation

LEMMA AddedRange ==
  ASSUME Typed, NEW new \in Seq(Fields)
  PROVE  fields \o new \in Seq(Fields) /\ Range(fields \o new) = Range(fields) \cup Range(new)
  BY RangeConcatenation DEF Typed

\* The elements of eleven short sequences in one.
LEMMA ElevenRange ==
  ASSUME NEW S, NEW ss \in Seq(Seq(S)), Len(ss) = 11
  PROVE  /\ FlattenSeq(ss) \in Seq(S)
         /\ Range(FlattenSeq(ss)) = UNION {Range(ss[1]), Range(ss[2]), Range(ss[3]), Range(ss[4]),
              Range(ss[5]), Range(ss[6]), Range(ss[7]), Range(ss[8]), Range(ss[9]),
              Range(ss[10]), Range(ss[11])}
  <1>1. \A n \in 1..11 : n = 1 \/ n = 2 \/ n = 3 \/ n = 4 \/ n = 5 \/ n = 6 \/ n = 7
                         \/ n = 8 \/ n = 9 \/ n = 10 \/ n = 11
    OBVIOUS
  <1>2. \A x : x \in Range(FlattenSeq(ss)) <=> \E n \in 1..11 : x \in Range(ss[n])
    BY FlattenRange
  <1>3. QED BY <1>1, <1>2, FlattenTyped

\* What one block adds: fields that name it as their source.
Wanted(c, f) == IF c THEN {f} ELSE {}
Found(i) ==
    LET b == Block(i)
        F(name, value) == Field(name, NoItem, value, i)
    IN  UNION {Wanted(b.ids["nif"] # "none", F("nif", NoAmount)),
               Wanted(b.ids["nis"] # "none", F("nis", NoAmount)),
               Wanted(b.ids["rc"] # "none", F("rc", NoAmount)),
               Wanted(b.number = "labelled", F("invoice_number", NoAmount)),
               Wanted(b.date = "labelled", F("invoice_date", NoAmount)),
               Wanted(b.company > 0,
                      F(IF b.buyer THEN "buyer_company" ELSE "supplier_company", b.company)),
               Wanted(b.ht > 0, F("total_ht", b.ht)),
               Wanted(b.rate >= 0, F("tva_rate", b.rate)),
               Wanted(b.tva >= 0, F("tva_amount", b.tva)),
               Wanted(b.ttc > 0, F("total_ttc", b.ttc)),
               Wanted(b.currency /\ ~Has("currency"), F("currency", NoAmount))}

LEMMA LabelledRange ==
  ASSUME Typed, NEW i \in 1..Len(blocks)
  PROVE  Labelled(i) \in Seq(Fields) /\ Range(Labelled(i)) = Found(i)
  <1> DEFINE b == Block(i)
             company == IF b.buyer THEN "buyer_company" ELSE "supplier_company"
             f1 == Field("nif", NoItem, NoAmount, i)
             f2 == Field("nis", NoItem, NoAmount, i)
             f3 == Field("rc", NoItem, NoAmount, i)
             f4 == Field("invoice_number", NoItem, NoAmount, i)
             f5 == Field("invoice_date", NoItem, NoAmount, i)
             f6 == Field(company, NoItem, b.company, i)
             f7 == Field("total_ht", NoItem, b.ht, i)
             f8 == Field("tva_rate", NoItem, b.rate, i)
             f9 == Field("tva_amount", NoItem, b.tva, i)
             f10 == Field("total_ttc", NoItem, b.ttc, i)
             f11 == Field("currency", NoItem, NoAmount, i)
             a1 == When(b.ids["nif"] # "none", f1)
             a2 == When(b.ids["nis"] # "none", f2)
             a3 == When(b.ids["rc"] # "none", f3)
             a4 == When(b.number = "labelled", f4)
             a5 == When(b.date = "labelled", f5)
             a6 == When(b.company > 0, f6)
             a7 == When(b.ht > 0, f7)
             a8 == When(b.rate >= 0, f8)
             a9 == When(b.tva >= 0, f9)
             a10 == When(b.ttc > 0, f10)
             a11 == When(b.currency /\ ~Has("currency"), f11)
  <1>1. b \in BlockTexts /\ i \in Nat /\ NoItem \in Int
    BY Blocks DEF NoItem
  <1>2. NoAmount \in Amounts /\ b.company \in Amounts /\ b.ht \in Amounts /\ b.rate \in Amounts
        /\ b.tva \in Amounts /\ b.ttc \in Amounts
    BY <1>1, BlockParts DEF Amounts
  <1>3. f1 \in Fields
    BY <1>1, <1>2 DEF Field, Fields, Names
  <1>4. f2 \in Fields
    BY <1>1, <1>2 DEF Field, Fields, Names
  <1>5. f3 \in Fields
    BY <1>1, <1>2 DEF Field, Fields, Names
  <1>6. f4 \in Fields
    BY <1>1, <1>2 DEF Field, Fields, Names
  <1>7. f5 \in Fields
    BY <1>1, <1>2 DEF Field, Fields, Names
  <1>8. f6 \in Fields
    BY <1>1, <1>2 DEF Field, Fields, Names
  <1>9. f7 \in Fields
    BY <1>1, <1>2 DEF Field, Fields, Names
  <1>10. f8 \in Fields
    BY <1>1, <1>2 DEF Field, Fields, Names
  <1>11. f9 \in Fields
    BY <1>1, <1>2 DEF Field, Fields, Names
  <1>12. f10 \in Fields
    BY <1>1, <1>2 DEF Field, Fields, Names
  <1>13. f11 \in Fields
    BY <1>1, <1>2 DEF Field, Fields, Names
  <1> HIDE DEF f1, f2, f3, f4, f5, f6, f7, f8, f9, f10, f11
  <1>14. a1 \in Seq(Fields) /\ Range(a1) = Wanted(b.ids["nif"] # "none", f1)
    BY <1>3 DEF When, Wanted, Range
  <1>15. a2 \in Seq(Fields) /\ Range(a2) = Wanted(b.ids["nis"] # "none", f2)
    BY <1>4 DEF When, Wanted, Range
  <1>16. a3 \in Seq(Fields) /\ Range(a3) = Wanted(b.ids["rc"] # "none", f3)
    BY <1>5 DEF When, Wanted, Range
  <1>17. a4 \in Seq(Fields) /\ Range(a4) = Wanted(b.number = "labelled", f4)
    BY <1>6 DEF When, Wanted, Range
  <1>18. a5 \in Seq(Fields) /\ Range(a5) = Wanted(b.date = "labelled", f5)
    BY <1>7 DEF When, Wanted, Range
  <1>19. a6 \in Seq(Fields) /\ Range(a6) = Wanted(b.company > 0, f6)
    BY <1>8 DEF When, Wanted, Range
  <1>20. a7 \in Seq(Fields) /\ Range(a7) = Wanted(b.ht > 0, f7)
    BY <1>9 DEF When, Wanted, Range
  <1>21. a8 \in Seq(Fields) /\ Range(a8) = Wanted(b.rate >= 0, f8)
    BY <1>10 DEF When, Wanted, Range
  <1>22. a9 \in Seq(Fields) /\ Range(a9) = Wanted(b.tva >= 0, f9)
    BY <1>11 DEF When, Wanted, Range
  <1>23. a10 \in Seq(Fields) /\ Range(a10) = Wanted(b.ttc > 0, f10)
    BY <1>12 DEF When, Wanted, Range
  <1>24. a11 \in Seq(Fields) /\ Range(a11) = Wanted(b.currency /\ ~Has("currency"), f11)
    BY <1>13 DEF When, Wanted, Range
  <1> DEFINE ss == <<a1, a2, a3, a4, a5, a6, a7, a8, a9, a10, a11>>
  <1>25. Labelled(i) = FlattenSeq(ss)
    BY DEF Labelled, f1, f2, f3, f4, f5, f6, f7, f8, f9, f10, f11
  <1> HIDE DEF a1, a2, a3, a4, a5, a6, a7, a8, a9, a10, a11
  <1>26. ss \in Seq(Seq(Fields)) /\ Len(ss) = 11
    BY <1>14, <1>15, <1>16, <1>17, <1>18, <1>19, <1>20, <1>21, <1>22, <1>23, <1>24
  <1>27. /\ ss[1] = a1 /\ ss[2] = a2 /\ ss[3] = a3 /\ ss[4] = a4 /\ ss[5] = a5 /\ ss[6] = a6
         /\ ss[7] = a7 /\ ss[8] = a8 /\ ss[9] = a9 /\ ss[10] = a10 /\ ss[11] = a11
    OBVIOUS
  <1> HIDE DEF ss
  <1>28. Labelled(i) \in Seq(Fields)
         /\ Range(Labelled(i)) = UNION {Range(a1), Range(a2), Range(a3), Range(a4), Range(a5),
                Range(a6), Range(a7), Range(a8), Range(a9), Range(a10), Range(a11)}
    BY <1>25, <1>26, <1>27, ElevenRange
  <1>29. QED BY <1>14, <1>15, <1>16, <1>17, <1>18, <1>19, <1>20, <1>21, <1>22, <1>23, <1>24, <1>28
    DEF Found, f1, f2, f3, f4, f5, f6, f7, f8, f9, f10, f11

-----------------------------------------------------------------------------
(* Where a field comes from                                                *)

\* A line item that is not from a table is from four blocks in a row.
Placed(f) == f.item # NoItem /\ f.at # InTable =>
    \E i \in 1..(Len(blocks) - 3) : \E part \in 1..4 :
        IsItem(i) /\ f.at = i + part - 1 /\ f.item = ItemIndex(i)
\* The amount is what the source block reads as for the field.
Grounded(f) == f.at # InTable /\ f.value # NoAmount /\ f.name \notin Companies =>
    /\ f.name = "total_ht" => f.value = Block(f.at).ht
    /\ f.name = "tva_rate" => f.value = Block(f.at).rate
    /\ f.name = "tva_amount" => f.value = Block(f.at).tva
    /\ f.name = "total_ttc" => \/ Block(f.at).ttc > 0 /\ f.value = Block(f.at).ttc
                               \/ f.value \in Block(f.at).tokens
    /\ f.name \notin {"total_ht", "tva_rate", "tva_amount", "total_ttc"} =>
         f.value = Block(f.at).plain
Sourced(f) ==
    /\ f.at \in 0..Len(blocks)
    /\ f.item = NoItem <=> f.name \in Names
    /\ f.at = InTable => f.item # NoItem
    /\ f.name = "total_ht" => f.value > 0
    /\ f.name = "tva_amount" => f.value >= 0
    /\ Placed(f)
    /\ Grounded(f)
Small(f) == f.name \in Companies \/ f.value <= MaxAmount

WellSourced == \A f \in Range(fields) : Small(f) /\ Sourced(f)

\* Nothing of this changes while the document stays.
LEMMA SourcedStays ==
  ASSUME document' = document, NEW f
  PROVE  Sourced(f)' <=> Sourced(f)
  BY DEF Sourced, Placed, Grounded, IsItem, ItemIndex, Block, blocks

LEMMA LabelledSourced ==
  ASSUME Typed, NEW i \in 1..Len(blocks)
  PROVE  \A f \in Range(Labelled(i)) : Sourced(f) /\ f.at = i /\ f.item = NoItem
  <1> DEFINE b == Block(i)
  <1>1. b \in BlockTexts /\ i \in Nat /\ Len(blocks) \in Nat
    BY Blocks
  <1>2. b.company \in Nat /\ b.ht \in Amounts /\ b.rate \in Amounts
        /\ b.tva \in Amounts /\ b.ttc \in Amounts /\ b.plain \in Amounts
    BY <1>1, BlockParts
  <1>3. ASSUME NEW f \in Found(i)
        PROVE  /\ f.at = i /\ f.item = NoItem /\ f.name \in Names
               /\ f.name = "total_ht" => f.value > 0
               /\ f.name = "tva_amount" => f.value >= 0
               /\ f.value # NoAmount /\ f.name \notin Companies =>
                    /\ f.name = "total_ht" => f.value = b.ht
                    /\ f.name = "tva_rate" => f.value = b.rate
                    /\ f.name = "tva_amount" => f.value = b.tva
                    /\ f.name = "total_ttc" => b.ttc > 0 /\ f.value = b.ttc
                    /\ f.name \in {"total_ht", "tva_rate", "tva_amount", "total_ttc"}
    BY <1>2 DEF Found, Wanted, Field, Names, Companies, NoAmount, Amounts
  <1>4. QED BY <1>1, <1>3, LabelledRange DEF Sourced, Placed, Grounded, InTable

\* A field of the second loop stands for what is missing and has the right shape.
Marked == {"invoice_number", "invoice_date"}
Mark(name, i) == IF name = "invoice_number" THEN Block(i).number ELSE Block(i).date

LEMMA ShapedSourced ==
  ASSUME Typed, NEW i \in 1..Len(blocks)
  PROVE  /\ Shaped(i) \in Seq(Fields)
         /\ \A f \in Range(Shaped(i)) : Sourced(f) /\ f.at = i /\ f.name \in Marked /\ Missing(f.name)
                                      /\ f.item = NoItem /\ f.value = NoAmount
  <1> DEFINE f1 == Field("invoice_number", NoItem, NoAmount, i)
             f2 == Field("invoice_date", NoItem, NoAmount, i)
             a1 == When(Missing("invoice_number") /\ Block(i).number # "none", f1)
             a2 == When(Missing("invoice_date") /\ Block(i).date # "none", f2)
  <1>1. i \in Nat /\ Len(blocks) \in Nat /\ NoItem \in Int /\ NoAmount \in Amounts
    BY Blocks DEF NoItem, NoAmount, Amounts
  <1>2. f1 \in Fields /\ f2 \in Fields
    BY <1>1 DEF Field, Fields, Names
  <1>3. a1 \in Seq(Fields) /\ \A f \in Range(a1) : f = f1 /\ Missing("invoice_number")
    BY <1>2 DEF When, Range
  <1>4. a2 \in Seq(Fields) /\ \A f \in Range(a2) : f = f2 /\ Missing("invoice_date")
    BY <1>2 DEF When, Range
  <1>5. Shaped(i) = a1 \o a2
    BY DEF Shaped
  <1>6. Sourced(f1) /\ Sourced(f2)
    BY <1>1 DEF Sourced, Placed, Grounded, InTable, Field, Names
  <1> HIDE DEF a1, a2
  <1>7. Shaped(i) \in Seq(Fields) /\ Range(Shaped(i)) = Range(a1) \cup Range(a2)
    BY <1>3, <1>4, <1>5, RangeConcatenation
  <1>8. QED BY <1>3, <1>4, <1>6, <1>7 DEF Marked, Field

LEMMA BuyersGone ==
  ASSUME NEW found \in Seq(Fields)
  PROVE  /\ WithoutBuyers(found) \in Seq(Fields)
         /\ Range(WithoutBuyers(found)) = {f \in Range(found) : f.name # "buyer_company"}
  <1> DEFINE ss == [k \in DOMAIN found |-> When(found[k].name # "buyer_company", found[k])]
  <1>1. \A k \in 1..Len(found) : found[k] \in Fields /\ ss[k] \in Seq(Fields)
            /\ Range(ss[k]) = IF found[k].name # "buyer_company" THEN {found[k]} ELSE {}
    BY DEF When, Range
  <1>2. ss \in Seq(Seq(Fields)) /\ Len(ss) = Len(found)
    <2>1. DOMAIN found = 1..Len(found) /\ Len(found) \in Nat
      OBVIOUS
    <2>2. ss \in [1..Len(found) -> Seq(Fields)]
      BY <1>1, <2>1
    <2> HIDE DEF ss
    <2>3. QED BY <2>1, <2>2
  <1> HIDE DEF ss
  <1>3. FlattenSeq(ss) \in Seq(Fields)
        /\ \A x : x \in Range(FlattenSeq(ss)) <=> \E k \in 1..Len(found) : x \in Range(ss[k])
    BY <1>2, FlattenTyped, FlattenRange
  <1>4. \A x : x \in Range(found) <=> \E k \in 1..Len(found) : x = found[k]
    BY DEF Range
  <1>5. WithoutBuyers(found) = FlattenSeq(ss)
    BY DEF WithoutBuyers, ss
  <1>6. ASSUME NEW x \in Range(FlattenSeq(ss)) PROVE x \in Range(found) /\ x.name # "buyer_company"
    <2>1. PICK k \in 1..Len(found) : x \in Range(ss[k])
      BY <1>3
    <2>2. QED BY <1>1, <1>4, <2>1
  <1>7. ASSUME NEW x \in Range(found), x.name # "buyer_company" PROVE x \in Range(FlattenSeq(ss))
    <2>1. PICK k \in 1..Len(found) : x = found[k]
      BY <1>4
    <2>2. QED BY <1>1, <1>3, <1>7, <2>1
  <1>8. QED BY <1>3, <1>5, <1>6, <1>7

LEMMA BuyerSourced ==
  ASSUME Typed, NEW i \in 1..Len(blocks), BetterBuyer(i)
  PROVE  LET f == Field("buyer_company", NoItem, MergedCompany(i), i)
         IN  f \in Fields /\ Sourced(f) /\ f.item = NoItem /\ Small(f)
  <1>1. i \in Nat /\ Len(blocks) \in Nat /\ i < Len(blocks)
        /\ Block(i) \in BlockTexts /\ Block(i + 1) \in BlockTexts
    BY Blocks DEF BetterBuyer
  <1>2. Block(i).company \in Nat /\ Block(i + 1).company \in Nat
    BY <1>1, BlockParts
  <1>3. MergedCompany(i) \in Nat
    BY <1>2 DEF MergedCompany
  <1>4. QED BY <1>1, <1>3 DEF Field, Fields, Amounts, Sourced, Placed, Grounded, Small,
               NoItem, InTable, Names, Companies

\* The four names of a line item's parts.
LEMMA PartNames ==
  /\ \A part \in 1..4 : ItemParts[part] \in ItemNames
  /\ Range(ItemParts) = ItemNames
  /\ ItemNames \cap Names = {}
  <1>1. \A part \in 1..4 : part = 1 \/ part = 2 \/ part = 3 \/ part = 4
    OBVIOUS
  <1>2. /\ ItemParts[1] = "description" /\ ItemParts[2] = "quantity"
        /\ ItemParts[3] = "unit_price_ht" /\ ItemParts[4] = "line_total_ht"
        /\ DOMAIN ItemParts = 1..4
    BY DEF ItemParts
  <1>3. ItemNames \cap Names = {}
    BY DEF ItemNames, Names
  <1>4. QED BY <1>1, <1>2, <1>3 DEF ItemNames, Range

LEMMA IndexTyped == ASSUME NEW i \in Nat PROVE ItemIndex(i) \in Nat
  <1>1. IsFiniteSet(1..(i - 1))
    BY FS_Interval
  <1>2. {k \in 1..(i - 1) : IsItem(k)} \in SUBSET (1..(i - 1))
    OBVIOUS
  <1>3. QED BY <1>1, <1>2, FS_Subset, FS_CardinalityType DEF ItemIndex

\* What Items adds.
FromBlocks(f) == f.at # InTable /\ f.name \in ItemNames
SequenceItems == FlattenSeq([i \in DOMAIN blocks |->
    IF i + 3 <= Len(blocks) /\ IsItem(i) THEN ItemAt(i) ELSE <<>>])

LEMMA ItemSourced ==
  ASSUME Typed, NEW i \in 1..Len(blocks), i + 3 <= Len(blocks), IsItem(i)
  PROVE  ItemAt(i) \in Seq(Fields) /\ \A f \in Range(ItemAt(i)) : Sourced(f) /\ FromBlocks(f)
  <1>1. i \in Nat /\ Len(blocks) \in Nat /\ ItemIndex(i) \in Nat
    BY Blocks, IndexTyped
  <1>2. ASSUME NEW part \in 1..4
        PROVE  ItemAt(i)[part] \in Fields /\ Sourced(ItemAt(i)[part]) /\ FromBlocks(ItemAt(i)[part])
    <2> DEFINE f == ItemAt(i)[part]
    <2>1. i + part - 1 \in 1..Len(blocks) /\ i + part - 1 \in Nat
      BY <1>1
    <2>2. Block(i + part - 1).plain \in Amounts
      BY <2>1, Blocks, BlockParts
    <2>3. f = Field(ItemParts[part], ItemIndex(i),
                    IF part = 1 THEN NoAmount ELSE Block(i + part - 1).plain, i + part - 1)
      BY DEF ItemAt, SourceOf
    <2>4. ItemParts[part] \in ItemNames /\ ItemParts[part] \notin Names
      BY PartNames
    <2> DEFINE v == IF part = 1 THEN NoAmount ELSE Block(i + part - 1).plain
    <2>5. v \in Amounts /\ (v # NoAmount => v = Block(i + part - 1).plain)
      BY <2>2 DEF Amounts
    <2> HIDE DEF v, f
    <2>6. /\ f.name = ItemParts[part] /\ f.item = ItemIndex(i) /\ f.value = v /\ f.at = i + part - 1
          /\ f \in Fields
      BY <1>1, <2>1, <2>3, <2>4, <2>5 DEF Field, Fields, v
    <2>7. f.item # NoItem /\ f.name # "total_ht" /\ f.name # "tva_amount" /\ f.name \notin Names
      BY <1>1, <2>4, <2>6 DEF NoItem, Names
    <2>8. Placed(f)
      <3>1. i \in 1..(Len(blocks) - 3)
        BY <1>1
      <3>2. QED BY <2>6, <3>1 DEF Placed
    <2>9. Grounded(f)
      BY <2>5, <2>6, <2>7 DEF Grounded, Names
    <2>10. Sourced(f)
      BY <2>1, <2>6, <2>7, <2>8, <2>9 DEF Sourced
    <2>11. f.at # InTable /\ f.name \in ItemNames
      BY <1>1, <2>4, <2>6 DEF InTable
    <2>12. QED BY <2>6, <2>10, <2>11 DEF f, FromBlocks
  <1>3. DOMAIN ItemAt(i) = 1..4 /\ ItemAt(i) = [part \in 1..4 |-> ItemAt(i)[part]]
    BY DEF ItemAt
  <1>4. ItemAt(i) \in Seq(Fields)
    BY <1>2, <1>3
  <1>5. QED BY <1>2, <1>3, <1>4 DEF Range

LEMMA ItemsSourced ==
  ASSUME Typed
  PROVE  SequenceItems \in Seq(Fields)
         /\ \A f \in Range(SequenceItems) : Sourced(f) /\ FromBlocks(f)
  <1> DEFINE ss == [i \in DOMAIN blocks |->
               IF i + 3 <= Len(blocks) /\ IsItem(i) THEN ItemAt(i) ELSE <<>>]
  <1>1. DOMAIN blocks = 1..Len(blocks) /\ Len(blocks) \in Nat
    BY Blocks
  <1>2. \A i \in 1..Len(blocks) :
          ss[i] \in Seq(Fields) /\ \A f \in Range(ss[i]) : Sourced(f) /\ FromBlocks(f)
    BY <1>1, ItemSourced DEF Range
  <1>3. ss \in Seq(Seq(Fields)) /\ Len(ss) = Len(blocks)
    <2>1. ss \in [1..Len(blocks) -> Seq(Fields)]
      BY <1>1, <1>2
    <2> HIDE DEF ss
    <2>2. QED BY <1>1, <2>1
  <1> HIDE DEF ss
  <1>4. FlattenSeq(ss) \in Seq(Fields)
        /\ \A x : x \in Range(FlattenSeq(ss)) <=> \E k \in 1..Len(blocks) : x \in Range(ss[k])
    BY <1>3, FlattenTyped, FlattenRange
  <1>5. SequenceItems = FlattenSeq(ss)
    BY DEF SequenceItems, ss
  <1>6. QED BY <1>2, <1>4, <1>5

\* What Tables adds.
FromRow(f) ==
    /\ f.at = InTable /\ f.name \in ItemNames
    /\ f.value # NoAmount => \E k \in DOMAIN document.rows : f.value \in Range(document.rows[k])
TableItems == FlattenSeq([k \in DOMAIN document.rows |-> RowAt(k)])

LEMMA TablesSourced ==
  ASSUME Typed
  PROVE  TableItems \in Seq(Fields) /\ \A f \in Range(TableItems) : Sourced(f) /\ FromRow(f)
  <1> DEFINE rows == document.rows
             ss == [k \in DOMAIN rows |-> RowAt(k)]
  <1>1. DOMAIN rows = 1..Len(rows) /\ Len(rows) \in Nat
        /\ \A k \in 1..Len(rows) : rows[k] \in [1..3 -> Amounts]
    BY Blocks
  <1>2. ASSUME NEW k \in 1..Len(rows)
        PROVE  RowAt(k) \in Seq(Fields) /\ \A f \in Range(RowAt(k)) : Sourced(f) /\ FromRow(f)
    <2>1. ASSUME NEW part \in 1..4
          PROVE  RowAt(k)[part] \in Fields /\ Sourced(RowAt(k)[part]) /\ FromRow(RowAt(k)[part])
      <3> DEFINE v == IF part = 1 THEN NoAmount ELSE rows[k][part - 1]
      <3>1. v \in Amounts /\ (v # NoAmount => v \in Range(rows[k]))
        <4>1. part # 1 => part - 1 \in 1..3
          OBVIOUS
        <4>2. QED BY <1>1, <4>1 DEF Amounts, Range
      <3>2. RowAt(k)[part] = Field(ItemParts[part], k - 1, v, InTable)
        BY DEF RowAt
      <3> HIDE DEF v, rows
      <3>3. k - 1 \in Nat
        BY <1>1
      <3>4. ItemParts[part] \in ItemNames /\ ItemParts[part] \notin Names /\ Len(blocks) \in Nat
        BY PartNames, Blocks
      <3>5. v # NoAmount => \E m \in DOMAIN document.rows : v \in Range(document.rows[m])
        BY <1>1, <3>1 DEF rows
      <3>6. QED BY <3>1, <3>2, <3>3, <3>4, <3>5
        DEF Field, Fields, FromRow, Sourced, Placed, Grounded, InTable, NoItem, Names
    <2>2. DOMAIN RowAt(k) = 1..4 /\ RowAt(k) = [part \in 1..4 |-> RowAt(k)[part]]
      BY DEF RowAt
    <2>3. QED BY <2>1, <2>2 DEF Range
  <1>3. ss \in Seq(Seq(Fields)) /\ Len(ss) = Len(rows)
    <2>1. ss \in [1..Len(rows) -> Seq(Fields)]
      BY <1>1, <1>2
    <2> HIDE DEF ss, rows
    <2>2. QED BY <1>1, <2>1
  <1>4. \A k \in 1..Len(rows) : ss[k] = RowAt(k)
    BY <1>1
  <1> HIDE DEF ss, rows
  <1>5. FlattenSeq(ss) \in Seq(Fields)
        /\ \A x : x \in Range(FlattenSeq(ss)) <=> \E k \in 1..Len(rows) : x \in Range(ss[k])
    BY <1>3, FlattenTyped, FlattenRange
  <1>6. TableItems = FlattenSeq(ss)
    BY DEF TableItems, ss, rows
  <1>7. QED BY <1>2, <1>4, <1>5, <1>6

\* The value that counts is that of a field.
LEMMA LastOne ==
  ASSUME Typed, NEW name, Has(name)
  PROVE  /\ Max(Places(name)) \in 1..Len(fields)
         /\ fields[Max(Places(name))] \in Range(fields) /\ fields[Max(Places(name))].name = name
         /\ LastValue(name) = fields[Max(Places(name))].value
  <1>1. Len(fields) \in Nat /\ DOMAIN fields = 1..Len(fields)
    BY DEF Typed
  <1>2. Places(name) \in SUBSET (1..Len(fields)) /\ Places(name) # {}
    BY <1>1 DEF Has, Places, Range
  <1>3. Max(Places(name)) \in Places(name)
    BY <1>1, <1>2, LastPlace
  <1>4. QED BY <1>1, <1>3 DEF LastValue, Places, Range

LEMMA ExpectedTyped ==
  ASSUME Typed, WellSourced, Has("total_ht"), Has("tva_amount")
  PROVE  Expected \in Nat /\ Expected = LastValue("total_ht") + LastValue("tva_amount")
  <1> DEFINE f == fields[Max(Places("total_ht"))]
             g == fields[Max(Places("tva_amount"))]
  <1>1. f \in Range(fields) /\ f.name = "total_ht" /\ LastValue("total_ht") = f.value
        /\ g \in Range(fields) /\ g.name = "tva_amount" /\ LastValue("tva_amount") = g.value
    BY LastOne
  <1> HIDE DEF f, g
  <1>2. f \in Fields /\ g \in Fields
    BY <1>1 DEF Typed, Range
  <1>3. f.value > 0 /\ g.value >= 0 /\ f.value \in Int /\ g.value \in Int
    BY <1>1, <1>2 DEF WellSourced, Sourced, Fields, Amounts, NoAmount
  <1>4. QED BY <1>1, <1>3 DEF Expected

\* The blocks that show the total, and the field Total adds for the first.
Shows == {i \in DOMAIN blocks : Recovered \in Block(i).tokens}
RecoveredField == Field("total_ttc", NoItem, Recovered, Min(Shows))

LEMMA RecoveredSourced ==
  ASSUME Typed, WellSourced, Has("total_ht"), Has("tva_amount"), Shows # {}
  PROVE  /\ <<RecoveredField>> \in Seq(Fields) /\ Range(<<RecoveredField>>) = {RecoveredField}
         /\ Sourced(RecoveredField) /\ RecoveredField.item = NoItem /\ RecoveredField.value = Expected
         /\ \E i \in 1..Len(blocks) : Expected \in Block(i).tokens
  <1>1. Recovered \in Nat /\ Recovered = Expected
    BY ExpectedTyped DEF Recovered
  <1>2. Len(blocks) \in Nat /\ DOMAIN blocks = 1..Len(blocks)
    BY Blocks
  <1>3. Shows \in SUBSET (1..Len(blocks))
    BY <1>2 DEF Shows
  <1>4. Min(Shows) \in Shows
    BY <1>2, <1>3, FirstPlace
  <1>5. Min(Shows) \in 1..Len(blocks) /\ Recovered \in Block(Min(Shows)).tokens
    BY <1>3, <1>4 DEF Shows
  <1>6. RecoveredField \in Fields /\ Sourced(RecoveredField)
    BY <1>1, <1>2, <1>5 DEF RecoveredField, Field, Fields, Names, Amounts, NoItem, Sourced,
       Placed, Grounded, InTable
  <1>7. QED BY <1>1, <1>5, <1>6 DEF RecoveredField, Field, Range

\* Adding fields that are well sourced, unless an amount is too large.
LEMMA Enlarged ==
  ASSUME Typed, NEW new \in Seq(Fields), \A f \in Range(new) : Sourced(f),
         Quantizable(AmountsOf(new))
  PROVE  /\ fields \o new \in Seq(Fields) /\ Range(fields \o new) = Range(fields) \cup Range(new)
         /\ \A f \in Range(new) : Small(f) /\ Sourced(f)
  <1>1. \A f \in Range(new) : Small(f)
    BY DEF Quantizable, AmountsOf, Small
  <1>2. QED BY <1>1, AddedRange

\* What each action does to the list of fields.
Kept == UNCHANGED fields
Grown(new) == /\ new \in Seq(Fields)
              /\ fields' = fields \o new /\ fields' \in Seq(Fields)
              /\ Range(fields') = Range(fields) \cup Range(new)
              /\ \A f \in Range(new) : Small(f) /\ Sourced(f)
Failed(new) == /\ new \in Seq(Fields) /\ \A f \in Range(new) : Sourced(f)
               /\ ~Quantizable(AmountsOf(new)) /\ phase' = "failed" /\ UNCHANGED <<fields, next>>

\* AddAll, of fields that are well sourced, adds them all or fails.
LEMMA LabelsStep ==
  ASSUME Typed, Labels
  PROVE  /\ phase = "labels" /\ UNCHANGED <<document, checks>>
         /\ \/ next \in 1..Len(blocks) /\ Grown(Labelled(next)) /\ next' = next + 1 /\ phase' = phase
            \/ next \in 1..Len(blocks) /\ Failed(Labelled(next))
            \/ next = Len(blocks) + 1 /\ phase' = "shapes" /\ next' = 1 /\ Kept
  <1>1. Len(blocks) \in Nat /\ next \in 1..(Len(blocks) + 1)
    BY Blocks DEF Typed
  <1>2. CASE next <= Len(blocks)
    <2>1. next \in 1..Len(blocks)
      BY <1>1, <1>2
    <2>2. Labelled(next) \in Seq(Fields) /\ \A f \in Range(Labelled(next)) : Sourced(f)
      BY <2>1, LabelledRange, LabelledSourced
    <2>3. (Quantizable(AmountsOf(Labelled(next))) /\ fields' = fields \o Labelled(next)
            /\ next' = next + 1 /\ UNCHANGED phase) \/ Failed(Labelled(next))
      BY <1>2, <2>2 DEF Labels, AddAll, Failed
    <2>4. Quantizable(AmountsOf(Labelled(next))) /\ fields' = fields \o Labelled(next)
            => Grown(Labelled(next))
      BY <2>2, Enlarged DEF Grown
    <2>5. QED BY <2>1, <2>3, <2>4 DEF Labels
  <1>3. CASE ~(next <= Len(blocks))
    BY <1>1, <1>3 DEF Labels, Kept
  <1>4. QED BY <1>2, <1>3

\* The second loop adds what is missing; a merged buyer takes the place of others.
LEMMA ShapesStep ==
  ASSUME Typed, Shapes
  PROVE  /\ phase = "shapes" /\ UNCHANGED <<document, checks>>
         /\ \/ next = Len(blocks) + 1 /\ phase' = "items" /\ UNCHANGED next /\ Kept
            \/ /\ next \in 1..Len(blocks) /\ next' = next + 1 /\ phase' = phase
               /\ fields' \in Seq(Fields)
               /\ \A f \in Range(fields') :
                    f \in Range(fields) \/ (Small(f) /\ Sourced(f) /\ f.item = NoItem)
               /\ \A f \in Range(fields') : f.name # "buyer_company" =>
                    f \in Range(fields) \/ (f.name \in Marked /\ Missing(f.name))
               /\ \A f \in Range(fields) : f.name # "buyer_company" => f \in Range(fields')
  <1>1. Len(blocks) \in Nat /\ next \in 1..(Len(blocks) + 1)
    BY Blocks DEF Typed
  <1>2. CASE next <= Len(blocks)
    <2> DEFINE known == fields \o Shaped(next)
               buyer == Field("buyer_company", NoItem, MergedCompany(next), next)
    <2>1. next \in 1..Len(blocks)
      BY <1>1, <1>2
    <2>2. Shaped(next) \in Seq(Fields)
          /\ \A f \in Range(Shaped(next)) : Sourced(f) /\ f.name \in Marked /\ Missing(f.name)
                                            /\ f.item = NoItem /\ f.value = NoAmount
      BY <2>1, ShapedSourced
    <2>3. known \in Seq(Fields) /\ Range(known) = Range(fields) \cup Range(Shaped(next))
      BY <2>2, AddedRange
    <2>4. \A f \in Range(Shaped(next)) : Small(f)
      BY <2>2, AmountAssumption DEF Small, NoAmount
    <2>5. next' = next + 1 /\ phase' = phase /\ phase = "shapes" /\ UNCHANGED <<document, checks>>
      BY <1>1, <1>2 DEF Shapes
    <2>6. CASE BetterBuyer(next)
      <3>1. buyer \in Fields /\ Sourced(buyer) /\ buyer.item = NoItem /\ Small(buyer)
            /\ buyer.name = "buyer_company"
        BY <2>1, <2>6, BuyerSourced DEF Field
      <3>2. WithoutBuyers(known) \in Seq(Fields)
            /\ Range(WithoutBuyers(known)) = {f \in Range(known) : f.name # "buyer_company"}
        BY <2>3, BuyersGone
      <3>3. fields' = Append(WithoutBuyers(known), buyer)
        BY <1>1, <1>2, <2>6 DEF Shapes
      <3> HIDE DEF known, buyer
      <3>4. fields' = WithoutBuyers(known) \o <<buyer>> /\ <<buyer>> \in Seq(Fields)
            /\ Range(<<buyer>>) = {buyer}
        BY <3>1, <3>2, <3>3 DEF Range
      <3>5. fields' \in Seq(Fields) /\ Range(fields') = Range(WithoutBuyers(known)) \cup {buyer}
        <4>1. WithoutBuyers(known) \in Seq(Fields) /\ <<buyer>> \in Seq(Fields)
          BY <3>2, <3>4
        <4>2. WithoutBuyers(known) \o <<buyer>> \in Seq(Fields)
              /\ Range(WithoutBuyers(known) \o <<buyer>>)
                  = Range(WithoutBuyers(known)) \cup Range(<<buyer>>)
          BY ONLY <4>1, JoinedRange, Zenon
        <4>3. QED BY <3>4, <4>2, Zenon
      <3>6. QED BY <2>1, <2>2, <2>3, <2>4, <2>5, <3>1, <3>2, <3>5
    <2>7. CASE ~BetterBuyer(next)
      <3>1. fields' = known
        BY <1>1, <1>2, <2>7 DEF Shapes
      <3> HIDE DEF known
      <3>2. QED BY <2>1, <2>2, <2>3, <2>4, <2>5, <3>1
    <2>8. QED BY <2>6, <2>7
  <1>3. CASE ~(next <= Len(blocks))
    BY <1>1, <1>3 DEF Shapes, Kept
  <1>4. QED BY <1>2, <1>3

LEMMA ItemsStep ==
  ASSUME Typed, Items
  PROVE  /\ phase = "items" /\ UNCHANGED <<document, checks, next>>
         /\ \/ phase' = "total" /\ Kept
            \/ phase' = "total" /\ Grown(SequenceItems)
            \/ Failed(SequenceItems)
  <1>1. SequenceItems \in Seq(Fields) /\ \A f \in Range(SequenceItems) : Sourced(f)
    BY ItemsSourced
  <1>2. Quantizable(AmountsOf(SequenceItems)) /\ fields' = fields \o SequenceItems
          => Grown(SequenceItems)
    BY <1>1, Enlarged DEF Grown
  <1>3. \/ phase' = "total" /\ UNCHANGED <<next, fields>>
        \/ AddAll(SequenceItems, phase' = "total" /\ UNCHANGED next)
    BY DEF Items, SequenceItems
  <1>4. QED BY <1>1, <1>2, <1>3 DEF Items, AddAll, Failed, Kept

LEMMA TotalStep ==
  ASSUME Typed, WellSourced, Total
  PROVE  /\ phase = "total" /\ UNCHANGED <<document, checks, next>>
         /\ \/ phase' = "tables" /\ Kept
            \/ /\ ~Has("total_ttc") /\ Has("total_ht") /\ Has("tva_amount") /\ Shows # {}
               /\ \/ phase' = "tables" /\ Grown(<<RecoveredField>>)
                  \/ Failed(<<RecoveredField>>)
  <1> DEFINE known == ~Has("total_ttc") /\ Has("total_ht") /\ Has("tva_amount")
  <1>1. CASE known /\ Shows # {}
    <2>1. <<RecoveredField>> \in Seq(Fields) /\ \A f \in Range(<<RecoveredField>>) : Sourced(f)
      BY <1>1, RecoveredSourced
    <2>2. AddAll(<<RecoveredField>>, phase' = "tables" /\ UNCHANGED next)
      BY <1>1 DEF Total, Shows, RecoveredField
    <2>3. Quantizable(AmountsOf(<<RecoveredField>>)) /\ fields' = fields \o <<RecoveredField>>
            => Grown(<<RecoveredField>>)
      BY <2>1, Enlarged DEF Grown
    <2>4. QED BY <1>1, <2>1, <2>2, <2>3 DEF Total, AddAll, Failed
  <1>2. CASE ~(known /\ Shows # {})
    BY <1>2 DEF Total, Shows, Kept
  <1>3. QED BY <1>1, <1>2

LEMMA TablesStep ==
  ASSUME Typed, Tables
  PROVE  /\ phase = "tables" /\ UNCHANGED <<document, checks, next>>
         /\ \/ phase' = "checks" /\ Grown(TableItems)
            \/ Failed(TableItems)
  <1>1. TableItems \in Seq(Fields) /\ \A f \in Range(TableItems) : Sourced(f)
    BY TablesSourced
  <1>2. Quantizable(AmountsOf(TableItems)) /\ fields' = fields \o TableItems => Grown(TableItems)
    BY <1>1, Enlarged DEF Grown
  <1>3. AddAll(TableItems, phase' = "checks" /\ UNCHANGED next)
    BY DEF Tables, TableItems
  <1>4. QED BY <1>1, <1>2, <1>3 DEF Tables, AddAll, Failed

\* A cell without a value is not converted, so the checks never fail.
LEMMA ChecksStep ==
  ASSUME Typed, Checks
  PROVE  phase = "checks" /\ phase' = "done" /\ UNCHANGED <<document, next, fields>>
         /\ checks'.total = Arithmetic(
              IF Has("total_ht") /\ Has("tva_amount") THEN Expected ELSE NoAmount,
              LastValue("total_ttc"))
  BY DEF Checks, LineTotals, Readable

-----------------------------------------------------------------------------
(* Types                                                                   *)

LEMMA SourcedInit == Init => Typed /\ WellSourced
  <1>1. SUFFICES ASSUME Init PROVE Typed /\ WellSourced
    OBVIOUS
  <1>2. blocks \in Seq(BlockTexts) /\ Len(blocks) \in Nat
    BY <1>1, DocumentsAssumption DEF Init, blocks
  <1>3. fields = <<>> /\ Range(fields) = {}
    BY <1>1 DEF Init, Range
  <1>4. QED BY <1>1, <1>2, <1>3 DEF Init, Typed, WellSourced, Phases

\* Every step keeps the document; each field is an old one or fits.
LEMMA SourcedStep == Typed /\ WellSourced /\ [Next]_vars => Typed' /\ WellSourced'
  <1>1. SUFFICES ASSUME Typed, WellSourced, [Next]_vars PROVE Typed' /\ WellSourced'
    OBVIOUS
  <1>2. ASSUME document' = document, phase' \in Phases, next' \in 1..(Len(blocks) + 1),
               fields' \in Seq(Fields),
               \A f \in Range(fields') : f \in Range(fields) \/ (Small(f) /\ Sourced(f))
        PROVE  Typed' /\ WellSourced'
    <2>1. Typed'
      <3>1. blocks' = blocks
        BY <1>2 DEF blocks
      <3>2. QED BY <1>1, <1>2, <3>1 DEF Typed
    <2>2. \A f \in Range(fields') : Small(f) /\ Sourced(f)
      BY <1>1, <1>2 DEF WellSourced
    <2>3. \A f : Sourced(f)' <=> Sourced(f)
      BY <1>2, SourcedStays
    <2>4. QED BY <2>1, <2>2, <2>3 DEF WellSourced, Small
  <1>3. Len(blocks) \in Nat /\ next \in 1..(Len(blocks) + 1) /\ fields \in Seq(Fields)
        /\ document \in Documents
    BY <1>1, Blocks DEF Typed
  <1>4. CASE Labels
    BY <1>1, <1>2, <1>3, <1>4, LabelsStep DEF Grown, Failed, Kept, Phases
  <1>5. CASE Shapes
    BY <1>1, <1>2, <1>3, <1>5, ShapesStep DEF Kept, Phases
  <1>6. CASE Items
    BY <1>1, <1>2, <1>3, <1>6, ItemsStep DEF Grown, Failed, Kept, Phases
  <1>7. CASE Total
    BY <1>1, <1>2, <1>3, <1>7, TotalStep DEF Grown, Failed, Kept, Phases
  <1>8. CASE Tables
    BY <1>1, <1>2, <1>3, <1>8, TablesStep DEF Grown, Failed, Phases
  <1>9. CASE Checks
    BY <1>1, <1>2, <1>3, <1>9, ChecksStep DEF Phases
  <1>10. CASE UNCHANGED vars
    BY <1>1, <1>2, <1>3, <1>10 DEF vars, Typed
  <1>11. QED BY <1>1, <1>4, <1>5, <1>6, <1>7, <1>8, <1>9, <1>10 DEF Next

LEMMA InvSourced == Spec => [](Typed /\ WellSourced)
  BY SourcedInit, SourcedStep, PTL DEF Spec

\* Every field is of the right type, its amount fits the decimal context and its
\* source is a block of the document or a table cell.
THEOREM TypeCorrect == Spec => []TypeOK
  <1>1. Typed /\ WellSourced => TypeOK
    <2>1. SUFFICES ASSUME Typed, WellSourced PROVE TypeOK
      OBVIOUS
    <2>2. \A f \in Range(fields) : f \in Fields /\ Small(f) /\ Sourced(f)
      BY <2>1 DEF Typed, WellSourced, Range
    <2>3. ASSUME NEW f \in Range(fields) PROVE f.item = NoItem \/ f.name \in Range(ItemParts)
      BY <2>2, PartNames DEF Sourced, Fields
    <2>4. QED BY <2>1, <2>2, <2>3 DEF Typed, TypeOK, Sourced, Small, Fields, Phases
  <1>2. QED BY <1>1, InvSourced, PTL

-----------------------------------------------------------------------------
(* Line items                                                              *)

\* Where the windows of two items overlap, the description of the later one is a
\* quantity or an amount of the earlier one.
Numeral(i) == i \in DOMAIN blocks /\ Block(i).words /\ (Block(i).count \/ IsAmount(Block(i)))

LEMMA LaterNumeral ==
  ASSUME Typed, NEW i \in 1..(Len(blocks) - 3), NEW m \in 1..3, IsItem(i), IsItem(i + m),
         i + m <= Len(blocks)
  PROVE  Numeral(i + m)
  <1>1. m = 1 \/ m = 2 \/ m = 3
    OBVIOUS
  <1>2. Block(i + m).count \/ IsAmount(Block(i + m))
    BY <1>1 DEF IsItem
  <1>3. Len(blocks) \in Nat /\ DOMAIN blocks = 1..Len(blocks) /\ i + m \in 1..Len(blocks)
    BY Blocks
  <1>4. QED BY <1>2, <1>3 DEF IsItem, Numeral

LEMMA WindowsApart ==
  ASSUME Typed, NEW i \in 1..(Len(blocks) - 3), NEW j \in 1..(Len(blocks) - 3),
         NEW p \in 1..4, NEW q \in 1..4,
         IsItem(i), IsItem(j), i + p - 1 = j + q - 1
  PROVE  i = j \/ \E k \in (i + p - 4)..(i + p - 1) : Numeral(k)
  <1>1. Len(blocks) \in Nat
    BY Blocks
  <1>2. CASE i < j
    <2>1. j - i \in 1..3 /\ j = i + (j - i) /\ j <= Len(blocks)
      BY <1>1, <1>2
    <2>2. Numeral(j)
      BY <2>1, LaterNumeral
    <2>3. QED BY <1>1, <2>2
  <1>3. CASE j < i
    <2>1. i - j \in 1..3 /\ i = j + (i - j) /\ i <= Len(blocks)
      BY <1>1, <1>3
    <2>2. Numeral(i)
      BY <2>1, LaterNumeral
    <2>3. QED BY <1>1, <2>2
  <1>4. QED BY <1>1, <1>2, <1>3

\* Two line items share a block only if the description of the later one is a number
\* too: the shared block or one of the three before it.
THEOREM ItemsApart == Spec => []ItemsShareOnlyNumerals
  <1>1. Typed /\ WellSourced => ItemsShareOnlyNumerals
    <2>1. SUFFICES ASSUME Typed, WellSourced, NEW f \in Range(fields), NEW g \in Range(fields),
                          f.item # NoItem, g.item # NoItem, f.at = g.at, f.at # InTable,
                          f.item # g.item
                   PROVE  \E i \in (f.at - 3)..f.at \cap DOMAIN blocks :
                            Block(i).words /\ (Block(i).count \/ IsAmount(Block(i)))
      BY DEF ItemsShareOnlyNumerals
    <2>2. PICK i \in 1..(Len(blocks) - 3), p \in 1..4 :
            IsItem(i) /\ f.at = i + p - 1 /\ f.item = ItemIndex(i)
      BY <2>1 DEF WellSourced, Sourced, Placed
    <2>3. PICK j \in 1..(Len(blocks) - 3), q \in 1..4 :
            IsItem(j) /\ g.at = j + q - 1 /\ g.item = ItemIndex(j)
      BY <2>1 DEF WellSourced, Sourced, Placed
    <2>4. i # j
      BY <2>1, <2>2, <2>3
    <2>5. PICK k \in (i + p - 4)..(i + p - 1) : Numeral(k)
      BY <2>1, <2>2, <2>3, <2>4, WindowsApart
    <2>6. k \in (f.at - 3)..f.at
      BY <2>2, <2>5, Blocks, <2>1
    <2>7. QED BY <2>5, <2>6 DEF Numeral
  <1>2. QED BY <1>1, InvSourced, PTL

-----------------------------------------------------------------------------
(* Failures                                                                *)

\* An amount that does not fit is in a block or in a table.
TooLarge ==
    \/ \E i \in DOMAIN blocks : \E v \in ReadIn(Block(i)) : v > MaxAmount
    \/ \E k \in DOMAIN document.rows : \E v \in Range(document.rows[k]) : v > MaxAmount

\* Fields of blocks hold what the blocks show.
LEMMA TooLargeShown ==
  ASSUME Typed, NEW f \in Fields, Sourced(f), ~Small(f), f.at # InTable \/ FromRow(f)
  PROVE  TooLarge
  <1>1. f.value > MaxAmount /\ f.value # NoAmount /\ f.name \notin Companies
    BY AmountAssumption DEF Small, Fields, Amounts, NoAmount
  <1>2. DOMAIN blocks = 1..Len(blocks) /\ Len(blocks) \in Nat
    BY Blocks
  <1>3. CASE f.at # InTable
    <2>1. f.at \in DOMAIN blocks /\ f.value \in ReadIn(Block(f.at))
      BY <1>1, <1>2, <1>3 DEF Sourced, Grounded, InTable, ReadIn
    <2>2. QED BY <1>1, <2>1 DEF TooLarge
  <1>4. CASE FromRow(f)
    BY <1>1, <1>4 DEF FromRow, TooLarge
  <1>5. QED BY <1>3, <1>4

LEMMA FailedTooLarge ==
  ASSUME Typed, NEW new, Failed(new), \A f \in Range(new) : f.at # InTable \/ FromRow(f)
  PROVE  TooLarge
  <1>1. PICK f \in Range(new) : ~Small(f)
    BY DEF Failed, Quantizable, AmountsOf, Small
  <1>2. f \in Fields /\ Sourced(f)
    BY DEF Failed, Range
  <1>3. QED BY <1>1, <1>2, TooLargeShown

\* Only an amount beyond the decimal context ends the extraction without a result.
THEOREM LostToOversize == Spec => []FailsOnlyOnOversize
  <1>1. FailsOnlyOnOversize <=> (phase = "failed" => TooLarge)
    BY DEF FailsOnlyOnOversize, TooLarge
  <1>2. Init => FailsOnlyOnOversize
    BY DEF Init, FailsOnlyOnOversize
  <1>3. Typed /\ WellSourced /\ FailsOnlyOnOversize /\ [Next]_vars => FailsOnlyOnOversize'
    <2>1. SUFFICES ASSUME Typed, WellSourced, FailsOnlyOnOversize, [Next]_vars, phase' = "failed"
                   PROVE  TooLarge'
      BY DEF FailsOnlyOnOversize, TooLarge
    <2>2. document' = document
      BY <2>1 DEF Next, Labels, Shapes, Items, Total, Tables, Checks, vars
    <2>3. TooLarge' <=> TooLarge
      BY <2>2 DEF TooLarge, blocks, Block
    <2>4. CASE Labels
      <3>1. CASE next \in 1..Len(blocks) /\ Failed(Labelled(next))
        <4>1. \A f \in Range(Labelled(next)) : f.at # InTable
          BY <3>1, <2>1, LabelledSourced DEF InTable
        <4>2. QED BY <2>1, <2>3, <3>1, <4>1, FailedTooLarge
      <3>2. QED BY <2>1, <2>4, <3>1, LabelsStep
    <2>5. CASE Shapes
      BY <2>1, <2>5, ShapesStep
    <2>6. CASE Items
      <3>1. CASE Failed(SequenceItems)
        <4>1. \A f \in Range(SequenceItems) : f.at # InTable
          BY <2>1, ItemsSourced DEF FromBlocks
        <4>2. QED BY <2>1, <2>3, <3>1, <4>1, FailedTooLarge
      <3>2. QED BY <2>1, <2>6, <3>1, ItemsStep
    <2>7. CASE Total
      <3>1. CASE Has("total_ht") /\ Has("tva_amount") /\ Shows # {} /\ Failed(<<RecoveredField>>)
        <4>1. \A f \in Range(<<RecoveredField>>) : f.at # InTable
          BY <2>1, <3>1, RecoveredSourced DEF Sourced
        <4>2. QED BY <2>1, <2>3, <3>1, <4>1, FailedTooLarge
      <3>2. QED BY <2>1, <2>7, <3>1, TotalStep
    <2>8. CASE Tables
      <3>1. CASE Failed(TableItems)
        BY <2>1, <2>3, <3>1, FailedTooLarge, TablesSourced
      <3>2. QED BY <2>1, <2>8, <3>1, TablesStep
    <2>9. CASE Checks
      BY <2>1, <2>9, ChecksStep
    <2>10. CASE UNCHANGED vars
      BY <1>1, <2>1, <2>3, <2>10 DEF vars
    <2>11. QED BY <2>1, <2>4, <2>5, <2>6, <2>7, <2>8, <2>9, <2>10 DEF Next
  <1>4. QED BY <1>2, <1>3, InvSourced, PTL DEF Spec

-----------------------------------------------------------------------------
(* Labels and shapes                                                       *)

\* The first loop finds every label and nothing but labels; after it, whatever
\* carries a label somewhere is no longer missing.
LabelsFound ==
    /\ phase = "labels" =>
         /\ \A f \in Range(fields) : f.name \in Marked => Mark(f.name, f.at) = "labelled"
         /\ \A name \in Marked : \A i \in 1..(next - 1) : Mark(name, i) = "labelled" => Has(name)
    /\ phase \notin {"labels", "failed"} =>
         \A name \in Marked : \A i \in 1..Len(blocks) : Mark(name, i) = "labelled" => Has(name)
    /\ \A f \in Range(fields) : f.name \in Marked /\ Mark(f.name, f.at) = "bare" =>
         \A i \in 1..Len(blocks) : Mark(f.name, i) # "labelled"

LEMMA LabelledMarks ==
  ASSUME Typed, NEW i \in 1..Len(blocks)
  PROVE  /\ \A f \in Range(Labelled(i)) : f.name \in Marked => Mark(f.name, i) = "labelled"
         /\ \A name \in Marked : Mark(name, i) = "labelled" =>
              \E f \in Range(Labelled(i)) : f.name = name
  <1>1. \A f \in Found(i) : f.name \in Marked => Mark(f.name, i) = "labelled"
    BY DEF Found, Wanted, Field, Marked, Mark
  <1>2. ASSUME NEW name \in Marked, Mark(name, i) = "labelled"
        PROVE  \E f \in Found(i) : f.name = name
    <2>1. CASE name = "invoice_number"
      <3>1. Field("invoice_number", NoItem, NoAmount, i) \in Found(i)
        BY <1>2, <2>1 DEF Found, Wanted, Mark
      <3>2. QED BY <2>1, <3>1 DEF Field
    <2>2. CASE name = "invoice_date"
      <3>1. Field("invoice_date", NoItem, NoAmount, i) \in Found(i)
        BY <1>2, <2>2 DEF Found, Wanted, Mark
      <3>2. QED BY <2>2, <3>1 DEF Field
    <2>3. QED BY <2>1, <2>2 DEF Marked
  <1>3. QED BY <1>1, <1>2, LabelledRange

\* No marked field is added or lost.
LEMMA MarksStay ==
  ASSUME Typed, LabelsFound, document' = document,
         \A f \in Range(fields') : f.name \in Marked => f \in Range(fields),
         \A f \in Range(fields) : f.name \in Marked => f \in Range(fields'),
         \/ phase' = phase /\ next' = next
         \/ phase' = "failed"
         \/ phase # "labels" /\ phase # "failed" /\ phase' # "labels"
         \/ phase = "labels" /\ next = Len(blocks) + 1 /\ phase' # "labels"
  PROVE  LabelsFound'
  <1>1. blocks' = blocks /\ Len(blocks) \in Nat /\ next \in 1..(Len(blocks) + 1)
    BY Blocks DEF blocks, Typed
  <1>2. \A name, i : Mark(name, i)' = Mark(name, i)
    BY <1>1 DEF Mark, Block
  <1>3. \A name \in Marked : Has(name) => Has(name)'
    BY DEF Has
  <1>4. phase' = "labels" => phase = "labels" /\ next' = next
    OBVIOUS
  <1>5. phase' \notin {"labels", "failed"} =>
          \A name \in Marked : \A i \in 1..Len(blocks) : Mark(name, i) = "labelled" => Has(name)
    BY <1>1 DEF LabelsFound
  <1>6. \A f \in Range(fields') : f.name \in Marked => f \in Range(fields)
    OBVIOUS
  <1> HIDE DEF Mark, Marked, Has
  <1>7. QED BY <1>1, <1>2, <1>3, <1>4, <1>5, <1>6 DEF LabelsFound

LEMMA LabelsFoundStep ==
  Typed /\ WellSourced /\ LabelsFound /\ [Next]_vars => LabelsFound'
  <1>1. SUFFICES ASSUME Typed, WellSourced, LabelsFound, [Next]_vars PROVE LabelsFound'
    OBVIOUS
  <1>2. Len(blocks) \in Nat /\ next \in 1..(Len(blocks) + 1)
    BY <1>1, Blocks DEF Typed
  <1>3. CASE Labels
    <2>1. phase = "labels" /\ document' = document
      BY <1>1, <1>3, LabelsStep
    <2>2. CASE next \in 1..Len(blocks) /\ Grown(Labelled(next)) /\ next' = next + 1 /\ phase' = phase
      <3>1. blocks' = blocks /\ \A name, i : Mark(name, i)' = Mark(name, i)
        BY <2>1 DEF Mark, Block, blocks
      <3>2. Range(fields') = Range(fields) \cup Range(Labelled(next))
        BY <2>2 DEF Grown
      <3>3. \A f \in Range(Labelled(next)) : f.at = next
              /\ (f.name \in Marked => Mark(f.name, f.at) = "labelled")
        BY <1>1, <2>2, LabelledMarks, LabelledSourced
      <3>4. \A f \in Range(fields') : f.name \in Marked => Mark(f.name, f.at) = "labelled"
        BY <1>1, <2>1, <3>2, <3>3 DEF LabelsFound
      <3>5. \A name \in Marked : \A i \in 1..next : Mark(name, i) = "labelled" => Has(name)'
        <4>1. TAKE name \in Marked
        <4>2. TAKE i \in 1..next
        <4>3. HAVE Mark(name, i) = "labelled"
        <4>4. CASE i = next
          BY <1>1, <2>2, <3>2, <4>3, <4>4, LabelledMarks DEF Has
        <4>5. CASE i # next
          <5>1. i \in 1..(next - 1)
            BY <1>2, <4>5
          <5>2. Has(name)
            BY <1>1, <2>1, <4>3, <5>1 DEF LabelsFound
          <5>3. QED BY <3>2, <5>2 DEF Has
        <4>6. QED BY <4>4, <4>5
      <3>6. next' - 1 = next /\ phase' = "labels"
        BY <1>2, <2>1, <2>2
      <3> HIDE DEF Mark, Marked, Has
      <3>7. QED BY <3>1, <3>4, <3>5, <3>6 DEF LabelsFound
    <2>3. CASE Failed(Labelled(next))
      BY <1>1, <2>1, <2>3, MarksStay DEF Failed
    <2>4. CASE next = Len(blocks) + 1 /\ phase' = "shapes" /\ next' = 1 /\ Kept
      BY <1>1, <2>1, <2>4, MarksStay DEF Kept
    <2>5. QED BY <1>1, <1>3, <2>2, <2>3, <2>4, LabelsStep
  <1>4. CASE Shapes
    <2>1. phase = "shapes" /\ document' = document
      BY <1>1, <1>4, ShapesStep
    <2>2. CASE phase' = "items" /\ Kept
      BY <1>1, <2>1, <2>2, MarksStay DEF Kept
    <2>3. CASE /\ phase' = phase
               /\ \A f \in Range(fields') : f.name # "buyer_company" =>
                    f \in Range(fields) \/ (f.name \in Marked /\ Missing(f.name))
               /\ \A f \in Range(fields) : f.name # "buyer_company" => f \in Range(fields')
      <3>1. blocks' = blocks /\ \A name, i : Mark(name, i)' = Mark(name, i)
        BY <2>1 DEF Mark, Block, blocks
      <3>2. \A name \in Marked : name # "buyer_company"
        BY DEF Marked
      <3>3. \A name \in Marked : Has(name) => Has(name)'
        BY <2>3, <3>2 DEF Has
      <3>4. \A name \in Marked : \A i \in 1..Len(blocks) : Mark(name, i) = "labelled" => Has(name)
        BY <1>1, <2>1 DEF LabelsFound
      <3>5. \A f \in Range(fields') : f.name \in Marked =>
              f \in Range(fields) \/ \A i \in 1..Len(blocks) : Mark(f.name, i) # "labelled"
        BY <2>3, <3>2, <3>4 DEF Missing
      <3> HIDE DEF Mark, Marked, Has
      <3>6. QED BY <1>1, <2>1, <2>3, <3>1, <3>3, <3>4, <3>5 DEF LabelsFound
    <2>4. QED BY <1>1, <1>4, <2>2, <2>3, ShapesStep
  <1>5. ASSUME NEW new, Grown(new), \A f \in Range(new) : f.name \notin Marked
        PROVE  \A f : f.name \in Marked => (f \in Range(fields') <=> f \in Range(fields))
    BY <1>5 DEF Grown
  <1>6. \A name \in ItemNames : name \notin Marked
    BY DEF ItemNames, Marked
  <1>7. CASE Items
    <2>1. \A f \in Range(SequenceItems) : f.name \notin Marked
      BY <1>1, <1>6, ItemsSourced DEF FromBlocks
    <2>2. phase = "items" /\ document' = document
          /\ \/ phase' = "total" /\ (Kept \/ Grown(SequenceItems))
             \/ phase' = "failed" /\ Kept
      BY <1>1, <1>7, ItemsStep DEF Failed, Kept
    <2>3. \A f : f.name \in Marked => (f \in Range(fields') <=> f \in Range(fields))
      BY <1>5, <2>1, <2>2 DEF Kept
    <2>4. QED BY <1>1, <2>2, <2>3, MarksStay
  <1>8. CASE Total
    <2>1. \A f \in Range(<<RecoveredField>>) : f.name \notin Marked
      BY DEF Range, RecoveredField, Field, Marked
    <2>2. phase = "total" /\ document' = document
          /\ \/ phase' = "tables" /\ (Kept \/ Grown(<<RecoveredField>>))
             \/ phase' = "failed" /\ Kept
      BY <1>1, <1>8, TotalStep DEF Failed, Kept
    <2>3. \A f : f.name \in Marked => (f \in Range(fields') <=> f \in Range(fields))
      BY <1>5, <2>1, <2>2 DEF Kept
    <2>4. QED BY <1>1, <2>2, <2>3, MarksStay
  <1>9. CASE Tables
    <2>1. \A f \in Range(TableItems) : f.name \notin Marked
      BY <1>1, <1>6, TablesSourced DEF FromRow
    <2>2. phase = "tables" /\ document' = document
          /\ \/ phase' = "checks" /\ Grown(TableItems)
             \/ phase' = "failed" /\ Kept
      BY <1>1, <1>9, TablesStep DEF Failed, Kept
    <2>3. \A f : f.name \in Marked => (f \in Range(fields') <=> f \in Range(fields))
      BY <1>5, <2>1, <2>2 DEF Kept
    <2>4. QED BY <1>1, <2>2, <2>3, MarksStay
  <1>10. CASE Checks
    BY <1>1, <1>10, ChecksStep, MarksStay
  <1>11. CASE UNCHANGED vars
    BY <1>1, <1>11, MarksStay DEF vars
  <1>12. QED BY <1>1, <1>3, <1>4, <1>7, <1>8, <1>9, <1>10, <1>11 DEF Next

\* A number or a date with a label is never joined by one that merely has the shape.
THEOREM LabelsDecide == Spec => []LabelsWin
  <1>1. Init => LabelsFound
    <2>1. SUFFICES ASSUME Init PROVE LabelsFound
      OBVIOUS
    <2>2. Range(fields) = {} /\ phase = "labels" /\ next = 1
      BY <2>1 DEF Init, Range
    <2>3. QED BY <2>2 DEF LabelsFound
  <1>2. Typed /\ WellSourced /\ LabelsFound => LabelsWin
    <2>1. SUFFICES ASSUME Typed, LabelsFound PROVE LabelsWin
      OBVIOUS
    <2>2. \A b \in Range(blocks) : \E i \in 1..Len(blocks) : b = Block(i)
      BY <2>1, Blocks DEF Range, Block
    <2>3. QED BY <2>1, <2>2 DEF LabelsFound, LabelsWin, Marked, Mark
  <1>3. QED BY <1>1, <1>2, InvSourced, LabelsFoundStep, PTL DEF Spec

-----------------------------------------------------------------------------
(* The recovered total                                                     *)

\* A total that no block labels was recovered: it is the sum that the check uses.
TotalRecovered == NoTotal =>
    /\ phase \in {"labels", "shapes", "items", "total"} => ~Has("total_ttc")
    /\ phase \in {"tables", "checks", "done"} /\ Has("total_ttc") =>
         Has("total_ht") /\ Has("tva_amount") /\ LastValue("total_ttc") = Expected
    /\ phase = "done" /\ Has("total_ttc") => checks.total = "pass"

\* Fields of other names change nothing for a name.
LEMMA OthersAdded ==
  ASSUME Typed, NEW new \in Seq(Fields), fields' = fields \o new,
         NEW name, \A f \in Range(new) : f.name # name
  PROVE  (Has(name)' <=> Has(name)) /\ LastValue(name)' = LastValue(name)
  <1>1. fields \in Seq(Fields) /\ Len(fields) \in Nat /\ Len(new) \in Nat
        /\ fields' \in Seq(Fields) /\ Len(fields') = Len(fields) + Len(new)
    BY DEF Typed
  <1>2. \A k \in 1..Len(fields) : fields'[k] = fields[k]
    BY <1>1
  <1>3. \A k \in 1..Len(new) : new[k].name # name
    BY DEF Range
  <1>4. \A k \in (Len(fields) + 1)..(Len(fields) + Len(new)) : fields'[k].name # name
    <2>1. TAKE k \in (Len(fields) + 1)..(Len(fields) + Len(new))
    <2>2. k - Len(fields) \in 1..Len(new) /\ fields'[k] = new[k - Len(fields)]
      BY <1>1
    <2>3. QED BY <1>3, <2>2
  <1>5. Places(name)' = Places(name)
    BY <1>1, <1>2, <1>4 DEF Places
  <1>6. Range(fields') = Range(fields) \cup Range(new)
    BY AddedRange
  <1>7. Has(name)' <=> Has(name)
    BY <1>6 DEF Has
  <1>8. CASE Has(name)
    <2>1. Max(Places(name)) \in 1..Len(fields)
      BY <1>8, LastOne
    <2>2. QED BY <1>2, <1>5, <1>7, <1>8, <2>1 DEF LastValue
  <1>9. CASE ~Has(name)
    BY <1>7, <1>9 DEF LastValue
  <1>10. QED BY <1>7, <1>8, <1>9

\* The total after it has been recovered.
LEMMA TotalAdded ==
  ASSUME Typed, WellSourced, Has("total_ht"), Has("tva_amount"), ~Has("total_ttc"), Shows # {},
         Grown(<<RecoveredField>>)
  PROVE  Has("total_ht")' /\ Has("tva_amount")' /\ LastValue("total_ttc")' = Expected
         /\ Expected' = Expected
  <1> DEFINE new == <<RecoveredField>>
  <1>1. RecoveredField.name = "total_ttc" /\ RecoveredField.value = Expected
        /\ new \in Seq(Fields) /\ Range(new) = {RecoveredField}
    BY RecoveredSourced DEF RecoveredField, Field
  <1>2. /\ (Has("total_ht")' <=> Has("total_ht")) /\ LastValue("total_ht")' = LastValue("total_ht")
        /\ (Has("tva_amount")' <=> Has("tva_amount"))
        /\ LastValue("tva_amount")' = LastValue("tva_amount")
    <2>1. \A f \in Range(new) : f.name # "total_ht" /\ f.name # "tva_amount"
      BY <1>1
    <2>2. fields' = fields \o new
      BY DEF Grown
    <2> HIDE DEF new
    <2>3. QED BY <1>1, <2>1, <2>2, OthersAdded
  <1>3. fields \in Seq(Fields) /\ Len(fields) \in Nat /\ fields' = fields \o new
    BY DEF Typed, Grown
  <1>4. DOMAIN fields' = 1..(Len(fields) + 1) /\ fields'[Len(fields) + 1] = RecoveredField
        /\ \A k \in 1..Len(fields) : fields'[k] = fields[k]
    BY <1>1, <1>3
  <1>5. \A k \in 1..Len(fields) : fields[k].name # "total_ttc"
    BY <1>3 DEF Has, Range
  <1>6. Places("total_ttc")' = {Len(fields) + 1}
    BY <1>1, <1>3, <1>4, <1>5 DEF Places
  <1>7. Max({Len(fields) + 1}) = Len(fields) + 1
    BY <1>3 DEF Max
  <1>8. Has("total_ttc")'
    <2>1. RecoveredField \in Range(fields')
      BY <1>1 DEF Grown
    <2>2. QED BY <1>1, <2>1 DEF Has
  <1>9. LastValue("total_ttc")' = Expected
    BY <1>1, <1>4, <1>6, <1>7, <1>8 DEF LastValue
  <1>10. Expected' = Expected
    BY <1>2 DEF Expected
  <1>11. QED BY <1>2, <1>9, <1>10

\* No loop finds a total that no block labels.
LEMMA NoTotalLabelled ==
  ASSUME Typed, NoTotal, NEW i \in 1..Len(blocks)
  PROVE  \A f \in Range(Labelled(i)) : f.name # "total_ttc"
  <1>1. Block(i) \in BlockTexts /\ Block(i) \in Range(blocks)
    BY Blocks DEF Block, Range
  <1>2. ~(Block(i).ttc > 0)
    <2>1. Block(i).ttc \in Int /\ Block(i).ttc <= 0
      BY <1>1, BlockParts DEF NoTotal, Amounts, NoAmount
    <2>2. QED BY <2>1
  <1>3. \A f \in Found(i) : f.name # "total_ttc"
    BY <1>2 DEF Found, Wanted, Field
  <1>4. QED BY <1>3, LabelledRange

LEMMA TotalRecoveredStep ==
  Typed /\ WellSourced /\ TotalRecovered /\ [Next]_vars => TotalRecovered'
  <1>1. SUFFICES ASSUME Typed, WellSourced, TotalRecovered, [Next]_vars, NoTotal'
                 PROVE  TotalRecovered'
    BY DEF TotalRecovered
  <1>2. document' = document /\ NoTotal
    <2>1. document' = document
      BY <1>1 DEF Next, Labels, Shapes, Items, Total, Tables, Checks, vars
    <2>2. QED BY <1>1, <2>1 DEF NoTotal, blocks
  <1>3. ASSUME phase' = "failed" PROVE TotalRecovered'
    BY <1>3 DEF TotalRecovered
  <1>4. ASSUME phase' \in {"labels", "shapes", "items", "total"}, ~Has("total_ttc")'
        PROVE  TotalRecovered'
    BY <1>4 DEF TotalRecovered
  <1>5. ASSUME ~Has("total_ttc"), Kept PROVE ~Has("total_ttc")'
    BY <1>5 DEF Has, Kept
  <1>6. CASE Labels
    <2>1. ~Has("total_ttc") /\ phase = "labels"
      BY <1>1, <1>2, <1>6, LabelsStep DEF TotalRecovered
    <2>2. CASE next \in 1..Len(blocks) /\ Grown(Labelled(next)) /\ phase' = phase
      <3>1. ~Has("total_ttc")'
        BY <1>1, <1>2, <2>1, <2>2, NoTotalLabelled DEF Grown, Has
      <3>2. QED BY <1>4, <2>1, <2>2, <3>1
    <2>3. CASE Failed(Labelled(next))
      BY <1>3, <2>3 DEF Failed
    <2>4. CASE phase' = "shapes" /\ Kept
      BY <1>4, <1>5, <2>1, <2>4
    <2>5. QED BY <1>1, <1>6, <2>2, <2>3, <2>4, LabelsStep
  <1>7. CASE Shapes
    <2>1. ~Has("total_ttc") /\ phase = "shapes"
      BY <1>1, <1>2, <1>7, ShapesStep DEF TotalRecovered
    <2>2. CASE phase' = "items" /\ Kept
      BY <1>4, <1>5, <2>1, <2>2
    <2>3. CASE /\ phase' = phase
               /\ \A f \in Range(fields') : f.name # "buyer_company" =>
                    f \in Range(fields) \/ (f.name \in Marked /\ Missing(f.name))
      <3>1. ~Has("total_ttc")'
        BY <2>1, <2>3 DEF Has, Marked
      <3>2. QED BY <1>4, <2>1, <2>3, <3>1
    <2>4. QED BY <1>1, <1>7, <2>2, <2>3, ShapesStep
  <1>8. CASE Items
    <2>1. ~Has("total_ttc") /\ phase = "items"
      BY <1>1, <1>2, <1>8, ItemsStep DEF TotalRecovered
    <2>2. CASE Grown(SequenceItems) /\ phase' = "total"
      <3>1. \A f \in Range(SequenceItems) : f.name # "total_ttc"
        BY <1>1, ItemsSourced DEF FromBlocks, ItemNames
      <3>2. ~Has("total_ttc")'
        BY <2>1, <2>2, <3>1 DEF Grown, Has
      <3>3. QED BY <1>4, <2>2, <3>2
    <2>3. QED BY <1>1, <1>3, <1>4, <1>5, <1>8, <2>1, <2>2, ItemsStep DEF Failed
  <1>9. CASE Total
    <2>1. ~Has("total_ttc") /\ phase = "total"
      BY <1>1, <1>2, <1>9, TotalStep DEF TotalRecovered
    <2>2. CASE phase' = "tables" /\ Kept
      BY <1>5, <2>1, <2>2 DEF TotalRecovered
    <2>3. CASE /\ Has("total_ht") /\ Has("tva_amount") /\ Shows # {}
               /\ phase' = "tables" /\ Grown(<<RecoveredField>>)
      BY <1>1, <2>1, <2>3, TotalAdded DEF TotalRecovered
    <2>4. QED BY <1>1, <1>3, <1>9, <2>2, <2>3, TotalStep DEF Failed
  <1>10. CASE Tables
    <2>1. CASE phase' = "checks" /\ Grown(TableItems)
      <3>1. \A f \in Range(TableItems) : f.name \notin Names
        BY <1>1, TablesSourced DEF FromRow, ItemNames, Names
      <3>2. /\ "total_ht" \in Names /\ "tva_amount" \in Names /\ "total_ttc" \in Names
        BY DEF Names
      <3>3. \A name \in Names : (Has(name)' <=> Has(name)) /\ LastValue(name)' = LastValue(name)
        BY <1>1, <2>1, <3>1, OthersAdded DEF Grown
      <3>4. Expected' = Expected
        BY <3>2, <3>3 DEF Expected
      <3>5. phase = "tables"
        BY <1>1, <1>10, TablesStep
      <3>6. QED BY <1>1, <1>2, <2>1, <3>2, <3>3, <3>4, <3>5 DEF TotalRecovered
    <2>2. QED BY <1>1, <1>3, <1>10, <2>1, TablesStep DEF Failed
  <1>11. CASE Checks
    <2>1. /\ phase = "checks" /\ phase' = "done" /\ fields' = fields
          /\ checks'.total = Arithmetic(
               IF Has("total_ht") /\ Has("tva_amount") THEN Expected ELSE NoAmount,
               LastValue("total_ttc"))
      BY <1>1, <1>11, ChecksStep
    <2>2. /\ \A name : Has(name)' <=> Has(name)
          /\ \A name : LastValue(name)' = LastValue(name)
          /\ Expected' = Expected
      BY <2>1 DEF Has, LastValue, Places, Expected
    <2>3. ASSUME Has("total_ttc")
          PROVE  Has("total_ht") /\ Has("tva_amount") /\ LastValue("total_ttc") = Expected
                 /\ checks'.total = "pass"
      <3>1. Has("total_ht") /\ Has("tva_amount") /\ LastValue("total_ttc") = Expected
        BY <1>1, <1>2, <2>1, <2>3 DEF TotalRecovered
      <3>2. checks'.total = Arithmetic(Expected, Expected) /\ Expected \in Nat
        BY <1>1, <2>1, <3>1, ExpectedTyped
      <3>3. QED BY <3>1, <3>2 DEF Arithmetic, NoAmount
    <2>4. QED BY <2>1, <2>2, <2>3 DEF TotalRecovered
  <1>12. CASE UNCHANGED vars
    <2>1. fields' = fields /\ phase' = phase /\ checks' = checks
      BY <1>12 DEF vars
    <2>2. /\ \A name : Has(name)' <=> Has(name)
          /\ \A name : LastValue(name)' = LastValue(name)
          /\ Expected' = Expected
      BY <2>1 DEF Has, LastValue, Places, Expected
    <2>3. QED BY <1>1, <1>2, <2>1, <2>2 DEF TotalRecovered
  <1>13. QED BY <1>1, <1>6, <1>7, <1>8, <1>9, <1>10, <1>11, <1>12 DEF Next

\* A total that was found by arithmetic passes the arithmetic check.
THEOREM RecoveredPasses == Spec => []RecoveredTotalAgrees
  <1>1. Init => TotalRecovered
    <2>1. SUFFICES ASSUME Init PROVE TotalRecovered
      OBVIOUS
    <2>2. Range(fields) = {} /\ phase = "labels"
      BY <2>1 DEF Init, Range
    <2>3. QED BY <2>2 DEF TotalRecovered, Has
  <1>2. TotalRecovered => RecoveredTotalAgrees
    BY DEF TotalRecovered, NoTotal, RecoveredTotalAgrees
  <1>3. QED BY <1>1, <1>2, InvSourced, TotalRecoveredStep, PTL DEF Spec
-----------------------------------------------------------------------------
(* What an amount is                                                       *)

\* Once the labels are read, a total is missing only if no block labels one; a total
\* is read off its label as long as there is one.
TotalsFound ==
    /\ phase = "labels" => \A i \in 1..(next - 1) : Block(i).ttc > 0 => Has("total_ttc")
    /\ phase \notin {"labels", "failed"} =>
         \A i \in 1..Len(blocks) : Block(i).ttc > 0 => Has("total_ttc")
    /\ \A f \in Range(fields) : f.name = "total_ttc" =>
         NoTotal \/ f.value = Block(f.at).ttc

\* The first loop adds a total exactly for a block that labels one.
LEMMA LabelledTotal ==
  ASSUME Typed, NEW i \in 1..Len(blocks)
  PROVE  /\ \A f \in Range(Labelled(i)) : f.name = "total_ttc" => f.value = Block(f.at).ttc
         /\ Block(i).ttc > 0 => \E f \in Range(Labelled(i)) : f.name = "total_ttc"
  <1>1. \A f \in Found(i) : f.name = "total_ttc" => f.value = Block(f.at).ttc
    BY DEF Found, Wanted, Field
  <1>2. ASSUME Block(i).ttc > 0 PROVE \E f \in Found(i) : f.name = "total_ttc"
    <2>1. Field("total_ttc", NoItem, Block(i).ttc, i) \in Found(i)
      BY <1>2 DEF Found, Wanted
    <2>2. QED BY <2>1 DEF Field
  <1>3. QED BY <1>1, <1>2, LabelledRange

\* No total is added or lost.
LEMMA TotalsStay ==
  ASSUME Typed, TotalsFound, document' = document,
         \A f \in Range(fields') : f.name = "total_ttc" => f \in Range(fields),
         \A f \in Range(fields) : f.name = "total_ttc" => f \in Range(fields'),
         \/ phase' = phase /\ next' = next
         \/ phase' = "failed"
         \/ phase # "labels" /\ phase # "failed" /\ phase' # "labels"
         \/ phase = "labels" /\ next = Len(blocks) + 1 /\ phase' # "labels"
  PROVE  TotalsFound'
  <1>1. blocks' = blocks /\ Len(blocks) \in Nat /\ next \in 1..(Len(blocks) + 1)
    BY Blocks DEF blocks, Typed
  <1>2. (NoTotal' <=> NoTotal) /\ \A i : Block(i)' = Block(i)
    BY <1>1 DEF NoTotal, Block
  <1>3. Has("total_ttc") => Has("total_ttc")'
    BY DEF Has
  <1>4. phase' = "labels" => phase = "labels" /\ next' = next
    OBVIOUS
  <1>5. phase' \notin {"labels", "failed"} =>
          \A i \in 1..Len(blocks) : Block(i).ttc > 0 => Has("total_ttc")
    BY <1>1 DEF TotalsFound
  <1> HIDE DEF Block, NoTotal, Has
  <1>6. QED BY <1>1, <1>2, <1>3, <1>4, <1>5 DEF TotalsFound

LEMMA TotalsFoundStep ==
  Typed /\ WellSourced /\ TotalsFound /\ [Next]_vars => TotalsFound'
  <1>1. SUFFICES ASSUME Typed, WellSourced, TotalsFound, [Next]_vars PROVE TotalsFound'
    OBVIOUS
  <1>2. Len(blocks) \in Nat /\ next \in 1..(Len(blocks) + 1)
    BY <1>1, Blocks DEF Typed
  <1>3. ASSUME document' = document
        PROVE  blocks' = blocks /\ (NoTotal' <=> NoTotal) /\ \A i : Block(i)' = Block(i)
    BY <1>3 DEF NoTotal, Block, blocks
  <1>4. CASE Labels
    <2>1. phase = "labels" /\ document' = document
      BY <1>1, <1>4, LabelsStep
    <2>2. CASE next \in 1..Len(blocks) /\ Grown(Labelled(next)) /\ next' = next + 1 /\ phase' = phase
      <3>1. Range(fields') = Range(fields) \cup Range(Labelled(next))
        BY <2>2 DEF Grown
      <3>2. \A f \in Range(fields') : f.name = "total_ttc" => NoTotal \/ f.value = Block(f.at).ttc
        BY <1>1, <2>2, <3>1, LabelledTotal DEF TotalsFound
      <3>3. \A i \in 1..next : Block(i).ttc > 0 => Has("total_ttc")'
        <4>1. TAKE i \in 1..next
        <4>2. HAVE Block(i).ttc > 0
        <4>3. CASE i = next
          BY <1>1, <2>2, <3>1, <4>2, <4>3, LabelledTotal DEF Has
        <4>4. CASE i # next
          <5>1. i \in 1..(next - 1)
            BY <1>2, <4>4
          <5>2. Has("total_ttc")
            BY <1>1, <2>1, <4>2, <5>1 DEF TotalsFound
          <5>3. QED BY <3>1, <5>2 DEF Has
        <4>5. QED BY <4>3, <4>4
      <3>4. next' - 1 = next /\ phase' = "labels"
        BY <1>2, <2>1, <2>2
      <3> HIDE DEF Block, NoTotal, Has
      <3>5. QED BY <1>3, <2>1, <3>2, <3>3, <3>4 DEF TotalsFound
    <2>3. CASE Failed(Labelled(next))
      BY <1>1, <2>1, <2>3, TotalsStay DEF Failed
    <2>4. CASE next = Len(blocks) + 1 /\ phase' = "shapes" /\ next' = 1 /\ Kept
      BY <1>1, <2>1, <2>4, TotalsStay DEF Kept
    <2>5. QED BY <1>1, <1>4, <2>2, <2>3, <2>4, LabelsStep
  <1>5. CASE Shapes
    <2>1. \A f : f.name = "total_ttc" => f.name # "buyer_company" /\ f.name \notin Marked
      BY DEF Marked
    <2>2. phase = "shapes" /\ document' = document /\ phase' \in {"shapes", "items"}
      BY <1>1, <1>5, ShapesStep
    <2>3. \A f : f.name = "total_ttc" => (f \in Range(fields') <=> f \in Range(fields))
      BY <1>1, <1>5, <2>1, ShapesStep DEF Kept
    <2>4. QED BY <1>1, <2>2, <2>3, TotalsStay
  <1>6. \A name \in ItemNames : name # "total_ttc"
    BY DEF ItemNames
  <1>7. CASE Items
    <2>1. \A f \in Range(SequenceItems) : f.name # "total_ttc"
      BY <1>1, <1>6, ItemsSourced DEF FromBlocks
    <2>2. phase = "items" /\ document' = document
          /\ \/ phase' = "total" /\ (Kept \/ Grown(SequenceItems))
             \/ phase' = "failed" /\ Kept
      BY <1>1, <1>7, ItemsStep DEF Failed, Kept
    <2>3. \A f : f.name = "total_ttc" => (f \in Range(fields') <=> f \in Range(fields))
      BY <2>1, <2>2 DEF Kept, Grown
    <2>4. QED BY <1>1, <2>2, <2>3, TotalsStay
  <1>8. CASE Total
    <2>1. phase = "total" /\ document' = document
      BY <1>1, <1>8, TotalStep
    <2>2. CASE Kept /\ phase' \in {"tables", "failed"}
      BY <1>1, <2>1, <2>2, TotalsStay DEF Kept
    <2>3. CASE ~Has("total_ttc") /\ phase' = "tables" /\ Grown(<<RecoveredField>>)
      <3>1. NoTotal
        <4>1. \A i \in 1..Len(blocks) : Block(i).ttc \in Int /\ ~(Block(i).ttc > 0)
          BY <1>1, <2>1, <2>3, Blocks, BlockParts DEF TotalsFound, Amounts, NoAmount
        <4>2. \A b \in Range(blocks) : \E i \in 1..Len(blocks) : b = Block(i)
          BY <1>1, Blocks DEF Range, Block
        <4>3. QED BY <4>1, <4>2 DEF NoTotal
      <3>2. \A i \in 1..Len(blocks) : ~(Block(i).ttc > 0)
        BY <1>1, <2>1, <2>3 DEF TotalsFound
      <3> HIDE DEF Block, NoTotal, Has
      <3>3. QED BY <1>3, <2>1, <2>3, <3>1, <3>2 DEF TotalsFound
    <2>4. QED BY <1>1, <1>8, <2>2, <2>3, TotalStep DEF Failed, Kept
  <1>9. CASE Tables
    <2>1. \A f \in Range(TableItems) : f.name # "total_ttc"
      BY <1>1, <1>6, TablesSourced DEF FromRow
    <2>2. phase = "tables" /\ document' = document
          /\ \/ phase' = "checks" /\ Grown(TableItems)
             \/ phase' = "failed" /\ Kept
      BY <1>1, <1>9, TablesStep DEF Failed, Kept
    <2>3. \A f : f.name = "total_ttc" => (f \in Range(fields') <=> f \in Range(fields))
      BY <2>1, <2>2 DEF Kept, Grown
    <2>4. QED BY <1>1, <2>2, <2>3, TotalsStay
  <1>10. CASE Checks
    BY <1>1, <1>10, ChecksStep, TotalsStay
  <1>11. CASE UNCHANGED vars
    BY <1>1, <1>11, TotalsStay DEF vars
  <1>12. QED BY <1>1, <1>4, <1>5, <1>7, <1>8, <1>9, <1>10, <1>11 DEF Next

\* Every amount is what its source block reads as for the field; a total is never
\* arithmetic where some block labels one.
THEOREM AmountsAreRead == Spec => []AmountsAsRead
  <1>1. Init => TotalsFound
    <2>1. SUFFICES ASSUME Init PROVE TotalsFound
      OBVIOUS
    <2>2. Range(fields) = {} /\ phase = "labels" /\ next = 1
      BY <2>1 DEF Init, Range
    <2>3. QED BY <2>2 DEF TotalsFound
  <1>2. Typed /\ WellSourced /\ TotalsFound => AmountsAsRead
    <2>1. SUFFICES ASSUME Typed, WellSourced, TotalsFound, NEW f \in Range(fields),
                          f.at # InTable, f.value # NoAmount, f.name \notin Companies
                   PROVE  f.value \in Readings(f)
      BY DEF AmountsAsRead
    <2>2. Grounded(f) /\ f.at \in 1..Len(blocks)
      BY <2>1, Blocks DEF WellSourced, Sourced, InTable
    <2>3. CASE f.name = "total_ttc"
      <3>1. NoTotal => f.value \in Block(f.at).tokens
        <4>1. Block(f.at) \in Range(blocks) /\ Block(f.at).ttc \in Int
          BY <2>1, <2>2, Blocks, BlockParts DEF Range, Block, Amounts, NoAmount
        <4>2. NoTotal => ~(Block(f.at).ttc > 0)
          BY <4>1 DEF NoTotal
        <4>3. QED BY <2>1, <2>2, <2>3, <4>2 DEF Grounded
      <3>2. ~NoTotal => f.value = Block(f.at).ttc
        BY <2>1, <2>3 DEF TotalsFound
      <3>3. QED BY <2>3, <3>1, <3>2 DEF Readings
    <2>4. CASE f.name # "total_ttc"
      BY <2>1, <2>2, <2>4 DEF Grounded, Readings
    <2>5. QED BY <2>3, <2>4
  <1>3. QED BY <1>1, <1>2, InvSourced, TotalsFoundStep, PTL DEF Spec
=============================================================================
