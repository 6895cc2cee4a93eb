--------------------------- MODULE MCPagePipeline ---------------------------
(***************************************************************************)
(* A small instance of PagePipeline.                                       *)
(***************************************************************************)
EXTENDS PagePipeline

Text(letters, number) == [letters |-> letters, number |-> number,
                          digits |-> "european", flaw |-> "none"]
Arabic == {"arabic"}
Latin == {"latin"}
N1190 == [whole |-> 1190, cents |-> NoCents]
N1190_00 == [whole |-> 1190, cents |-> 0]
N1199 == [whole |-> 1199, cents |-> NoCents]
Blank == [letters |-> {}, number |-> NoNumber, digits |-> "european", flaw |-> "blank"]
Digits == [letters |-> {}, number |-> N1190, digits |-> "arabic", flaw |-> "none"]

Reading(text, confidence) == [text |-> text, confidence |-> confidence]

\* A sure Arabic line, one of digits only, an unsure Latin line, nothing.
SomeArabic == {Reading(Text(Arabic, NoNumber), 95), Reading(Digits, 70),
               Reading(Text(Latin, NoNumber), 60), Reading(Blank, 0)}
\* The same number written otherwise, a Latin line that narrowly beats the
\* digits, nothing.
SomeLatin == {Reading(Text(Latin, N1190_00), 90), Reading(Text(Latin, NoNumber), 72),
              Reading(Blank, 0)}
SomeOutputs == {Reading(Text(Latin, N1190_00), 86), Reading(Text(Latin, N1199), 95),
                Reading(Blank, 80)}

\* Two overlapping lines, the second a little lower; one that hangs over the
\* left and lower edges; one outside the page.
R1 == [left |-> 10, right |-> 18, top |-> 2, bottom |-> 8]
R2 == [left |-> 1, right |-> 9, top |-> 5, bottom |-> 10]
R3 == [left |-> -4, right |-> 6, top |-> 14, bottom |-> 24]
R4 == [left |-> 22, right |-> 30, top |-> 8, bottom |-> 8]
SomeLayouts == {<<>>, <<R3, R2, R1>>, <<R2, R4>>}

Layer(visible, coverage, replacement) ==
    [length |-> visible, visible |-> visible, replacement |-> replacement,
     controls |-> 0, privateUse |-> 0, alphanumeric |-> visible, dominant |-> 1,
     lines |-> 1, distinctLines |-> 1, coverage |-> coverage]
PageOf(native, oversize) == [native |-> native, oversize |-> oversize]
Good == PageOf(Layer(32, 60, 0), FALSE)
Scan == PageOf(Layer(0, 100, 0), FALSE)
Overlay == PageOf(Layer(31, 16, 0), FALSE)
Garbled == PageOf(Layer(99, 0, 1), FALSE)
Huge == PageOf(Layer(0, 0, 0), TRUE)
SomeSources ==
    {[kind |-> "pdf", pages |-> ps] : ps \in
       {<<Good, Overlay>>, <<Scan, Garbled>>, <<Good, Huge>>, <<Good, Good, Good>>}}
    \cup {[kind |-> "image", pages |-> <<Scan>>]}
=============================================================================
