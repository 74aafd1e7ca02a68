---------------------------- MODULE MCCreateFlow ----------------------------
(* Small instances of CreateFlow; and samples of the fields a draft may have, *)
(* for what ListingFields says of them.                                       *)
EXTENDS CreateFlow, ListingFields

CONSTANTS flat, cottage, s1, s2

Sample(length) == [length |-> length, rude |-> FALSE]

Tag(length, parts) == [length |-> length, rude |-> FALSE, name |-> length, parts |-> parts]

Plain(length) == Tag(length, <<"all">>)

Base ==
  [title |-> Sample(5), description |-> Sample(5), address |-> Sample(5), city |-> Sample(5),
   country |-> Sample(5), price |-> {100000}, areaSqm |-> {50500}, bedrooms |-> {2000},
   bathrooms |-> {1000}, propertyType |-> "house", features |-> <<Plain(4)>>]

SampleTexts == [length : {0, 1, 80, 81, 160, 161, 200, 201, 4001}, rude : BOOLEAN]

SampleNumbers == {{}} \cup {{x} : x \in {-1000, 0, 4, 5, 500, 1000, 20000, 21000}}

SampleTags ==
  {[i \in 1..n |-> Plain(i)] : n \in {0, 1, 10, 11}}
    \cup {<<Plain(length)>> : length \in {0, 80, 81}}
    \cup {<<[Plain(9) EXCEPT !.rude = TRUE]>>}

SampleDrafts ==
  UNION {{[Base EXCEPT ![field] = t] : t \in SampleTexts} :
           field \in {"title", "description", "address", "city", "country"}}
  \cup {[Base EXCEPT !.price = p, !.areaSqm = a, !.bedrooms = b] :
           p \in SampleNumbers, a \in SampleNumbers, b \in SampleNumbers}
  \cup {[Base EXCEPT !.features = tags] : tags \in SampleTags}

Accepted(d) == CreatePropertyDto(toCreatePropertyRequest(d))

Edited(d) == toDraftValues(Stored(toCreatePropertyRequest(d)))

\* What the theorems ClientMirrorsApi and EditableAgain say of the samples.
ASSUME MirrorSamples ==
  \A d \in SampleDrafts : validateDraft(d) /\ TagsFit(d.features) => Accepted(d)

ASSUME EditSamples ==
  \A d \in SampleDrafts :
    validateDraft(d) /\ TagsFit(d.features) /\ (\A x \in d.price \cup d.areaSqm : x >= 5) =>
      /\ validateDraft(Edited(d)) /\ Accepted(Edited(d))
      /\ Edited(Edited(d)) = Edited(d)

\* The provisos of the theorems: a highlight that the model made too long, which
\* no tag of the user is; half a cent; a tag with commas, of which the row keeps
\* eleven.
ASSUME LongHighlight ==
  LET d == [Base EXCEPT !.features = <<Plain(81)>>] IN validateDraft(d) /\ ~Accepted(d)

ASSUME FractionOfACent ==
  LET d == [Base EXCEPT !.price = {4}] IN Accepted(d) /\ ~validateDraft(Edited(d))

ASSUME ElevenTags ==
  LET d == [Base EXCEPT !.features = <<Tag(21, [i \in 1..11 |-> Plain(1)])>>]
  IN  validateDraft(d) /\ Accepted(d) /\ ~validateDraft(Edited(d))

ASSUME Overflow ==
  LET d == [Base EXCEPT !.price = {10 * PriceLimit}]
  IN  Accepted(d) /\ ~Inserts(toCreatePropertyRequest(d))
=============================================================================
