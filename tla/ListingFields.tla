--------------------------- MODULE ListingFields ---------------------------
(***************************************************************************)
(* What becomes of the fields of a listing on their way from a form of     *)
(* apps/web through the API into a row, and back into the form that edits  *)
(* it: the checks the client makes, the request, the checks of the API,    *)
(* the columns.                                                            *)
(*                                                                         *)
(* A text is what is left of it when both sides have trimmed it: its       *)
(* length, and whether containsProfanity, which both have, finds anything. *)
(* A number typed is what Number() makes of it: a set of at most one       *)
(* number of thousandths.  A tag also has a name in lower case and the     *)
(* parts its commas separate.                                              *)
(***************************************************************************)
EXTENDS Integers, Sequences

LOCAL INSTANCE SequencesExt

CONSTANTS
  PriceLimit, AreaLimit  \* what the columns overflow at, in hundredths: 10^12, 10^8

ASSUME LimitsAssumption == PriceLimit \in Nat /\ AreaLimit \in Nat

Texts == [length : Nat, rude : BOOLEAN]

PropertyTypes == {"apartment", "house", "studio", "townhouse"}

MAX_TITLE_LENGTH == 160
MAX_DESCRIPTION_LENGTH == 4000
MAX_FEATURES == 10
MAX_FEATURE_LENGTH == 80
MAX_ROOMS == 20
MAX_CITY_LENGTH == 80
MAX_COUNTRY_LENGTH == 80
MAX_ADDRESS_LENGTH == 200
MAX_LOCATION_LENGTH == 120
MAX_OPTIONAL_LENGTH == 1000

DefaultCountry == [length |-> 7, rude |-> FALSE]  \* "Estonia"

Thousandths(n) == 1000 * n

-----------------------------------------------------------------------------
(* The client. *)

\* The three tests of a text that must be there.
Within(t, max) == t.length # 0 /\ ~(t.length > max)

Clean(t) == ~t.rude

isPositiveNumber(typed) == \E x \in typed : x > 0

\* The digits allowed make a whole number.
isValidInteger(typed, max) ==
  \E x \in typed : x % 1000 = 0 /\ x >= 0 /\ x <= Thousandths(max)

validateDraft(d) ==
  /\ Within(d.title, MAX_TITLE_LENGTH) /\ Clean(d.title)
  /\ Within(d.description, MAX_DESCRIPTION_LENGTH) /\ Clean(d.description)
  /\ isPositiveNumber(d.price)
  /\ isValidInteger(d.bedrooms, MAX_ROOMS)
  /\ isValidInteger(d.bathrooms, MAX_ROOMS)
  /\ isPositiveNumber(d.areaSqm)
  /\ d.propertyType # ""
  /\ Within(d.address, MAX_ADDRESS_LENGTH) /\ Clean(d.address)
  /\ Within(d.city, MAX_CITY_LENGTH)
  /\ Within(d.country, MAX_COUNTRY_LENGTH)
  /\ ~(Len(d.features) > MAX_FEATURES)
  /\ \A i \in DOMAIN d.features : Clean(d.features[i])

validateNewFeature(t, existing) ==
  /\ t.length # 0
  /\ ~(t.length > MAX_FEATURE_LENGTH)
  /\ ~(Len(existing) >= MAX_FEATURES)
  /\ \A i \in DOMAIN existing : existing[i].name # t.name
  /\ Clean(t)

\* What validateNewFeature and not validateDraft asks of the tags.
TagsFit(tags) == \A i \in DOMAIN tags : Within(tags[i], MAX_FEATURE_LENGTH)

\* Number(): 0 for what is empty.  NaN, which JSON writes as null, and Infinity
\* do not pass the checks before.
Number(typed) == IF typed = {} THEN 0 ELSE CHOOSE x \in typed : TRUE

toCreatePropertyRequest(d) ==
  [d EXCEPT !.price = Number(@), !.bedrooms = Number(@), !.bathrooms = Number(@),
            !.areaSqm = Number(@),
            !.country = IF @.length = 0 THEN DefaultCountry ELSE @]

\* The generator's form.  optionalFeatures is measured before it is trimmed.
validate(v) ==
  /\ Within(v.location, MAX_LOCATION_LENGTH) /\ Clean(v.location)
  /\ isPositiveNumber(v.price)
  /\ isValidInteger(v.bedrooms, MAX_ROOMS)
  /\ isValidInteger(v.bathrooms, MAX_ROOMS)
  /\ isPositiveNumber(v.areaSqm)
  /\ v.propertyType # ""
  /\ ~(v.blanks + v.optionalFeatures.length > MAX_OPTIONAL_LENGTH)
  /\ Clean(v.optionalFeatures)

toGenerateListingRequest(v) ==
  [v EXCEPT !.price = Number(@), !.bedrooms = Number(@), !.bathrooms = Number(@),
            !.areaSqm = Number(@)]

-----------------------------------------------------------------------------
(* The API. *)

Length(t, min, max) == min <= t.length /\ t.length <= max

IsInt(n) == n % 1000 = 0

CreatePropertyDto(r) ==
  /\ Length(r.title, 1, 160) /\ ~r.title.rude
  /\ Length(r.description, 1, 4000) /\ ~r.description.rude
  /\ r.price > 0
  /\ Length(r.address, 1, 200) /\ ~r.address.rude
  /\ Length(r.city, 1, 80)
  /\ Length(r.country, 1, 80)
  /\ IsInt(r.bedrooms) /\ 0 <= r.bedrooms /\ r.bedrooms <= Thousandths(20)
  /\ IsInt(r.bathrooms) /\ 0 <= r.bathrooms /\ r.bathrooms <= Thousandths(20)
  /\ r.areaSqm > 0
  /\ r.propertyType \in PropertyTypes
  /\ Len(r.features) <= 10
  /\ \A i \in DOMAIN r.features : Length(r.features[i], 1, 80) /\ ~r.features[i].rude

GenerateListingDto(r) ==
  /\ Length(r.location, 1, 120) /\ ~r.location.rude
  /\ r.price > 0
  /\ IsInt(r.bedrooms) /\ 0 <= r.bedrooms /\ r.bedrooms <= Thousandths(20)
  /\ IsInt(r.bathrooms) /\ 0 <= r.bathrooms /\ r.bathrooms <= Thousandths(20)
  /\ r.areaSqm > 0
  /\ r.propertyType \in PropertyTypes
  /\ r.optionalFeatures.length <= 1000 /\ ~r.optionalFeatures.rude

-----------------------------------------------------------------------------
(* The row. *)

\* numeric(12,2) and numeric(8,2) round to hundredths, and overflow.
Hundredths(x) == (x + 5) \div 10

Storable(x, limit) == Hundredths(x) < limit

\* The INSERT or UPDATE ends in a 500 unless both numbers fit their columns.
Inserts(r) == Storable(r.price, PriceLimit) /\ Storable(r.areaSqm, AreaLimit)

\* simple-array joins the tags with commas and splits at them: a list comes back
\* as it was if its tags have none.
Whole(t) == Len(t.parts) = 1

Reread(tags) ==
  IF \A i \in DOMAIN tags : Whole(tags[i]) THEN tags
  ELSE FlattenSeq([i \in DOMAIN tags |-> tags[i].parts])

\* The listing as the API answers it.
Stored(r) ==
  [r EXCEPT !.price = 10 * Hundredths(@), !.areaSqm = 10 * Hundredths(@),
            !.features = Reread(@)]

\* The values of the form that edits it.
toDraftValues(p) ==
  [p EXCEPT !.price = {@}, !.bedrooms = {@}, !.bathrooms = {@}, !.areaSqm = {@}]

-----------------------------------------------------------------------------
(* What the forms may hold. *)

Typed == {{}} \cup {{x} : x \in Int}

\* The name and the parts of a tag are left open.
Tags(Names, Parts) == [length : Nat, rude : BOOLEAN, name : Names, parts : Parts]

IsDraft(d, Names, Parts) ==
  d \in [title : Texts, description : Texts, price : Typed, address : Texts, city : Texts,
         country : Texts, bedrooms : Typed, bathrooms : Typed, areaSqm : Typed,
         propertyType : PropertyTypes \cup {""}, features : Seq(Tags(Names, Parts))]

IsForm(v) ==
  v \in [location : Texts, price : Typed, bedrooms : Typed, bathrooms : Typed, areaSqm : Typed,
         propertyType : PropertyTypes \cup {""}, optionalFeatures : Texts, blanks : Nat]
=============================================================================
