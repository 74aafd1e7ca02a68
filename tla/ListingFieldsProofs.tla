------------------------- MODULE ListingFieldsProofs -------------------------
(* Theorems about ListingFields. *)
EXTENDS ListingFields, TLAPS

\* The limits of the client are those of the API.
LEMMA Limits ==
  /\ MAX_TITLE_LENGTH = 160 /\ MAX_DESCRIPTION_LENGTH = 4000 /\ MAX_ADDRESS_LENGTH = 200
  /\ MAX_CITY_LENGTH = 80 /\ MAX_COUNTRY_LENGTH = 80
  /\ MAX_FEATURES = 10 /\ MAX_FEATURE_LENGTH = 80
  /\ MAX_LOCATION_LENGTH = 120 /\ MAX_OPTIONAL_LENGTH = 1000
BY DEF MAX_TITLE_LENGTH, MAX_DESCRIPTION_LENGTH, MAX_ADDRESS_LENGTH, MAX_CITY_LENGTH,
       MAX_COUNTRY_LENGTH, MAX_FEATURES, MAX_FEATURE_LENGTH, MAX_LOCATION_LENGTH,
       MAX_OPTIONAL_LENGTH

\* What Number() makes of a number that has been typed.
LEMMA NumberOf ==
  ASSUME NEW typed \in Typed, NEW x \in typed
  PROVE  x \in Int /\ typed = {x} /\ Number(typed) = x
<1>1. PICK y \in Int : typed = {y}
  BY DEF Typed
<1> QED
  BY <1>1 DEF Number

LEMMA NumberOne ==
  ASSUME NEW x
  PROVE  Number({x}) = x
BY DEF Number

\* A number of rooms the client accepts is one the API accepts.
LEMMA RoomsAgree ==
  ASSUME NEW typed \in Typed, isValidInteger(typed, MAX_ROOMS)
  PROVE  /\ IsInt(Number(typed))
         /\ 0 <= Number(typed) /\ Number(typed) <= Thousandths(20)
         /\ Number(typed) \in Int /\ typed = {Number(typed)}
<1>1. PICK x \in typed : x % 1000 = 0 /\ x >= 0 /\ x <= Thousandths(MAX_ROOMS)
  BY DEF isValidInteger
<1>2. x \in Int /\ typed = {x} /\ Number(typed) = x
  BY NumberOf
<1> QED
  BY <1>1, <1>2 DEF IsInt, MAX_ROOMS

LEMMA PositiveAgrees ==
  ASSUME NEW typed \in Typed, isPositiveNumber(typed)
  PROVE  Number(typed) \in Int /\ Number(typed) > 0 /\ typed = {Number(typed)}
<1>1. PICK x \in typed : x > 0
  BY DEF isPositiveNumber
<1> QED
  BY <1>1, NumberOf

\* A text the client accepts is one the API accepts.
LEMMA TextsAgree ==
  ASSUME NEW t \in Texts, NEW max \in Nat, Within(t, max)
  PROVE  Length(t, 1, max)
BY DEF Within, Length, Texts

\* What is in a list of tags.
LEMMA ListOf ==
  ASSUME NEW T, NEW tags \in Seq(T)
  PROVE  Len(tags) \in Nat /\ \A i \in DOMAIN tags : tags[i] \in T
OBVIOUS

LEMMA TagsAgree ==
  ASSUME NEW Names, NEW Parts, NEW t \in Tags(Names, Parts),
         Within(t, MAX_FEATURE_LENGTH), Clean(t)
  PROVE  Length(t, 1, 80) /\ ~t.rude
BY DEF Within, Length, Clean, Tags, MAX_FEATURE_LENGTH

LEMMA FeatureLimit ==
  ASSUME NEW n \in Nat, ~(n > MAX_FEATURES)
  PROVE  n <= 10
BY DEF MAX_FEATURES

LEMMA OptionalAgrees ==
  ASSUME NEW t \in Texts, NEW blanks \in Nat,
         ~(blanks + t.length > MAX_OPTIONAL_LENGTH), Clean(t)
  PROVE  t.length <= 1000 /\ ~t.rude
BY DEF Clean, Texts, MAX_OPTIONAL_LENGTH

\* The texts of a draft, each within its limit.
DraftTextsFit(d) ==
  /\ Length(d.title, 1, 160) /\ Length(d.description, 1, 4000)
  /\ Length(d.address, 1, 200) /\ Length(d.city, 1, 80) /\ Length(d.country, 1, 80)

LEMMA DraftTexts ==
  ASSUME NEW d, validateDraft(d),
         d.title \in Texts, d.description \in Texts, d.address \in Texts,
         d.city \in Texts, d.country \in Texts
  PROVE  DraftTextsFit(d)
<1>1. /\ Within(d.title, MAX_TITLE_LENGTH) /\ Within(d.description, MAX_DESCRIPTION_LENGTH)
      /\ Within(d.address, MAX_ADDRESS_LENGTH)
      /\ Within(d.city, MAX_CITY_LENGTH) /\ Within(d.country, MAX_COUNTRY_LENGTH)
  BY DEF validateDraft
<1> HIDE DEF validateDraft
<1>2. /\ Within(d.title, 160) /\ Within(d.description, 4000) /\ Within(d.address, 200)
      /\ Within(d.city, 80) /\ Within(d.country, 80)
  BY <1>1, Limits
<1> QED
  BY <1>2, TextsAgree DEF DraftTextsFit

-----------------------------------------------------------------------------

\* What validateDraft lets pass, CreatePropertyDto lets pass, provided the tags
\* are of the length that validateNewFeature and not validateDraft asks for.
THEOREM ClientMirrorsApi ==
  ASSUME NEW Names, NEW Parts, NEW d, IsDraft(d, Names, Parts),
         validateDraft(d), TagsFit(d.features)
  PROVE  CreatePropertyDto(toCreatePropertyRequest(d))
<1> DEFINE r == toCreatePropertyRequest(d)
<1>1. /\ d.title \in Texts /\ d.description \in Texts /\ d.address \in Texts
      /\ d.city \in Texts /\ d.country \in Texts
      /\ d.price \in Typed /\ d.areaSqm \in Typed
      /\ d.bedrooms \in Typed /\ d.bathrooms \in Typed
      /\ d.propertyType \in PropertyTypes \cup {""}
      /\ d.features \in Seq(Tags(Names, Parts))
  BY DEF IsDraft
<1>2. d.country.length # 0
  BY DEF validateDraft, Within
<1>3. /\ r.title = d.title /\ r.description = d.description /\ r.address = d.address
      /\ r.city = d.city /\ r.country = d.country
      /\ r.price = Number(d.price) /\ r.areaSqm = Number(d.areaSqm)
      /\ r.bedrooms = Number(d.bedrooms) /\ r.bathrooms = Number(d.bathrooms)
      /\ r.propertyType = d.propertyType /\ r.features = d.features
  BY <1>2 DEF IsDraft, toCreatePropertyRequest
<1>4. /\ Length(r.title, 1, 160) /\ Length(r.description, 1, 4000)
      /\ Length(r.address, 1, 200) /\ Length(r.city, 1, 80) /\ Length(r.country, 1, 80)
  <2>1. DraftTextsFit(d)
    BY <1>1, DraftTexts
  <2> HIDE DEF r
  <2> QED
    BY <1>3, <2>1 DEF DraftTextsFit
<1>5. ~r.title.rude /\ ~r.description.rude /\ ~r.address.rude
  BY <1>3 DEF validateDraft, Clean
<1>6. /\ r.price > 0 /\ r.areaSqm > 0
      /\ IsInt(r.bedrooms) /\ 0 <= r.bedrooms /\ r.bedrooms <= Thousandths(20)
      /\ IsInt(r.bathrooms) /\ 0 <= r.bathrooms /\ r.bathrooms <= Thousandths(20)
  BY <1>1, <1>3, PositiveAgrees, RoomsAgree DEF validateDraft
<1>7. r.propertyType \in PropertyTypes
  BY <1>1, <1>3 DEF validateDraft
<1>8. Len(r.features) <= 10
  <2>1. Len(d.features) \in Nat
    BY <1>1, ListOf
  <2>2. ~(Len(d.features) > MAX_FEATURES)
    BY DEF validateDraft
  <2> QED
    BY <1>3, <2>1, <2>2, FeatureLimit
<1>9. ASSUME NEW i \in DOMAIN r.features
      PROVE  Length(r.features[i], 1, 80) /\ ~r.features[i].rude
  <2>1. d.features[i] \in Tags(Names, Parts)
    BY <1>1, <1>3, ListOf
  <2>2. Within(d.features[i], MAX_FEATURE_LENGTH) /\ Clean(d.features[i])
    BY <1>3 DEF validateDraft, TagsFit
  <2> QED
    BY <1>3, <2>1, <2>2, TagsAgree
<1> HIDE DEF r
<1>10. CreatePropertyDto(r)
  BY <1>4, <1>5, <1>6, <1>7, <1>8, <1>9 DEF CreatePropertyDto
<1> QED
  BY <1>10 DEF r

\* A tag that is added keeps the list one that ClientMirrorsApi speaks of.
THEOREM AddedTagsFit ==
  ASSUME NEW Names, NEW Parts, NEW t \in Tags(Names, Parts),
         NEW existing \in Seq(Tags(Names, Parts)),
         TagsFit(existing),
         validateNewFeature(t, existing)
  PROVE  LET tags == Append(existing, t) IN
           /\ Len(tags) <= MAX_FEATURES
           /\ TagsFit(tags)
<1> DEFINE tags == Append(existing, t)
<1>1. Len(existing) \in Nat /\ Len(existing) < MAX_FEATURES
  BY DEF validateNewFeature, MAX_FEATURES
<1>2. Len(tags) = Len(existing) + 1
  OBVIOUS
<1>3. Within(t, MAX_FEATURE_LENGTH)
  BY DEF validateNewFeature, Within
<1>4. ASSUME NEW i \in DOMAIN tags
      PROVE  Within(tags[i], MAX_FEATURE_LENGTH)
  <2>1. CASE i = Len(existing) + 1
    BY <1>3, <2>1
  <2>2. CASE i # Len(existing) + 1
    BY <1>2, <2>2 DEF TagsFit
  <2> QED
    BY <2>1, <2>2
<1> QED
  BY <1>1, <1>2, <1>4 DEF MAX_FEATURES, TagsFit

\* What the generator's form lets pass, GenerateListingDto lets pass.
THEOREM FormMirrorsApi ==
  ASSUME NEW v, IsForm(v), validate(v)
  PROVE  GenerateListingDto(toGenerateListingRequest(v))
<1> DEFINE r == toGenerateListingRequest(v)
<1>1. /\ v.location \in Texts /\ v.optionalFeatures \in Texts /\ v.blanks \in Nat
      /\ v.price \in Typed /\ v.areaSqm \in Typed
      /\ v.bedrooms \in Typed /\ v.bathrooms \in Typed
      /\ v.propertyType \in PropertyTypes \cup {""}
  BY DEF IsForm
<1>2. /\ r.location = v.location /\ r.optionalFeatures = v.optionalFeatures
      /\ r.price = Number(v.price) /\ r.areaSqm = Number(v.areaSqm)
      /\ r.bedrooms = Number(v.bedrooms) /\ r.bathrooms = Number(v.bathrooms)
      /\ r.propertyType = v.propertyType
  BY DEF IsForm, toGenerateListingRequest
<1>3. Length(r.location, 1, 120) /\ ~r.location.rude
  BY <1>1, <1>2, TextsAgree DEF validate, Clean, MAX_LOCATION_LENGTH
<1>4. /\ r.price > 0 /\ r.areaSqm > 0
      /\ IsInt(r.bedrooms) /\ 0 <= r.bedrooms /\ r.bedrooms <= Thousandths(20)
      /\ IsInt(r.bathrooms) /\ 0 <= r.bathrooms /\ r.bathrooms <= Thousandths(20)
  BY <1>1, <1>2, PositiveAgrees, RoomsAgree DEF validate
<1>5. r.propertyType \in PropertyTypes
  BY <1>1, <1>2 DEF validate
<1>6. r.optionalFeatures.length <= 1000 /\ ~r.optionalFeatures.rude
  <2>1. ~(v.blanks + v.optionalFeatures.length > MAX_OPTIONAL_LENGTH)
        /\ Clean(v.optionalFeatures)
    BY DEF validate
  <2> QED
    BY <1>1, <1>2, <2>1, OptionalAgrees
<1> HIDE DEF r
<1>7. GenerateListingDto(r)
  BY <1>3, <1>4, <1>5, <1>6 DEF GenerateListingDto
<1> QED
  BY <1>7 DEF r

-----------------------------------------------------------------------------

\* Rounding to hundredths once is rounding for good, and keeps what is at least
\* half of one positive.
LEMMA Rounding ==
  ASSUME NEW x \in Int, x >= 5
  PROVE  /\ Hundredths(x) \in Int
         /\ 10 * Hundredths(x) > 0
         /\ 10 * Hundredths(x) \in Int
         /\ Hundredths(10 * Hundredths(x)) = Hundredths(x)
<1>1. Hundredths(x) \in Int /\ Hundredths(x) >= 1
  BY DEF Hundredths
<1> DEFINE h == Hundredths(x)
<1>2. ASSUME NEW n \in Int
      PROVE  (10 * n + 5) \div 10 = n
  OBVIOUS
<1> QED
  BY <1>1, <1>2 DEF Hundredths

\* A listing published from the client can be edited: the form that loads it
\* passes both checks as it is, and saving it as it is changes nothing.  This
\* takes numbers of at least half a cent, and tags without commas.
THEOREM EditableAgain ==
  ASSUME NEW Names, NEW Parts, NEW d, IsDraft(d, Names, Parts),
         validateDraft(d), TagsFit(d.features),
         \A i \in DOMAIN d.features : Whole(d.features[i]),
         \A x \in d.price \cup d.areaSqm : x >= 5
  PROVE  LET p == Stored(toCreatePropertyRequest(d))
             e == toDraftValues(p)
         IN  /\ validateDraft(e)
             /\ CreatePropertyDto(toCreatePropertyRequest(e))
             /\ Stored(toCreatePropertyRequest(e)) = p
<1> DEFINE r == toCreatePropertyRequest(d)
           p == Stored(r)
           e == toDraftValues(p)
           q == toCreatePropertyRequest(e)
           D == [title : Texts, description : Texts, price : Typed, address : Texts,
                 city : Texts, country : Texts, bedrooms : Typed, bathrooms : Typed,
                 areaSqm : Typed, propertyType : PropertyTypes \cup {""},
                 features : Seq(Tags(Names, Parts))]
<1>1. d \in D
  BY DEF IsDraft
<1>2. d.country.length # 0
  BY DEF validateDraft, Within
<1>3. r = [d EXCEPT !.price = Number(@), !.bedrooms = Number(@), !.bathrooms = Number(@),
                    !.areaSqm = Number(@)]
  BY <1>1, <1>2 DEF toCreatePropertyRequest
<1>4. r.features = d.features /\ Reread(d.features) = d.features
  BY <1>1, <1>3 DEF Reread
<1>5. /\ d.price \in Typed /\ d.areaSqm \in Typed
      /\ d.bedrooms \in Typed /\ d.bathrooms \in Typed
  BY <1>1
<1> DEFINE price == Number(d.price)
           area == Number(d.areaSqm)
           beds == Number(d.bedrooms)
           baths == Number(d.bathrooms)
<1>6. /\ price \in Int /\ area \in Int /\ price >= 5 /\ area >= 5
      /\ d.bedrooms = {beds} /\ d.bathrooms = {baths}
  <2>1. price \in Int /\ d.price = {price} /\ area \in Int /\ d.areaSqm = {area}
    BY <1>5, PositiveAgrees DEF validateDraft
  <2>2. d.bedrooms = {beds} /\ d.bathrooms = {baths}
    BY <1>5, RoomsAgree DEF validateDraft
  <2>3. price \in d.price \cup d.areaSqm /\ area \in d.price \cup d.areaSqm
    BY <2>1
  <2> QED
    BY <2>1, <2>2, <2>3
<1> DEFINE storedPrice == 10 * Hundredths(price)
           storedArea == 10 * Hundredths(area)
<1>7. /\ storedPrice \in Int /\ storedPrice > 0
      /\ storedArea \in Int /\ storedArea > 0
      /\ 10 * Hundredths(storedPrice) = storedPrice
      /\ 10 * Hundredths(storedArea) = storedArea
  BY <1>6, Rounding
<1> HIDE DEF price, area, beds, baths, storedPrice, storedArea
<1>8. p = [d EXCEPT !.price = storedPrice, !.areaSqm = storedArea,
                    !.bedrooms = beds, !.bathrooms = baths]
  BY <1>1, <1>3, <1>4 DEF Stored, price, area, beds, baths, storedPrice, storedArea
<1>9. e = [d EXCEPT !.price = {storedPrice}, !.areaSqm = {storedArea}]
  BY <1>1, <1>6, <1>8 DEF toDraftValues
<1>10. e \in D
  BY <1>1, <1>7, <1>9 DEF Typed
<1>11. validateDraft(e)
  <2>1. isPositiveNumber({storedPrice}) /\ isPositiveNumber({storedArea})
    BY <1>7 DEF isPositiveNumber
  <2> QED
    BY <1>1, <1>9, <2>1 DEF validateDraft
<1>12. CreatePropertyDto(q)
  <2>1. TagsFit(e.features)
    BY <1>1, <1>9
  <2>2. IsDraft(e, Names, Parts)
    BY <1>10 DEF IsDraft
  <2> QED
    BY <1>11, <2>1, <2>2, ClientMirrorsApi
<1>13. Stored(q) = p
  <2>1. e.country.length # 0
    BY <1>11 DEF validateDraft, Within
  <2>4. /\ e.price = {storedPrice} /\ e.areaSqm = {storedArea}
        /\ e.bedrooms = {beds} /\ e.bathrooms = {baths}
    BY <1>1, <1>6, <1>9
  <2>5. q = [e EXCEPT !.price = storedPrice, !.areaSqm = storedArea,
                      !.bedrooms = beds, !.bathrooms = baths]
    BY <1>10, <2>1, <2>4, NumberOne DEF toCreatePropertyRequest
  <2>2. q = p
    BY <1>1, <1>8, <1>9, <2>5
  <2>3. p.features = d.features
    BY <1>1, <1>8
  <2> QED
    BY <1>1, <1>4, <1>7, <1>8, <2>2, <2>3 DEF Stored
<1> QED
  BY <1>11, <1>12, <1>13
=============================================================================
