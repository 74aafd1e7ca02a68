--------------------------- MODULE HomePageProofs ---------------------------
(***************************************************************************)
(* For any filters and queries and any number of fetches and searches in   *)
(* flight, settling in any order, the grid of PropertiesQuery implements   *)
(* LatestAnswer, the results of AiSearch match their label, and the home   *)
(* page disturbs neither.                                                  *)
(***************************************************************************)
EXTENDS HomePage, TLAPS

Heeded(s) == fetches[s] # None /\ ~fetches[s].cancelled

\* At most one fetch is heeded: that of the last effect, and only while the
\* grid is loading.
OnlyTheLastIsHeeded ==
  /\ \A s, t \in Slots : Heeded(s) /\ Heeded(t) => s = t
  /\ \A s \in Slots : Heeded(s) => fetches[s].query = ran /\ status = "loading"

IInv ==
  /\ TypeOK
  /\ OnlyTheLastIsHeeded
  /\ status = "success" => items = ran

LEMMA FetchesAreRecords ==
  ASSUME NEW q \in Queries
  PROVE  /\ Fetch(q) \in [query : Queries, cancelled : BOOLEAN]
         /\ Fetch(q) # None /\ Fetch(q).query = q /\ ~Fetch(q).cancelled
<1>1. Fetch(q) \in [query : Queries, cancelled : BOOLEAN]
  BY DEF Fetch
<1>2. Fetch(q) # None
  BY <1>1, SentinelsAssumption
<1>3. Fetch(q).query = q /\ ~Fetch(q).cancelled
  BY DEF Fetch
<1> QED BY <1>1, <1>2, <1>3

LEMMA CleaningUp ==
  ASSUME TypeOK
  PROVE  /\ CleanedUp \in [Slots -> [query : Queries, cancelled : BOOLEAN] \cup {None}]
         /\ \A s \in Slots : CleanedUp[s] # None => CleanedUp[s].cancelled
<1>1. ASSUME NEW s \in Slots, fetches[s] # None
      PROVE  /\ [fetches[s] EXCEPT !.cancelled = TRUE] \in [query : Queries, cancelled : BOOLEAN]
             /\ [fetches[s] EXCEPT !.cancelled = TRUE].cancelled
  BY <1>1 DEF TypeOK
<1> QED BY <1>1 DEF CleanedUp

\* An effect runs: its fetch is the one that is heeded.
LEMMA Running ==
  ASSUME TypeOK, NEW q \in Queries, NEW s \in Slots, ran' = q, status' = "loading",
         filters' \in Queries, debounced' \in Texts, retried' = FALSE,
         items' \in Queries \cup {None},
         fetches' = [CleanedUp EXCEPT ![s] = Fetch(q)]
  PROVE  IInv'
<1>1. fetches' \in [Slots -> [query : Queries, cancelled : BOOLEAN] \cup {None}]
  BY CleaningUp, FetchesAreRecords
<1>2. TypeOK'
  BY <1>1 DEF TypeOK
<1>3. fetches'[s] = Fetch(q) /\ \A t \in Slots \ {s} : fetches'[t] = CleanedUp[t]
  BY CleaningUp
<1>4. OnlyTheLastIsHeeded'
  BY <1>3, CleaningUp, FetchesAreRecords DEF OnlyTheLastIsHeeded, Heeded
<1> QED BY <1>2, <1>4 DEF IInv

\* What a fetch that settles does to the grid.
LEMMA Settling ==
  ASSUME IInv, NEW s \in Slots, Settle(s)
  PROVE  /\ IInv'
         /\ ran' = ran
         /\ \/ UNCHANGED <<status, items>>
            \/ status = "loading" /\ status' = "success" /\ items' = ran
            \/ status = "loading" /\ status' = "error"
<1>1. /\ fetches[s] # None /\ fetches' = [fetches EXCEPT ![s] = None]
      /\ UNCHANGED <<filters, debounced, ran, retried>>
  BY DEF Settle, Succeed, Fail
<1>2. /\ fetches' \in [Slots -> [query : Queries, cancelled : BOOLEAN] \cup {None}]
      /\ fetches'[s] = None /\ \A t \in Slots \ {s} : fetches'[t] = fetches[t]
  BY <1>1 DEF IInv, TypeOK
<1>3. CASE fetches[s].cancelled
  <2>1. UNCHANGED <<status, items>>
    BY <1>3 DEF Settle, Succeed, Fail
  <2>2. TypeOK' /\ OnlyTheLastIsHeeded'
    BY <1>1, <1>2, <2>1 DEF IInv, TypeOK, OnlyTheLastIsHeeded, Heeded
  <2> QED BY <1>1, <2>1, <2>2 DEF IInv
<1>4. CASE ~fetches[s].cancelled
  <2>1. Heeded(s)
    BY <1>1, <1>4 DEF Heeded
  <2>2. fetches[s].query = ran /\ status = "loading" /\ ran \in Queries
    BY <2>1 DEF IInv, OnlyTheLastIsHeeded, TypeOK
  <2>3. \A t \in Slots : ~Heeded(t)'
    BY <1>2, <2>1 DEF IInv, OnlyTheLastIsHeeded, Heeded
  <2>4. \/ status' = "success" /\ items' = ran
        \/ status' = "error" /\ items' = None
    BY <1>4, <2>2 DEF Settle, Succeed, Fail
  <2>5. TypeOK'
    BY <1>1, <1>2, <2>2, <2>4 DEF IInv, TypeOK
  <2> QED BY <1>1, <2>2, <2>3, <2>4, <2>5 DEF IInv, OnlyTheLastIsHeeded
<1> QED BY <1>3, <1>4

\* Every action keeps the invariant and is an action of LatestAnswer.
LEMMA Step ==
  ASSUME IInv, [Next]_vars
  PROVE  IInv' /\ [Latest!Next]_(Latest!vars)
<1> USE DEF Latest!vars, Latest!Next, Latest!Ask, Latest!Respond
<1>1. CASE User /\ ~Remount
  <2>1. /\ UNCHANGED <<debounced, ran, fetches, status, items>>
        /\ filters' \in Queries /\ retried' \in BOOLEAN
    BY <1>1 DEF User, Type, Choose, Retry, IInv, TypeOK, Queries
  <2> QED BY <2>1 DEF IInv, TypeOK, OnlyTheLastIsHeeded, Heeded
<1>2. CASE Remount
  <2>1. Defaults \in Queries /\ NoText \in Texts
    BY DefaultsAssumption DEF Defaults, Queries
  <2>2. PICK s \in Slots : fetches' = [CleanedUp EXCEPT ![s] = Fetch(Defaults)]
    BY <1>2 DEF Remount
  <2>3. IInv'
    BY <1>2, <2>1, <2>2, Running DEF Remount, IInv
  <2> QED BY <1>2, <2>1, <2>3 DEF Remount
<1>3. CASE Debounce
  BY <1>3 DEF Debounce, IInv, TypeOK, OnlyTheLastIsHeeded, Heeded, Queries
<1>4. CASE RunEffect
  <2>1. Input \in Queries
    BY DEF Input, IInv, TypeOK, Queries
  <2>2. PICK s \in Slots : fetches' = [CleanedUp EXCEPT ![s] = Fetch(Input)]
    BY <1>4 DEF RunEffect
  <2>3. /\ ran' = Input /\ status' = "loading" /\ retried' = FALSE
        /\ filters' \in Queries /\ debounced' \in Texts /\ items' \in Queries \cup {None}
    BY <1>4 DEF RunEffect, IInv, TypeOK
  <2>4. IInv'
    BY <2>1, <2>2, <2>3, Running DEF IInv
  <2> QED BY <2>1, <2>3, <2>4
<1>5. ASSUME NEW s \in Slots, Settle(s) PROVE IInv' /\ [Latest!Next]_(Latest!vars)
  BY <1>5, Settling
<1>6. CASE UNCHANGED vars
  BY <1>6 DEF vars, IInv, TypeOK, OnlyTheLastIsHeeded, Heeded
<1> QED BY <1>1, <1>2, <1>3, <1>4, <1>5, <1>6 DEF Next

LEMMA Start == Init => IInv /\ Latest!Init
<1> SUFFICES ASSUME Init PROVE IInv /\ Latest!Init
  OBVIOUS
<1>1. Defaults \in Queries /\ NoText \in Texts
  BY DefaultsAssumption DEF Defaults, Queries
<1>2. PICK s \in Slots : fetches = [x \in Slots |-> IF x = s THEN Fetch(Defaults) ELSE None]
  BY DEF Init
<1>3. TypeOK
  BY <1>1, <1>2, FetchesAreRecords DEF Init, TypeOK
<1>4. OnlyTheLastIsHeeded
  BY <1>1, <1>2, FetchesAreRecords DEF Init, OnlyTheLastIsHeeded, Heeded
<1> QED BY <1>1, <1>3, <1>4 DEF Init, IInv, Latest!Init

\* Every variable keeps its type.
THEOREM TypeCorrect == Spec => []TypeOK
<1>1. IInv /\ [Next]_vars => IInv'
  BY Step
<1>2. IInv => TypeOK
  BY DEF IInv
<1> QED BY <1>1, <1>2, Start, PTL DEF Spec

\* Whatever order the fetches settle in, the grid shows nothing, a failure or
\* the listings for the filters the last effect ran with.
THEOREM Refines == Spec => ImplementsLatest
<1>1. IInv /\ [Next]_vars => IInv'
  BY Step
<1>2. IInv /\ [Next]_vars => [Latest!Next]_(Latest!vars)
  BY Step
<1> QED BY <1>1, <1>2, Start, PTL DEF Spec, ImplementsLatest, Latest!Spec

-----------------------------------------------------------------------------
(* The search. *)

Searched == SearchQueries \ Profane

\* A search in flight that was not cleared away.
Wanted(s) == searches[s] # None /\ s \notin cleared

\* Unless one that was cleared away has settled, the search in flight that was not
\* is the only one, and is for the label.
OneSearch ==
  ~strayed =>
    /\ \A s, t \in SearchSlots : Wanted(s) /\ Wanted(t) => s = t
    /\ \A s \in SearchSlots : Wanted(s) => searches[s] = submittedQuery

SearchInv == Search!TypeOK /\ ResultsMatchLabel /\ OneSearch

\* A search is sent.
LEMMA RunSearchKeepsInv ==
  ASSUME SearchInv, NEW q \in Searched, Search!RunSearch(q),
         searchStatus \in {"idle", "success", "error"}, validationError' \in BOOLEAN
  PROVE  SearchInv'
<1>1. q # None
  BY SearchAssumption DEF Searched, Search!QueriesAssumption
<1>2. PICK s \in SearchSlots : searches[s] = None /\ searches' = [searches EXCEPT ![s] = q]
  BY DEF Search!RunSearch
<1>3. /\ searches' \in [SearchSlots -> Searched \cup {None}]
      /\ searches'[s] = q /\ \A t \in SearchSlots \ {s} : searches'[t] = searches[t]
      /\ s \notin cleared /\ cleared \subseteq {t \in SearchSlots : searches[t] # None}
  BY <1>2 DEF SearchInv, Search!TypeOK, Searched
<1>4. /\ submittedQuery' = q /\ searchStatus' = "loading"
      /\ UNCHANGED <<query, matches, cleared, strayed>>
  BY DEF Search!RunSearch
<1>5. Search!TypeOK'
  BY <1>3, <1>4 DEF SearchInv, Search!TypeOK, Searched
<1>6. ~strayed => \A t \in SearchSlots \ {s} : ~Wanted(t)'
  BY <1>3, <1>4 DEF SearchInv, ResultsMatchLabel, Search!ResultsMatchLabel, Wanted
<1>7. ResultsMatchLabel'
  BY <1>1, <1>3, <1>4 DEF ResultsMatchLabel, Search!ResultsMatchLabel
<1>8. OneSearch'
  BY <1>3, <1>4, <1>6 DEF OneSearch, Wanted
<1> QED
  BY <1>5, <1>7, <1>8 DEF SearchInv

\* A search settles.
LEMMA SettlingKeepsInv ==
  ASSUME SearchInv, NEW s \in SearchSlots, Search!Succeed(s) \/ Search!Fail(s)
  PROVE  SearchInv'
<1>1. /\ searches[s] # None /\ searches' = [searches EXCEPT ![s] = None]
      /\ UNCHANGED <<query, submittedQuery, validationError>>
      /\ cleared' = cleared \ {s} /\ strayed' = (strayed \/ s \in cleared)
      /\ \/ searchStatus' = "success" /\ matches' = searches[s]
         \/ searchStatus' = "error" /\ matches' = matches
  BY DEF Search!Succeed, Search!Fail, Search!Settle
<1>2. searches[s] \in Searched
  BY <1>1 DEF SearchInv, Search!TypeOK, Searched
<1>3. /\ searches' \in [SearchSlots -> Searched \cup {None}]
      /\ searches'[s] = None /\ \A t \in SearchSlots \ {s} : searches'[t] = searches[t]
  BY <1>1 DEF SearchInv, Search!TypeOK, Searched
<1>4. Search!TypeOK'
  BY <1>1, <1>2, <1>3 DEF SearchInv, Search!TypeOK, Searched
<1>5. ~strayed' => searches[s] = submittedQuery /\ \A t \in SearchSlots : ~Wanted(t)'
  BY <1>1, <1>3 DEF SearchInv, OneSearch, Wanted
<1>6. submittedQuery # None \/ strayed'
  BY <1>1, <1>5
<1>7. ResultsMatchLabel'
  BY <1>1, <1>5, <1>6 DEF ResultsMatchLabel, Search!ResultsMatchLabel, Wanted
<1>8. OneSearch'
  BY <1>1, <1>5 DEF OneSearch
<1> QED
  BY <1>4, <1>7, <1>8 DEF SearchInv

LEMMA SearchStep ==
  ASSUME SearchInv, [Search!Next]_searchVars
  PROVE  SearchInv'
<1>1. ASSUME NEW q \in SearchQueries \cup {None}, Search!SetQuery(q)
      PROVE  SearchInv'
  BY <1>1 DEF Search!SetQuery, SearchInv, Search!TypeOK, ResultsMatchLabel,
              Search!ResultsMatchLabel, OneSearch, Wanted
<1>2. CASE Search!Submit
  <2>1. query \in SearchQueries /\ searchStatus \in {"idle", "success", "error"}
    BY <1>2 DEF Search!Submit, SearchInv, Search!TypeOK
  <2>2. CASE query \in Profane
    <3>1. /\ validationError' = TRUE
          /\ UNCHANGED <<query, submittedQuery, searchStatus, matches, searches, cleared, strayed>>
      BY <1>2, <2>2 DEF Search!Submit
    <3> QED
      BY <3>1 DEF SearchInv, Search!TypeOK, ResultsMatchLabel, Search!ResultsMatchLabel,
                  OneSearch, Wanted
  <2>3. CASE query \notin Profane
    <3>1. Search!RunSearch(query) /\ validationError' = validationError
      BY <1>2, <2>3 DEF Search!Submit
    <3> QED
      BY <2>1, <2>3, <3>1, RunSearchKeepsInv DEF Searched, SearchInv, Search!TypeOK
  <2> QED
    BY <2>2, <2>3
<1>3. CASE Search!Retry
  BY <1>3, RunSearchKeepsInv DEF Search!Retry, Searched, SearchInv, Search!TypeOK
<1>4. CASE Search!Clear
  BY <1>4 DEF Search!Clear, SearchInv, Search!TypeOK, ResultsMatchLabel,
              Search!ResultsMatchLabel, OneSearch, Wanted
<1>5. CASE Search!Remount
  BY <1>5 DEF Search!Remount, SearchInv, Search!TypeOK, ResultsMatchLabel,
              Search!ResultsMatchLabel, OneSearch, Wanted
<1>6. ASSUME NEW s \in SearchSlots, Search!Succeed(s) \/ Search!Fail(s)
      PROVE  SearchInv'
  BY <1>6, SettlingKeepsInv
<1>7. CASE UNCHANGED searchVars
  BY <1>7 DEF searchVars, SearchInv, Search!TypeOK, ResultsMatchLabel,
              Search!ResultsMatchLabel, OneSearch, Wanted
<1> QED
  BY <1>1, <1>2, <1>3, <1>4, <1>5, <1>6, <1>7 DEF Search!Next

-----------------------------------------------------------------------------
(* The page. *)

HomeInv == IInv /\ SearchInv /\ authenticated \in BOOLEAN

\* Every step of the page is one of the grid or none, and one of the search or
\* none.
LEMMA HomeSteps ==
  ASSUME [HomeNext]_homeVars
  PROVE  /\ [Next]_vars /\ [Search!Next]_searchVars
         /\ authenticated \in BOOLEAN => authenticated' \in BOOLEAN
<1>1. CASE Grid
  BY <1>1 DEF Grid, Next, User
<1>2. CASE Bar
  BY <1>2 DEF Bar, Search!Next
<1>3. CASE Results
  BY <1>3 DEF Results, Search!Next
<1>4. CASE Authenticate
  BY <1>4 DEF Authenticate
<1>5. CASE Return
  BY <1>5 DEF Return, Next, User, Search!Next
<1>6. ASSUME NEW s \in SearchSlots, SearchSettles(s)
      PROVE  UNCHANGED <<vars, authenticated>> /\ Search!Next
  BY <1>6 DEF SearchSettles, Search!Next
<1>7. CASE UNCHANGED homeVars
  BY <1>7 DEF homeVars
<1> QED
  BY <1>1, <1>2, <1>3, <1>4, <1>5, <1>6, <1>7 DEF HomeNext

LEMMA HomeStart == HomeInit => HomeInv /\ Latest!Init
<1> SUFFICES ASSUME HomeInit PROVE HomeInv /\ Latest!Init
  OBVIOUS
<1>1. SearchInv
  BY DEF HomeInit, Search!Init, SearchInv, Search!TypeOK, ResultsMatchLabel,
         Search!ResultsMatchLabel, OneSearch, Wanted
<1> QED
  BY <1>1, Start DEF HomeInit, HomeInv

LEMMA HomeStep ==
  ASSUME HomeInv, [HomeNext]_homeVars
  PROVE  HomeInv' /\ [Latest!Next]_(Latest!vars)
BY HomeSteps, Step, SearchStep DEF HomeInv

\* Every variable of the page keeps its type.
THEOREM HomeTypeCorrect == HomeSpec => []HomeTypeOK
<1>1. HomeInv /\ [HomeNext]_homeVars => HomeInv'
  BY HomeStep
<1>2. HomeInv => HomeTypeOK
  BY DEF HomeInv, IInv, SearchInv, HomeTypeOK
<1> QED BY <1>1, <1>2, HomeStart, PTL DEF HomeSpec

\* The grid keeps the promise of LatestAnswer, whatever is searched for.
THEOREM HomeRefines == HomeSpec => ImplementsLatest
<1>1. HomeInv /\ [HomeNext]_homeVars => HomeInv'
  BY HomeStep
<1>2. HomeInv /\ [HomeNext]_homeVars => [Latest!Next]_(Latest!vars)
  BY HomeStep
<1> QED BY <1>1, <1>2, HomeStart, PTL DEF HomeSpec, ImplementsLatest, Latest!Spec

\* Until a search that was cleared away settles after all, results are for the
\* query they are labelled with, for any number of searches in flight, cleared or
\* not; after that, from the next clear on.
THEOREM ResultsCorrect == HomeSpec => []ResultsMatchLabel
<1>1. HomeInv /\ [HomeNext]_homeVars => HomeInv'
  BY HomeStep
<1>2. HomeInv => ResultsMatchLabel
  BY DEF HomeInv, SearchInv
<1> QED BY <1>1, <1>2, HomeStart, PTL DEF HomeSpec

-----------------------------------------------------------------------------
(* What is loading waits for something: the part of FiltersWin and of      *)
(* SearchEnds that is not about fairness.                                  *)

\* The skeletons of the grid wait for a fetch that will be heeded, those of the
\* results for some search.
Awaits ==
  /\ status = "loading" => \E s \in Slots : Heeded(s)
  /\ searchStatus = "loading" => \E s \in SearchSlots : searches[s] # None

\* No timer runs, no effect is due, and no fetch is in flight.
GridQuiet ==
  /\ debounced = filters.text
  /\ Input = ran /\ ~retried
  /\ \A s \in Slots : fetches[s] = None

LEMMA GridAwaits ==
  ASSUME IInv, status = "loading" => \E s \in Slots : Heeded(s), [Next]_vars
  PROVE  status' = "loading" => \E s \in Slots : Heeded(s)'
<1>0. TypeOK
  BY DEF IInv
<1>1. ASSUME NEW q \in Queries, NEW s \in Slots, fetches' = [CleanedUp EXCEPT ![s] = Fetch(q)]
      PROVE  Heeded(s)'
  <2>1. fetches'[s] = Fetch(q)
    BY <1>0, <1>1, CleaningUp
  <2> QED BY <2>1, FetchesAreRecords DEF Heeded
<1>2. CASE Remount
  <2>1. Defaults \in Queries
    BY DefaultsAssumption DEF Defaults, Queries
  <2> QED BY <1>1, <1>2, <2>1 DEF Remount
<1>3. CASE RunEffect
  <2>1. Input \in Queries
    BY <1>0 DEF Input, TypeOK, Queries
  <2> QED BY <1>1, <1>3, <2>1 DEF RunEffect
<1>4. ASSUME NEW s \in Slots, Settle(s), status' = "loading"
      PROVE  \E t \in Slots : Heeded(t)'
  <2>1. /\ fetches[s] # None /\ fetches[s].cancelled /\ status = "loading"
        /\ \A t \in Slots \ {s} : fetches'[t] = fetches[t]
    BY <1>0, <1>4 DEF Settle, Succeed, Fail, TypeOK
  <2>2. PICK t \in Slots : Heeded(t)
    BY <2>1
  <2> QED BY <2>1, <2>2 DEF Heeded
<1>5. CASE (User /\ ~Remount) \/ Debounce \/ UNCHANGED vars
  <2>1. UNCHANGED <<fetches, status>>
    BY <1>5 DEF User, Type, Choose, Retry, Debounce, vars
  <2> QED BY <2>1 DEF Heeded
<1> QED BY <1>2, <1>3, <1>4, <1>5 DEF Next, User

LEMMA SearchAwaits ==
  ASSUME SearchInv, searchStatus = "loading" => \E s \in SearchSlots : searches[s] # None,
         [Search!Next]_searchVars
  PROVE  searchStatus' = "loading" => \E s \in SearchSlots : searches'[s] # None
<1>1. ASSUME NEW q \in Searched, Search!RunSearch(q)
      PROVE  \E s \in SearchSlots : searches'[s] # None
  <2>1. PICK s \in SearchSlots : searches' = [searches EXCEPT ![s] = q]
    BY <1>1 DEF Search!RunSearch
  <2>2. searches'[s] = q /\ q # None
    BY <2>1, SearchAssumption DEF SearchInv, Search!TypeOK, Searched, Search!QueriesAssumption
  <2> QED BY <2>2
<1>2. CASE Search!Submit
  BY <1>1, <1>2 DEF Search!Submit, SearchInv, Search!TypeOK, Searched
<1>3. CASE Search!Retry
  BY <1>1, <1>3 DEF Search!Retry, SearchInv, Search!TypeOK, Searched
<1>4. CASE \/ Search!Clear \/ Search!Remount
           \/ \E s \in SearchSlots : Search!Succeed(s) \/ Search!Fail(s)
  <2>1. searchStatus' # "loading"
    BY <1>4 DEF Search!Clear, Search!Remount, Search!Succeed, Search!Fail
  <2> QED BY <2>1
<1>5. CASE \/ \E q \in SearchQueries \cup {None} : Search!SetQuery(q)
           \/ UNCHANGED searchVars
  <2>1. UNCHANGED <<searchStatus, searches>>
    BY <1>5 DEF Search!SetQuery, searchVars
  <2> QED BY <2>1
<1> QED BY <1>2, <1>3, <1>4, <1>5 DEF Search!Next

LEMMA HomeAwaits == HomeInv /\ Awaits /\ [HomeNext]_homeVars => Awaits'
<1> SUFFICES ASSUME HomeInv, Awaits, [HomeNext]_homeVars PROVE Awaits'
  OBVIOUS
<1>1. [Next]_vars /\ [Search!Next]_searchVars
  BY HomeSteps
<1> QED BY <1>1, GridAwaits, SearchAwaits DEF HomeInv, Awaits, Heeded

LEMMA StartAwaits == HomeInit => Awaits
<1> SUFFICES ASSUME HomeInit PROVE Awaits
  OBVIOUS
<1>1. Defaults \in Queries
  BY DefaultsAssumption DEF Defaults, Queries
<1>2. PICK s \in Slots : fetches = [x \in Slots |-> IF x = s THEN Fetch(Defaults) ELSE None]
  BY DEF HomeInit, Init
<1>3. Heeded(s)
  BY <1>1, <1>2, FetchesAreRecords DEF Heeded
<1> QED BY <1>3 DEF Awaits, HomeInit, Search!Init

\* No skeletons without a promise that will take them away: the grid never waits
\* for a fetch that is ignored, and the results never for a search that is over,
\* cleared away or not.
THEOREM SkeletonsAwait == HomeSpec => []Awaits
<1>1. HomeInv /\ [HomeNext]_homeVars => HomeInv'
  BY HomeStep
<1> QED BY <1>1, HomeStart, StartAwaits, HomeAwaits, PTL DEF HomeSpec

\* Where the grid can stop, it is current: with no timer, effect or fetch
\* outstanding it shows the listings for what the filter bar says, or a failure.
THEOREM QuietGridIsCurrent == HomeSpec => [](GridQuiet => Current)
<1>1. HomeInv /\ [HomeNext]_homeVars => HomeInv'
  BY HomeStep
<1>2. HomeInv /\ Awaits => (GridQuiet => Current)
  BY DEF HomeInv, IInv, TypeOK, Queries, Awaits, Heeded, GridQuiet, Current, Input
<1> QED BY <1>1, <1>2, HomeStart, StartAwaits, HomeAwaits, PTL DEF HomeSpec
=============================================================================
