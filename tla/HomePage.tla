------------------------------ MODULE HomePage ------------------------------
(***************************************************************************)
(* The home page: the filter bar and the grid of PropertiesQuery, the bar  *)
(* and the results of AiSearch.  The results stand in the place of the     *)
(* grid while a search is active; the filter bar stays, and the grid's     *)
(* fetches go on behind them.                                              *)
(***************************************************************************)
EXTENDS PropertiesQuery

CONSTANTS
  SearchQueries,
  Profane,
  SearchSlots  \* bounds the searches in flight

VARIABLES
  authenticated,  \* the status of AuthProvider, which AISearchBar reads
  query, submittedQuery, searchStatus, matches, validationError, searches, cleared, strayed

searchVars ==
  <<query, submittedQuery, searchStatus, matches, validationError, searches, cleared, strayed>>

homeVars == <<vars, authenticated, searchVars>>

Search == INSTANCE AiSearch WITH
  Queries <- SearchQueries, Slots <- SearchSlots, status <- searchStatus

ASSUME SearchAssumption == Search!QueriesAssumption

-----------------------------------------------------------------------------

\* useAISearch's "active": whether its results are shown.
Active == searchStatus # "idle"

Grid ==
  /\ \/ \E text \in Texts : Type(text)
     \/ \E choice \in Choices : Choose(choice)
     \/ ~Active /\ Retry
     \/ Debounce
     \/ RunEffect
     \/ \E s \in Slots : Settle(s)
  /\ UNCHANGED <<authenticated, searchVars>>

\* The bar is a form for those logged in, a link to the login page for others;
\* the results are there for both.
Bar ==
  /\ authenticated
  /\ Search!Submit \/ \E q \in SearchQueries \cup {None} : Search!SetQuery(q)
  /\ UNCHANGED <<vars, authenticated>>

Results ==
  /\ Search!Retry \/ Search!Clear
  /\ UNCHANGED <<vars, authenticated>>

SearchSettles(s) ==
  /\ Search!Succeed(s) \/ Search!Fail(s)
  /\ UNCHANGED <<vars, authenticated>>

\* AuthProvider learns who is logged in.
Authenticate ==
  /\ ~authenticated
  /\ authenticated' = TRUE
  /\ UNCHANGED <<vars, searchVars>>

\* The user leaves the page and comes back, logged in or not.
Return ==
  /\ Remount
  /\ Search!Remount
  /\ authenticated' \in BOOLEAN

HomeInit == Init /\ Search!Init /\ authenticated \in BOOLEAN

HomeNext ==
  \/ Grid \/ Bar \/ Results \/ Authenticate \/ Return
  \/ \E s \in SearchSlots : SearchSettles(s)

HomeSpec == HomeInit /\ [][HomeNext]_homeVars

HomeFairness ==
  /\ WF_homeVars(Debounce /\ UNCHANGED <<authenticated, searchVars>>)
  /\ WF_homeVars(RunEffect /\ UNCHANGED <<authenticated, searchVars>>)
  /\ \A s \in Slots : WF_homeVars(Settle(s) /\ UNCHANGED <<authenticated, searchVars>>)
  /\ \A s \in SearchSlots : WF_homeVars(SearchSettles(s))

FairHomeSpec == HomeSpec /\ HomeFairness

-----------------------------------------------------------------------------
(* Properties. *)

\* Every variable has its type.
HomeTypeOK == TypeOK /\ Search!TypeOK /\ authenticated \in BOOLEAN

\* The results and their label, as AiSearch promises, under every step of the
\* page (useAISearch, AISearchResults).
ResultsMatchLabel == Search!ResultsMatchLabel

\* A search in progress ends, whatever the grid does (runSearch).
SearchEnds == Search!LoadingEnds
=============================================================================
