------------------------------ MODULE AiSearch ------------------------------
(***************************************************************************)
(* The AI search of the home page: the hook useAISearch, behind the bar    *)
(* that submits a query and the results that replace the grid.  A search   *)
(* takes up to the API's timeout; the user may clear it while it runs, and *)
(* the promise of a search once sent is never told to be ignored.          *)
(*                                                                         *)
(* The summary and the matches of an answer are named by the query that    *)
(* was searched for.                                                       *)
(***************************************************************************)
CONSTANTS
  Queries,  \* trimmed queries of at least MIN_QUERY_LENGTH
  Profane,  \* those containsProfanity rejects
  None,     \* the empty query; no answer; a slot that is free
  Slots     \* bounds the searches in flight

\* What HomePage assumes.
QueriesAssumption == Profane \subseteq Queries /\ None \notin Queries

VARIABLES
  query,            \* what the bar says
  submittedQuery,
  status,           \* "idle", "loading", "success" or "error"
  matches,          \* the query the summary and matches are for
  validationError,
  searches,         \* the searches in flight: what for
  cleared,          \* history: those of them that were cleared away
  strayed           \* history: one of those settled after all, since the last clear

vars == <<query, submittedQuery, status, matches, validationError, searches, cleared,
          strayed>>

-----------------------------------------------------------------------------

\* runSearch: the old matches stay behind the skeletons.
RunSearch(q) ==
  /\ submittedQuery' = q
  /\ status' = "loading"
  /\ \E s \in Slots : searches[s] = None /\ searches' = [searches EXCEPT ![s] = q]
  /\ UNCHANGED <<query, matches, cleared, strayed>>

\* The input is disabled while a search is pending.
SetQuery(q) ==
  /\ status # "loading"
  /\ query' = q
  /\ validationError' = FALSE
  /\ UNCHANGED <<submittedQuery, status, matches, searches, cleared, strayed>>

\* Mutant: a second submit is not turned away.
EagerSubmit ==
  /\ query # None
  /\ query \notin Profane
  /\ RunSearch(query)
  /\ UNCHANGED validationError

Submit ==
  /\ status # "loading"
  /\ query # None
  /\ \/ /\ query \in Profane
        /\ validationError' = TRUE
        /\ UNCHANGED <<query, submittedQuery, status, matches, searches, cleared, strayed>>
     \/ /\ query \notin Profane
        /\ RunSearch(query)
        /\ UNCHANGED validationError

\* The button of ErrorState.
Retry ==
  /\ status = "error"
  /\ submittedQuery # None
  /\ RunSearch(submittedQuery)
  /\ UNCHANGED validationError

\* The button over the results, whatever their status.
Clear ==
  /\ status # "idle"
  /\ query' = None
  /\ submittedQuery' = None
  /\ status' = "idle"
  /\ matches' = None
  /\ validationError' = FALSE
  /\ cleared' = {s \in Slots : searches[s] # None}
  /\ strayed' = FALSE
  /\ UNCHANGED searches

\* A search is no longer in flight.
Settle(s) ==
  /\ searches[s] # None
  /\ searches' = [searches EXCEPT ![s] = None]
  /\ cleared' = cleared \ {s}
  /\ strayed' = (strayed \/ s \in cleared)

Succeed(s) ==
  /\ Settle(s)
  /\ matches' = searches[s]
  /\ status' = "success"
  /\ UNCHANGED <<query, submittedQuery, validationError>>

\* Mutant: a failed search is not caught.
UncaughtFail(s) ==
  /\ Settle(s)
  /\ UNCHANGED <<query, submittedQuery, status, matches, validationError>>

Fail(s) ==
  /\ Settle(s)
  /\ status' = "error"
  /\ UNCHANGED <<query, submittedQuery, matches, validationError>>

\* The page is left and mounted again; setters of the old one do nothing.
Remount ==
  /\ query' = None
  /\ submittedQuery' = None
  /\ status' = "idle"
  /\ matches' = None
  /\ validationError' = FALSE
  /\ searches' = [s \in Slots |-> None]
  /\ cleared' = {}
  /\ strayed' = FALSE

-----------------------------------------------------------------------------

Init ==
  /\ query = None
  /\ submittedQuery = None
  /\ status = "idle"
  /\ matches = None
  /\ validationError = FALSE
  /\ searches = [s \in Slots |-> None]
  /\ cleared = {}
  /\ strayed = FALSE

Next ==
  \/ \E q \in Queries \cup {None} : SetQuery(q)
  \/ Submit
  \/ Retry
  \/ Clear
  \/ Remount
  \/ \E s \in Slots : Succeed(s) \/ Fail(s)

Spec == Init /\ [][Next]_vars

\* The API answers a search within its timeout, or the browser fails it.
FairSpec == Spec /\ \A s \in Slots : WF_vars(Succeed(s) \/ Fail(s))

-----------------------------------------------------------------------------
(* Properties. *)

\* Every variable has its type.
TypeOK ==
  /\ query \in Queries \cup {None}
  /\ submittedQuery \in (Queries \ Profane) \cup {None}
  /\ status \in {"idle", "loading", "success", "error"}
  /\ matches \in (Queries \ Profane) \cup {None}
  /\ validationError \in BOOLEAN
  /\ searches \in [Slots -> (Queries \ Profane) \cup {None}]
  /\ cleared \subseteq {s \in Slots : searches[s] # None}
  /\ strayed \in BOOLEAN

\* Results stand in the place of the grid just when a search has been submitted,
\* and are for the query they are labelled with, until a search that was cleared
\* away settles after all, also while others run that were cleared and have not;
\* and the next clear makes it good (useAISearch, AISearchResults).
ResultsMatchLabel ==
  ~strayed =>
    /\ status # "idle" <=> submittedQuery # None
    /\ status = "success" => matches = submittedQuery
    /\ status = "loading" <=> \E s \in Slots \ cleared : searches[s] # None

\* A search in progress ends (runSearch).
LoadingEnds == status = "loading" ~> status # "loading"
=============================================================================
