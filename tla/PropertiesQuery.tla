-------------------------- MODULE PropertiesQuery --------------------------
(***************************************************************************)
(* The listings grid of the home page: HomePage keeps the filters,         *)
(* useDebouncedValue delays the typed ones, and useProperties fetches the  *)
(* listings in an effect that runs after a render in which its             *)
(* dependencies changed.  Fetches settle in any order; the cleanup of an   *)
(* effect tells its own fetch to be ignored.                               *)
(*                                                                         *)
(* The filters are a text (location and price, debounced) and a choice     *)
(* (type and bedrooms, not debounced).  The listings fetched are named by  *)
(* the filters they were fetched for.                                      *)
(***************************************************************************)
CONSTANTS
  Texts,
  Choices,
  NoText, NoChoice,  \* DEFAULT_FILTERS
  None,   \* no listings; a fetch slot that is free
  Slots,  \* bounds the fetches in flight
  Pending, Failed

Queries == [text : Texts, choice : Choices]

ASSUME DefaultsAssumption == NoText \in Texts /\ NoChoice \in Choices

ASSUME SentinelsAssumption ==
  /\ None \notin Queries \cup [query : Queries, cancelled : BOOLEAN]
  /\ Pending \notin Queries /\ Failed \notin Queries \cup {Pending}

VARIABLES
  filters,    \* HomePage: what the filter bar says
  debounced,  \* the text 400 ms after it stopped changing
  ran,        \* the dependencies of the effect when it last ran
  retried,    \* the retry button was pressed since then
  fetches,    \* the fetches in flight: what for, and whether to be ignored
  status,     \* useProperties: "loading", "success" or "error"
  items       \* useProperties: the filters the listings shown are for

vars == <<filters, debounced, ran, retried, fetches, status, items>>

-----------------------------------------------------------------------------

\* The dependencies of the effect as of the last render.
Input == [text |-> debounced, choice |-> filters.choice]

\* The fetches after the cleanup of the last effect.
CleanedUp ==
  [s \in Slots |-> IF fetches[s] = None THEN None
                                        ELSE [fetches[s] EXCEPT !.cancelled = TRUE]]

Fetch(q) == [query |-> q, cancelled |-> FALSE]

Type(text) ==
  /\ filters' = [filters EXCEPT !.text = text]
  /\ UNCHANGED <<debounced, ran, retried, fetches, status, items>>

Choose(choice) ==
  /\ filters' = [filters EXCEPT !.choice = choice]
  /\ UNCHANGED <<debounced, ran, retried, fetches, status, items>>

\* The timer that every change of the text replaces.
Debounce ==
  /\ debounced # filters.text
  /\ debounced' = filters.text
  /\ UNCHANGED <<filters, ran, retried, fetches, status, items>>

\* The button of ErrorState.
Retry ==
  /\ status = "error"
  /\ retried' = TRUE
  /\ UNCHANGED <<filters, debounced, ran, fetches, status, items>>

\* Mutant: the effect has no cleanup.
UncleanedRunEffect ==
  /\ Input # ran \/ retried
  /\ \E s \in Slots : /\ fetches[s] = None
                      /\ fetches' = [fetches EXCEPT ![s] = Fetch(Input)]
  /\ ran' = Input
  /\ retried' = FALSE
  /\ status' = "loading"
  /\ UNCHANGED <<filters, debounced, items>>

\* Mutant: the choice is missing from the dependencies.
ForgetfulRunEffect ==
  /\ Input.text # ran.text \/ retried
  /\ \E s \in Slots : /\ fetches[s] = None
                      /\ fetches' = [CleanedUp EXCEPT ![s] = Fetch(Input)]
  /\ ran' = Input
  /\ retried' = FALSE
  /\ status' = "loading"
  /\ UNCHANGED <<filters, debounced, items>>

\* The cleanup of the last effect and the next one.
RunEffect ==
  /\ Input # ran \/ retried
  /\ \E s \in Slots : /\ fetches[s] = None
                      /\ fetches' = [CleanedUp EXCEPT ![s] = Fetch(Input)]
  /\ ran' = Input
  /\ retried' = FALSE
  /\ status' = "loading"
  /\ UNCHANGED <<filters, debounced, items>>

Succeed(s) ==
  /\ fetches[s] # None
  /\ IF fetches[s].cancelled THEN UNCHANGED <<items, status>>
     ELSE items' = fetches[s].query /\ status' = "success"
  /\ fetches' = [fetches EXCEPT ![s] = None]
  /\ UNCHANGED <<filters, debounced, ran, retried>>

\* Mutant: the failure is kept in the place of the listings.
MisplacedFail(s) ==
  /\ fetches[s] # None
  /\ IF fetches[s].cancelled THEN UNCHANGED <<items, status>>
     ELSE items' = Failed /\ status' = "error"
  /\ fetches' = [fetches EXCEPT ![s] = None]
  /\ UNCHANGED <<filters, debounced, ran, retried>>

Fail(s) ==
  /\ fetches[s] # None
  /\ IF fetches[s].cancelled THEN UNCHANGED <<items, status>>
     ELSE items' = None /\ status' = "error"
  /\ fetches' = [fetches EXCEPT ![s] = None]
  /\ UNCHANGED <<filters, debounced, ran, retried>>

Defaults == [text |-> NoText, choice |-> NoChoice]

\* The user leaves the page and comes back: its state is new, its old fetches
\* are to be ignored.
Remount ==
  /\ filters' = Defaults
  /\ debounced' = NoText
  /\ ran' = Defaults
  /\ retried' = FALSE
  /\ \E s \in Slots : /\ fetches[s] = None
                      /\ fetches' = [CleanedUp EXCEPT ![s] = Fetch(Defaults)]
  /\ status' = "loading"
  /\ items' = None

-----------------------------------------------------------------------------

\* The page mounts: its first effect runs.
Init ==
  /\ filters = Defaults
  /\ debounced = NoText
  /\ ran = Defaults
  /\ retried = FALSE
  /\ \E s \in Slots : fetches = [x \in Slots |-> IF x = s THEN Fetch(Defaults) ELSE None]
  /\ status = "loading"
  /\ items = None

User ==
  \/ \E text \in Texts : Type(text)
  \/ \E choice \in Choices : Choose(choice)
  \/ Retry
  \/ Remount

Settle(s) == Succeed(s) \/ Fail(s)

Next == User \/ Debounce \/ RunEffect \/ \E s \in Slots : Settle(s)

Spec == Init /\ [][Next]_vars

\* The browser fires its timers, React runs the effects of a render, and every
\* fetch settles.
Fairness == WF_vars(Debounce) /\ WF_vars(RunEffect) /\ \A s \in Slots : WF_vars(Settle(s))

FairSpec == Spec /\ Fairness

-----------------------------------------------------------------------------
(* Properties. *)

\* Every variable has its type.
TypeOK ==
  /\ filters \in Queries
  /\ debounced \in Texts
  /\ ran \in Queries
  /\ retried \in BOOLEAN
  /\ fetches \in [Slots -> [query : Queries, cancelled : BOOLEAN] \cup {None}]
  /\ status \in {"loading", "success", "error"}
  /\ items \in Queries \cup {None}

\* The grid shows nothing, a failure, or the listings for the filters the last
\* effect ran with, whatever order the fetches settle in (useProperties).
Latest == INSTANCE LatestAnswer WITH
  wanted <- ran,
  shown <- CASE status = "loading" -> Pending
             [] status = "error"   -> Failed
             [] status = "success" -> items

ImplementsLatest == Latest!Spec

\* The grid shows the listings for what the filter bar says, or a failure.
Current == ran = filters /\ status # "loading" /\ (status = "success" => items = filters)

\* Once the user stops, the grid becomes current, and stays so (HomePage,
\* useDebouncedValue).
FiltersWin == <>[][~User]_vars => <>[]Current
=============================================================================
