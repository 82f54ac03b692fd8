---------------------------- MODULE IndexerStatus ----------------------------
(***************************************************************************)
(* How an indexer is disabled after errors and enabled again: the status   *)
(* in its IndexerConfig, written by the calls of parallel searches and of  *)
(* users who look at an NFO or details, by the task which cleans up, and   *)
(* by the user who saves the configuration.                                *)
(*                                                                         *)
(* Saving the configuration replaces the IndexerConfig object. A call goes *)
(* on writing to the object its Indexer was created with. Objects are      *)
(* numbered in the order in which they came to be.                         *)
(***************************************************************************)
EXTENDS Integers

CONSTANTS
    Calls,       \* calls to the indexer which run in parallel
    Outcomes,    \* how calls may end, see AllOutcomes
    MaxConfigs,  \* bound: IndexerConfig objects
    MaxLevel     \* bound: errors in a row

AllOutcomes == {"result", "apiError", "authError", "unreachable", "abandoned"}

ASSUME OutcomesAssumption == Outcomes \subseteq AllOutcomes
ASSUME BoundsAssumption == MaxConfigs \in Nat \ {0} /\ MaxLevel \in Nat

VARIABLES
    configs,   \* IndexerConfig: state, disabledLevel, disabledUntil
    created,   \* how many of them there are
    provided,  \* the one of ConfigProvider.getBaseConfig()
    instance,  \* the one of the Indexer in SearchModuleProvider
    page,      \* what the configuration page of a browser shows
    ignoring,  \* SearchingConfig.ignoreTemporarilyDisabled
    call,      \* the object each call writes to
    step,      \* where each call is
    inARow     \* history: errors of searches since the last answer, counted up to MaxLevel + 1

callVars == <<call, step>>
vars == <<configs, created, provided, instance, page, ignoring, callVars, inARow>>

States == {"ENABLED", "DISABLED_USER", "DISABLED_SYSTEM_TEMPORARY", "DISABLED_SYSTEM"}

\* disabledUntil is not set, in the future or in the past.
Status == [state : States, level : 0..MaxLevel, until : {"none", "future", "past"}]

Enabled == [state |-> "ENABLED", level |-> 0, until |-> "none"]

-----------------------------------------------------------------------------
(* Calls                                                                   *)

\* Mutant: a temporarily disabled indexer is only called after the clean up.
IsSelectableIfEnabled(s) == s.state = "ENABLED"

\* pickIndexers and checkIndexerStatus.
IsSelectable(s) ==
    \/ s.state = "ENABLED"
    \/ s.state = "DISABLED_SYSTEM_TEMPORARY" /\ s.until \in {"none", "past"}

\* The first call of a search, to an Indexer which was picked.
BeginCall(c) ==
    /\ step[c] \in {"idle", "answered"}
    /\ IsSelectable(configs[instance])
    /\ call' = [call EXCEPT ![c] = instance]
    /\ step' = [step EXCEPT ![c] = "asking"]
    /\ UNCHANGED <<configs, created, provided, instance, page, ignoring, inARow>>

\* A later round of the search or its continuation: the Indexer is the one picked first, the
\* state of which is not looked at again. After an error the search leaves it alone.
ContinueCall(c) ==
    /\ step[c] = "answered"
    /\ step' = [step EXCEPT ![c] = "asking"]
    /\ UNCHANGED <<configs, created, provided, instance, page, ignoring, call, inARow>>

\* A user wants the NFO or the details of a result. Nobody looks at the indexer's state.
BeginVisit(c) ==
    /\ step[c] \in {"idle", "answered"}
    /\ call' = [call EXCEPT ![c] = instance]
    /\ step' = [step EXCEPT ![c] = "visiting"]
    /\ UNCHANGED <<configs, created, provided, instance, page, ignoring, inARow>>

\* Mutant: the status is written to the current configuration of the indexer.
WrittenToCurrent(c) == instance

WrittenTo(c) == call[c]

HandleSuccess(c) == configs' = [configs EXCEPT ![WrittenTo(c)] = Enabled]

\* disabledUntil gets later with the level, which is all that the periods are about.
HandleFailure(c, disablePermanently) ==
    IF disablePermanently
    THEN configs' = [configs EXCEPT ![WrittenTo(c)].state = "DISABLED_SYSTEM"]
    ELSE IF ignoring
    THEN UNCHANGED configs
    ELSE /\ configs[WrittenTo(c)].level < MaxLevel
         /\ configs' = [configs EXCEPT ![WrittenTo(c)] =
                           [state |-> "DISABLED_SYSTEM_TEMPORARY", level |-> @.level + 1, until |-> "future"]]

CountError(c) ==
    inARow' = IF ignoring \/ inARow[call[c]] > MaxLevel THEN inARow
              ELSE [inARow EXCEPT ![call[c]] = @ + 1]

EndsAs(c, outcome) ==
    /\ outcome \in Outcomes
    /\ step[c] = "asking"
    /\ step' = [step EXCEPT ![c] = IF outcome = "result" THEN "answered" ELSE "idle"]

CallSucceeds(c) ==
    /\ EndsAs(c, "result")
    /\ HandleSuccess(c)
    /\ inARow' = [inARow EXCEPT ![call[c]] = 0]
    /\ UNCHANGED <<created, provided, instance, page, ignoring, call>>

\* The indexer's answer is an error. The access to it was successful nevertheless
\* (getAndStoreResultToDatabase), only then the answer is looked at.
ErrorAnswered(c, error) ==
    /\ error \in {"apiError", "authError"} \cap Outcomes
    /\ step[c] = "asking"
    /\ step' = [step EXCEPT ![c] = error]
    /\ HandleSuccess(c)
    /\ UNCHANGED <<created, provided, instance, page, ignoring, call, inARow>>

ErrorHandled(c) ==
    /\ step[c] \in {"apiError", "authError"}
    /\ HandleFailure(c, step[c] = "authError")
    /\ step' = [step EXCEPT ![c] = "idle"]
    /\ IF step[c] = "authError" THEN UNCHANGED inARow ELSE CountError(c)
    /\ UNCHANGED <<created, provided, instance, page, ignoring, call>>

\* No connection, a timeout, or an unexpected exception.
CallFails(c) ==
    /\ EndsAs(c, "unreachable")
    /\ HandleFailure(c, FALSE)
    /\ CountError(c)
    /\ UNCHANGED <<created, provided, instance, page, ignoring, call>>

\* The call was cancelled, or the error is the program's own: no status is written.
CallAbandoned(c) ==
    /\ EndsAs(c, "abandoned")
    /\ UNCHANGED <<configs, created, provided, instance, page, ignoring, call, inARow>>

\* Any answer is a success. An exception is caught by the caller, no status is written.
VisitEnds(c) ==
    /\ step[c] = "visiting"
    /\ step' = [step EXCEPT ![c] = "idle"]
    /\ \/ HandleSuccess(c) /\ inARow' = [inARow EXCEPT ![call[c]] = 0]
       \/ UNCHANGED <<configs, inARow>>
    /\ UNCHANGED <<created, provided, instance, page, ignoring, call>>

-----------------------------------------------------------------------------
(* The time, the clean up and the user                                     *)

TimePasses(g) ==
    /\ configs[g].until = "future"
    /\ configs' = [configs EXCEPT ![g].until = "past"]
    /\ UNCHANGED <<created, provided, instance, page, ignoring, callVars, inARow>>

\* Mutant: the state is cleared like the other fields.
StateAfterCleanupUnset == "none"

StateAfterCleanup == "ENABLED"

\* The level stays, another error has to disable the indexer for longer.
Cleanup ==
    /\ configs[provided].state = "DISABLED_SYSTEM_TEMPORARY"
    /\ configs[provided].until = "past"
    /\ configs' = [configs EXCEPT ![provided].state = StateAfterCleanup, ![provided].until = "none"]
    /\ UNCHANGED <<created, provided, instance, page, ignoring, callVars, inARow>>

OpenPage ==
    /\ page' = configs[provided]
    /\ UNCHANGED <<configs, created, provided, instance, ignoring, callVars, inARow>>

\* prepareForSaving resets what belongs to errors if the user enabled or disabled the
\* indexer, otherwise he saves what the page showed.
Prepared(state) ==
    IF state \in {"ENABLED", "DISABLED_USER"}
    THEN [state |-> state, level |-> 0, until |-> "none"]
    ELSE page

SaveConfig(state) ==
    /\ instance = provided
    /\ created < MaxConfigs
    /\ state \in {"ENABLED", "DISABLED_USER", page.state}
    /\ created' = created + 1
    /\ configs' = [configs EXCEPT ![created + 1] = Prepared(state)]
    /\ inARow' = [inARow EXCEPT ![created + 1] = Prepared(state).level]
    /\ provided' = created + 1
    /\ page' = Prepared(state)
    /\ ignoring' \in BOOLEAN
    /\ UNCHANGED <<instance, callVars>>

\* Searches get new Indexer objects, running ones keep theirs.
LoadIndexers ==
    /\ instance # provided
    /\ instance' = provided
    /\ UNCHANGED <<configs, created, provided, page, ignoring, callVars, inARow>>

-----------------------------------------------------------------------------

Init ==
    /\ configs = [g \in 1..MaxConfigs |-> Enabled]
    /\ created = 1
    /\ provided = 1
    /\ instance = 1
    /\ page = Enabled
    /\ ignoring \in BOOLEAN
    /\ call = [c \in Calls |-> 1]
    /\ step = [c \in Calls |-> "idle"]
    /\ inARow = [g \in 1..MaxConfigs |-> 0]

CallEnds(c) ==
    \/ CallSucceeds(c)
    \/ \E error \in {"apiError", "authError"} : ErrorAnswered(c, error)
    \/ ErrorHandled(c)
    \/ CallFails(c)
    \/ CallAbandoned(c)
    \/ VisitEnds(c)

Next ==
    \/ \E c \in Calls : BeginCall(c) \/ ContinueCall(c) \/ BeginVisit(c) \/ CallEnds(c)
    \/ \E g \in 1..created : TimePasses(g)
    \/ Cleanup
    \/ OpenPage
    \/ \E state \in States : SaveConfig(state)
    \/ LoadIndexers

\* Time passes and calls end because they have a timeout. Nothing needs the clean up.
Spec ==
    /\ Init /\ [][Next]_vars
    /\ \A g \in 1..MaxConfigs : WF_vars(TimePasses(g) /\ g <= created)
    /\ \A c \in Calls : WF_vars(CallEnds(c))
    /\ WF_vars(LoadIndexers)

-----------------------------------------------------------------------------
(* Correctness                                                             *)

\* Every object has a status the code could have written to it.
TypeOK ==
    /\ configs \in [1..MaxConfigs -> Status]
    /\ created \in 1..MaxConfigs
    /\ {provided, instance} \subseteq 1..created
    /\ page \in Status
    /\ ignoring \in BOOLEAN
    /\ call \in [Calls -> 1..created]
    /\ step \in [Calls -> {"idle", "asking", "answered", "apiError", "authError", "visiting"}]
    /\ inARow \in [1..MaxConfigs -> 0..(MaxLevel + 1)]

\* An indexer which the user disabled is not enabled by a search, not even by a call which
\* was running when he did or by a later round of a search which picked it before, nor is
\* it disabled by the system and then enabled by the clean up. The exception is the success
\* of a call for an NFO or details, of which the comment in Indexer.handleSuccess ("if the
\* user had disabled the indexer it wouldn't've been called") does not know.
UserDisabledStays ==
    [][\A g \in 1..created :
          configs[g].state = "DISABLED_USER" =>
              \/ configs'[g] = configs[g]
              \/ /\ configs'[g] = Enabled
                 /\ \E c \in Calls : call[c] = g /\ step[c] = "visiting" /\ step'[c] = "idle"]_vars

\* An indexer which was disabled temporarily can be used again some time, whatever
\* parallel calls, saved configurations and old pages do in between.
TemporaryDisableEnds ==
    configs[instance].state = "DISABLED_SYSTEM_TEMPORARY"
        ~> IsSelectable(configs[instance]) \/ configs[instance].state # "DISABLED_SYSTEM_TEMPORARY"

\* What the comment in IndexerStatusesCleanupTask says: when the indexer is called the
\* next time and an error occurs its level is increased and it's disabled for longer.
LevelCountsErrors ==
    (\A c \in Calls : step[c] # "apiError") => inARow[instance] <= configs[instance].level
=============================================================================
