-------------------------- MODULE MCRegistrations ---------------------------
(***************************************************************************)
(* What the registration document holds, and how it is published: an       *)
(* instance of RegistrationUpdate for TLC (three modules, a function each) *)
(* and two of RefreshTransaction, of which the document is one file.  They *)
(* are not composed.                                                       *)
(*                                                                         *)
(* A behaviour follows one scenario, chosen in its initial state.  Those   *)
(* of RegistrationUpdate bound the files, the lines a function may be at,  *)
(* the edits and the damages: all three at their largest are out of TLC's  *)
(* reach.  Those of RefreshTransaction say which steps may raise and where *)
(* a process may be killed.                                                *)
(***************************************************************************)
EXTENDS RegistrationUpdate

CONSTANTS
    Proc, NoProc,
    Absent      \* the value of the variables that no component uses

VARIABLES
    scenario,
    file, linked, orig, staging, journal, owner, readers, pc, tx, view, nextGen, kills

refresh == <<file, linked, orig, staging, journal, owner, readers, pc, tx, view, nextGen, kills>>

MCPaths == <<"handlers", "routes", "views">>
MCModuleOf == [f \in {"handlers", "routes", "views"} |-> f]

Two == {"handlers", "routes"}
Limits == [Updates |-> [files |-> Two, line |-> 1, edits |-> 2, damages |-> 0],
           Lines   |-> [files |-> Two, line |-> 2, edits |-> 1, damages |-> 1],
           Routes  |-> [files |-> Files, line |-> 1, edits |-> 1, damages |-> 0]]

\* Every step up to the activation may raise.
Raise == INSTANCE RefreshTransaction WITH
    Python <- TRUE, SharedCache <- FALSE,
    Raising <- {"forward", "published"}, Killed <- {}, MaxGen <- 3, MaxKills <- 0

\* A process may be killed anywhere.
Kill == INSTANCE RefreshTransaction WITH
    Python <- TRUE, SharedCache <- FALSE, Raising <- {},
    Killed <- {"forward", "published", "commit", "rollback", "recovery", "idle"},
    MaxGen <- 3, MaxKills <- 1

Fits(t) ==
    \A f \in Present(t) :
        /\ f \in Limits[scenario].files
        /\ \A n \in Names : t[f].line[n] <= Limits[scenario].line
        /\ t[f].calls \subseteq Limits[scenario].files \X Names

----------------------------------------------------------------------------
NoRefresh ==
    /\ file = Absent /\ linked = Absent /\ orig = Absent /\ staging = Absent
    /\ journal = Absent /\ owner = Absent /\ readers = Absent /\ pc = Absent
    /\ tx = Absent /\ view = Absent /\ nextGen = Absent /\ kills = Absent

MCInit ==
    /\ Init
    /\ \/ scenario \in DOMAIN Limits /\ Fits(tree) /\ NoRefresh
       \/ scenario = "Raise" /\ tree = NoDocument.files /\ Raise!Init
       \/ scenario = "Kill" /\ tree = NoDocument.files /\ Kill!Init

NextUpdate ==
    /\ scenario \in DOMAIN Limits /\ Next /\ UNCHANGED <<scenario, refresh>>
    /\ Fits(tree') /\ edits' <= Limits[scenario].edits /\ damages' <= Limits[scenario].damages

In(s, Action) == scenario = s /\ Action /\ UNCHANGED <<scenario, vars>>

MCNext == NextUpdate \/ In("Raise", Raise!Next) \/ In("Kill", Kill!Next)

MCSpec == MCInit /\ [][MCNext]_<<vars, scenario, refresh>>

----------------------------------------------------------------------------
\* Without a journal the four files are one generation, whatever raises up to
\* the activation and wherever a process dies, and registrations are never
\* answered from another generation's index (the except block of
\* RefreshCoordinator.refresh, recover_refresh_transaction, activate_generation).
PublishedTogether ==
    /\ scenario = "Raise" => Raise!PublishedUniform
    /\ scenario = "Kill" => Kill!PublishedUniform /\ Kill!RegistrationBound
=============================================================================
