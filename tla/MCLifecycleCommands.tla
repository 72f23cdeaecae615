------------------------ MODULE MCLifecycleCommands -------------------------
(***************************************************************************)
(* An instance of LifecycleCommands for TLC.  A behaviour follows one      *)
(* scenario, chosen in its initial state, that bounds the requests, the    *)
(* releases and the failures: commands failing among the requests of a     *)
(* session; commands killed among every kind of request; one command among *)
(* the requests of two clients; and updates overtaken by commands that do  *)
(* not fail.                                                               *)
(***************************************************************************)
EXTENDS LifecycleCommands

VARIABLE scenario

Limits ==
  [Failing |-> [kinds |-> {"query", "refresh"},
                ops |-> 3, requests |-> 1, releases |-> 2, raises |-> 1, kills |-> 0],
   Killed  |-> [kinds |-> Kinds,
                ops |-> 2, requests |-> 1, releases |-> 2, raises |-> 1, kills |-> 1],
   Sessions |-> [kinds |-> Kinds,
                 ops |-> 1, requests |-> 2, releases |-> 1, raises |-> 0, kills |-> 0],
   Updates |-> [kinds |-> {},
                ops |-> 3, requests |-> 0, releases |-> 3, raises |-> 0, kills |-> 0]]

FirstClient == CHOOSE c \in Clients : TRUE

Within ==
  /\ latest <= Limits[scenario].releases
  /\ \A what \in DOMAIN count : count[what] <= Limits[scenario][what]
  /\ \A c \in Clients :
       req[c].kind \in {"none"} \cup IF c = FirstClient \/ scenario = "Sessions"
                                    THEN Limits[scenario].kinds ELSE {}

MCInit == Init /\ scenario \in DOMAIN Limits
MCNext == Next /\ UNCHANGED scenario /\ Within'

MCSpec ==
  /\ MCInit /\ [][MCNext]_<<vars, scenario>>
  /\ \A u \in Users : WF_<<vars, scenario>>(Step(u) /\ UNCHANGED scenario)
  /\ \A c \in Clients : WF_<<vars, scenario>>(Serve(c) /\ UNCHANGED scenario)
=============================================================================
