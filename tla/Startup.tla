------------------------------ MODULE Startup ------------------------------
(***************************************************************************)
(* What happens before a service serves, one story to a behaviour: goboot  *)
(* new writes the project, Load reads its configuration, and a rollout     *)
(* brings the database's schema up to date.  The three share no state; the *)
(* two stories that are not told stay in one of their initial states.      *)
(***************************************************************************)
EXTENDS Database, Scaffold, Config

VARIABLE story

rolloutVars == vars
startupVars == <<story, scaffoldVars, configVars, rolloutVars>>

StartupInit ==
    /\ story \in {"scaffold", "config", "rollout"}
    /\ Init /\ ScaffoldInit /\ ConfigInit

StartupNext ==
    \/ story = "scaffold" /\ ScaffoldNext /\ UNCHANGED <<story, configVars, rolloutVars>>
    \/ story = "config" /\ ConfigNext /\ UNCHANGED <<story, scaffoldVars, rolloutVars>>
    \/ story = "rollout" /\ Next /\ UNCHANGED <<story, scaffoldVars, configVars>>

StartupSpec == StartupInit /\ [][StartupNext]_startupVars

\* The state of each of the three keeps its types.
StartupTypeOK == TypeOK /\ ScaffoldTypeOK /\ ConfigTypeOK
=============================================================================
