----------------------------- MODULE Subagents ------------------------------
(***************************************************************************)
(* The subagents a session shows as working (daemon/src/agents.ts and the  *)
(* agents part of session.ts).  There is no message that an agent is done. *)
(* An old CLI is followed by who was heard of lately; a newer one reports  *)
(* its whole set of tasks after each change (the level signal), and from   *)
(* then on that set counts.                                                *)
(***************************************************************************)
EXTENDS Naturals, FiniteSets

CONSTANTS
    Calls,      \* Agent tool calls, which stamp what a subagent writes
    Tasks       \* task ids, which the level signal reports

ASSUME SubagentsAssumption == Calls \cap Tasks = {}

VARIABLES
    agents,             \* ids in the session's map
    silent,             \* those not heard of for AGENT_ACTIVE_MS
    hasLevelSignal,     \* the CLI has reported its set
    agentTimer,         \* the interval that prunes silent agents runs
    lastAgentSignature, \* the set published last, {} for the empty string
    shown               \* the set that clients were told last

subagentsVars == <<agents, silent, hasLevelSignal, agentTimer, lastAgentSignature, shown>>

Ids == Calls \cup Tasks

-----------------------------------------------------------------------------

SubagentsInit ==
    /\ agents = {} /\ silent = {}
    /\ hasLevelSignal = FALSE
    /\ agentTimer = FALSE
    /\ lastAgentSignature = {}
    /\ shown = {}

(* showAgents of chat.js: the list is replaced by the one that came. *)
ShowAgents(list) == shown' = list

(* publishAgents: the active agents, when they are not what was published *)
(* last.                                                                  *)
PublishAgents(signature, as, inactive) ==
    LET live == as \ inactive IN
    IF live = signature
    THEN lastAgentSignature' = signature /\ UNCHANGED shown
    ELSE lastAgentSignature' = live /\ ShowAgents(live)

(* noteAgentActivity. *)
NoteAgentActivity(c) ==
    /\ agents' = agents \cup {c}
    /\ silent' = silent \ {c}
    /\ PublishAgents(lastAgentSignature, agents', silent')
    /\ agentTimer' = TRUE

(* An Agent call: noted whether or not the CLI reports its tasks. *)
Dispatch(c) ==
    /\ NoteAgentActivity(c)
    /\ UNCHANGED hasLevelSignal

(* A message written by a subagent. *)
Speaks(c) ==
    /\ ~hasLevelSignal
    /\ NoteAgentActivity(c)
    /\ UNCHANGED hasLevelSignal

(* background_tasks_changed replaces the set.  The signature is emptied    *)
(* first, which is also that of an empty set.                              *)
LevelSignal(tasks) ==
    /\ hasLevelSignal' = TRUE
    /\ agents' = tasks
    /\ silent' = silent \ tasks
    /\ PublishAgents({}, tasks, {})
    /\ UNCHANGED agentTimer

(* AGENT_ACTIVE_MS go by with nothing from an agent. *)
GoesQuiet(a) ==
    /\ a \in agents \ silent
    /\ silent' = silent \cup {a}
    /\ UNCHANGED <<agents, hasLevelSignal, agentTimer, lastAgentSignature, shown>>

Prune_TellsNobody ==
    /\ agentTimer /\ ~hasLevelSignal
    /\ agents' = agents \ silent
    /\ IF agents \cap silent # {} /\ agents' # {}
       THEN PublishAgents(lastAgentSignature, agents', {})
       ELSE UNCHANGED <<lastAgentSignature, shown>>
    /\ agentTimer' = (agents' # {})
    /\ UNCHANGED <<silent, hasLevelSignal>>

(* The interval: it leaves reported tasks alone, and ends with the last    *)
(* agent.                                                                  *)
Prune ==
    /\ agentTimer /\ ~hasLevelSignal
    /\ agents' = agents \ silent
    /\ IF agents \cap silent # {} THEN PublishAgents(lastAgentSignature, agents', {})
       ELSE UNCHANGED <<lastAgentSignature, shown>>
    /\ agentTimer' = (agents' # {})
    /\ UNCHANGED <<silent, hasLevelSignal>>

(* disposeActiveQuery: an empty map keeps the flag. *)
DisposeActiveQuery ==
    /\ agents # {}
    /\ agents' = {}
    /\ hasLevelSignal' = FALSE
    /\ PublishAgents(lastAgentSignature, {}, {})
    /\ UNCHANGED <<silent, agentTimer>>

SubagentsNext ==
    \/ \E c \in Calls : Dispatch(c)
    \/ \E c \in Calls : Speaks(c)
    \/ \E tasks \in SUBSET Tasks : LevelSignal(tasks)
    \/ \E a \in agents : GoesQuiet(a)
    \/ Prune
    \/ DisposeActiveQuery

(* The interval fires. *)
SubagentsFairness == WF_subagentsVars(Prune)

SubagentsSpec == SubagentsInit /\ [][SubagentsNext]_subagentsVars /\ SubagentsFairness

-----------------------------------------------------------------------------
(* Properties                                                              *)

SubagentsTypeOK ==
    /\ agents \cup silent \cup shown \cup lastAgentSignature \subseteq Ids
    /\ {hasLevelSignal, agentTimer} \subseteq BOOLEAN

(* "A wrong count fixes itself within one window instead of sticking": an  *)
(* agent that was only heard of, and fell silent, leaves the list that     *)
(* clients show, unless it speaks again or the CLI starts to report.       *)
Lingers(a) == a \in shown /\ a \in silent /\ ~hasLevelSignal

SilentAgentLeaves == \A a \in Calls : Lingers(a) ~> ~Lingers(a)

(* "A missed edge cannot leave a task showing as running forever": what    *)
(* the CLI does not report any more leaves the list that clients show.     *)
(* It does not when the report is of no task at all.                       *)
Outdated(a) == hasLevelSignal /\ a \in shown \ agents

EndedTaskLeaves == \A a \in Ids : Outdated(a) ~> ~Outdated(a)
=============================================================================
