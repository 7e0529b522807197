------------------------ MODULE SpecialistDelegation ------------------------
(***************************************************************************)
(* The delegation of a ChatAgent to specialists (lib/chat-agent.js): its   *)
(* registry of specialists, the tool delegate_task_to_specialist that      *)
(* tells the LLM which roles there are, and the turns that delegate.       *)
(*                                                                         *)
(* A registry may be shared: the program gives it to the constructors of   *)
(* several agents and goes on using it itself (docs/chat-agent.md:413).    *)
(* The methods are synchronous; a turn awaits the LLM and the specialist,  *)
(* and anything may be called meanwhile.                                   *)
(***************************************************************************)
EXTENDS AgentRegistry

CONSTANTS
    Agents,     \* ChatAgents
    Turns,      \* calls of processUserMessage that may delegate
    Shared      \* the registries the program makes

ASSUME SharedRegistries == Shared \subseteq Registries
ASSUME NoneIsNoRegistry == None \notin Registries

VARIABLES
    used,          \* the registries made so far
    built,         \* the agents made so far
    agentRegistry,
    enabled,       \* specialistDelegationEnabled
    declared,      \* is the delegation tool one of tools
    tool,          \* the roles it names
    pc,            \* where each turn is
    agent,         \* the agent it runs on
    offered,       \* did its last request declare the tool
    specialist     \* the specialist it waits for

agentVars == <<used, built, agentRegistry, enabled, declared, tool>>
turnVars == <<pc, agent, offered, specialist>>
vars == <<registryVars, agentVars, turnVars>>

TypeOK ==
    /\ RegistryTypeOK
    /\ used \subseteq Registries
    /\ built \subseteq Agents
    /\ agentRegistry \in [Agents -> Registries \cup {None}]
    /\ enabled \in [Agents -> BOOLEAN]
    /\ declared \in [Agents -> BOOLEAN]
    /\ tool \in [Agents -> SUBSET Roles]
    /\ pc \in [Turns -> {"idle", "asked", "delegated", "done"}]
    /\ agent \in [Turns -> Agents \cup {None}]
    /\ offered \in [Turns -> BOOLEAN]
    /\ specialist \in [Turns -> Instance \cup {None}]

Init ==
    /\ RegistryInit
    /\ used = Shared
    /\ built = {}
    /\ agentRegistry = [a \in Agents |-> None]
    /\ enabled = [a \in Agents |-> FALSE]
    /\ declared = [a \in Agents |-> FALSE]
    /\ tool = [a \in Agents |-> {}]
    /\ pc = [t \in Turns |-> "idle"]
    /\ agent = [t \in Turns |-> None]
    /\ offered = [t \in Turns |-> FALSE]
    /\ specialist = [t \in Turns |-> None]

-----------------------------------------------------------------------------
(* The agent's methods.                                                    *)

RolesOf(c) == {role \in Roles : c[role] # None}

(* The tool is put among the tools, in the place of the old one. *)
DeclareTool(a, roles) ==
    /\ declared' = [declared EXCEPT ![a] = TRUE]
    /\ tool' = [tool EXCEPT ![a] = roles]

(* A registry made with configuration c becomes the agent's. *)
OwnRegistry(a, c) ==
    \E r \in Registries \ used :
        /\ used' = used \cup {r}
        /\ agentRegistry' = [agentRegistry EXCEPT ![a] = r]
        /\ SetSpecialistAgentsConfig(r, c)

(* Construction with enableSpecialistDelegation: with no specialists the   *)
(* delegation stays disabled, though the agent has the registry.           *)
ConstructGiven(a, r) ==
    /\ a \notin built /\ r \in Shared
    /\ built' = built \cup {a}
    /\ agentRegistry' = [agentRegistry EXCEPT ![a] = r]
    /\ IF getAvailableSpecialistRoles(r) = {}
       THEN UNCHANGED <<enabled, declared, tool>>
       ELSE /\ enabled' = [enabled EXCEPT ![a] = TRUE]
            /\ DeclareTool(a, getAvailableSpecialistRoles(r))
    /\ UNCHANGED <<registryVars, used, turnVars>>

ConstructOwn(a, c) ==
    /\ a \notin built
    /\ built' = built \cup {a}
    /\ OwnRegistry(a, c)
    /\ IF RolesOf(c) = {} THEN UNCHANGED <<enabled, declared, tool>>
       ELSE /\ enabled' = [enabled EXCEPT ![a] = TRUE]
            /\ DeclareTool(a, RolesOf(c))
    /\ UNCHANGED turnVars

(* Construction without it. *)
ConstructPlain(a) ==
    /\ a \notin built
    /\ built' = built \cup {a}
    /\ UNCHANGED <<registryVars, used, agentRegistry, enabled, declared,
                   tool, turnVars>>

(* The methods that change the specialists do nothing while the delegation *)
(* is disabled. *)
setSpecialistAgentsConfig(a, c) ==
    /\ enabled[a]
    /\ SetSpecialistAgentsConfig(agentRegistry[a], c)
    /\ DeclareTool(a, RolesOf(c))
    /\ UNCHANGED <<used, built, agentRegistry, enabled, turnVars>>

(* Mutant: the tool is only added, as in setSpecialistAgentsConfig. *)
ToolNotUpdated(a, roles) == UNCHANGED <<declared, tool>>

(* The tool is updated where it is one of the tools, and not added. *)
UpdateTool(a, roles) ==
    IF declared[a] THEN DeclareTool(a, roles) ELSE UNCHANGED <<declared, tool>>

registerSpecialist(a, role, c) ==
    /\ enabled[a]
    /\ RegisterSpecialist(agentRegistry[a], role, c)
    /\ UpdateTool(a,
          getAvailableSpecialistRoles(agentRegistry[a]) \cup {role})
    /\ UNCHANGED <<used, built, agentRegistry, enabled, turnVars>>

unregisterSpecialist(a, role) ==
    /\ enabled[a]
    /\ UnregisterSpecialist(agentRegistry[a], role)
    /\ UpdateTool(a, getAvailableSpecialistRoles(agentRegistry[a]) \ {role})
    /\ UNCHANGED <<used, built, agentRegistry, enabled, turnVars>>

(* Delegation enabled again always gets a registry of its own; the tool is *)
(* declared if there are specialists. Where it is enabled already, this is *)
(* setSpecialistAgentsConfig, or nothing.                                  *)
enableSpecialistDelegation(a, c) ==
    /\ a \in built /\ ~enabled[a]
    /\ OwnRegistry(a, c)
    /\ IF RolesOf(c) = {} THEN UNCHANGED <<declared, tool>>
       ELSE DeclareTool(a, RolesOf(c))
    /\ enabled' = [enabled EXCEPT ![a] = TRUE]
    /\ UNCHANGED <<built, turnVars>>

(* Mutant: the tool stays among the tools. *)
DisableOnly(a) ==
    /\ enabled[a]
    /\ enabled' = [enabled EXCEPT ![a] = FALSE]
    /\ UNCHANGED <<registryVars, used, built, agentRegistry, declared,
                   tool, turnVars>>

disableSpecialistDelegation(a) ==
    /\ enabled[a]
    /\ declared' = [declared EXCEPT ![a] = FALSE]
    /\ tool' = [tool EXCEPT ![a] = {}]
    /\ enabled' = [enabled EXCEPT ![a] = FALSE]
    /\ UNCHANGED <<registryVars, used, built, agentRegistry, turnVars>>

-----------------------------------------------------------------------------
(* The turns.                                                              *)

(* A request to the LLM goes out, with the tools the agent has now. *)
Ask(t, a) ==
    /\ offered' = [offered EXCEPT ![t] = declared[a]]
    /\ pc' = [pc EXCEPT ![t] = "asked"]
    /\ specialist' = [specialist EXCEPT ![t] = None]

processUserMessage(t, a) ==
    /\ pc[t] = "idle" /\ a \in built
    /\ agent' = [agent EXCEPT ![t] = a]
    /\ Ask(t, a)
    /\ UNCHANGED <<registryVars, agentVars>>

(* The role is checked when the LLM answers. *)
RoleIsAvailable(t, role) ==
    /\ enabled[agent[t]]
    /\ role \in getAvailableSpecialistRoles(agentRegistry[agent[t]])

(* The LLM calls the tool it was told of, with a role it knows or not; the *)
(* agent that works is the registry's.                                     *)
Delegate(t, role) ==
    /\ pc[t] = "asked" /\ offered[t]
    /\ RoleIsAvailable(t, role)
    /\ GetSpecialistAgent(agentRegistry[agent[t]], role, FALSE)
    /\ specialist' = [specialist EXCEPT
          ![t] = SpecialistAgent(agentRegistry[agent[t]], role, FALSE)]
    /\ pc' = [pc EXCEPT ![t] = "delegated"]
    /\ UNCHANGED <<agentVars, agent, offered>>

(* It is refused, and the LLM is asked again. *)
RefuseDelegation(t, role) ==
    /\ pc[t] = "asked" /\ offered[t]
    /\ ~RoleIsAvailable(t, role)
    /\ Ask(t, agent[t])
    /\ UNCHANGED <<registryVars, agentVars, agent>>

(* The specialist had no text: the LLM is asked again, with the error. *)
SpecialistFails(t) ==
    /\ pc[t] = "delegated"
    /\ Ask(t, agent[t])
    /\ UNCHANGED <<registryVars, agentVars, agent>>

(* The specialist's text, or the LLM's, is returned. *)
Return(t) ==
    /\ pc[t] \in {"asked", "delegated"}
    /\ pc' = [pc EXCEPT ![t] = "done"]
    /\ specialist' = [specialist EXCEPT ![t] = None]
    /\ UNCHANGED <<registryVars, agentVars, agent, offered>>

-----------------------------------------------------------------------------
(* The program uses the registries it made. *)
UseShared(r) ==
    /\ r \in Shared
    /\ UseRegistry(r)
    /\ UNCHANGED <<agentVars, turnVars>>

Configure(a) ==
    \/ \E r \in Registries : ConstructGiven(a, r)
    \/ \E c \in Configs : \/ ConstructOwn(a, c)
                          \/ setSpecialistAgentsConfig(a, c)
                          \/ enableSpecialistDelegation(a, c)
    \/ ConstructPlain(a)
    \/ \E role \in Roles, c \in Config : registerSpecialist(a, role, c)
    \/ \E role \in Roles : unregisterSpecialist(a, role)
    \/ disableSpecialistDelegation(a)

Turn(t) ==
    \/ \E a \in Agents : processUserMessage(t, a)
    \/ \E role \in Roles : Delegate(t, role) \/ RefuseDelegation(t, role)
    \/ SpecialistFails(t)
    \/ Return(t)

Next ==
    \/ \E a \in Agents : Configure(a)
    \/ \E t \in Turns : Turn(t)
    \/ \E r \in Registries : UseShared(r)

Spec == Init /\ [][Next]_vars

-----------------------------------------------------------------------------
(* Whatever the sequence of calls, the roles an agent that has a registry  *)
(* of its own names to the LLM are the roles it can delegate to: the tool  *)
(* follows the registry through every method (chat-agent.js:828-838,       *)
(* 859-866, 886-893, 947-965, 988-992).                                    *)
OwnToolIsCurrent ==
    \A a \in Agents :
        declared[a] /\ agentRegistry[a] \notin Shared
            => tool[a] = getAvailableSpecialistRoles(agentRegistry[a])

(* An agent declares the tool only while it executes it: the delegation is *)
(* enabled and has a registry (chat-agent.js:470, 479).                    *)
ToolIsExecuted ==
    \A a \in Agents :
        /\ declared[a] => enabled[a]
        /\ enabled[a] => agentRegistry[a] \in used

(* A specialist that is set to work is the one its role has in that moment *)
(* in the agent's registry, although the request that named the role may   *)
(* be older than the last change of the registry (chat-agent.js:479-488).  *)
DelegatesToCurrent ==
    [][\A t \in Turns :
          pc[t] = "asked" /\ pc'[t] = "delegated" =>
              /\ enabled[agent[t]]
              /\ \E role \in Roles : specialist'[t].config =
                    specialistAgentsConfig[agentRegistry[agent[t]]][role]]_vars
=============================================================================
