--------------------------- MODULE AgentRegistry ---------------------------
(***************************************************************************)
(* The registries of specialists (lib/agent-registry.js).                  *)
(*                                                                         *)
(* A registry keeps the configuration of each specialist by its role, and  *)
(* two caches: the LLM clients, by role, mode and model, and the agents    *)
(* made from a configuration and a client, by role.  Every operation is    *)
(* synchronous, so that each is one action; the operations are called by   *)
(* the program that holds the registry and by the ChatAgents that use it   *)
(* (module SpecialistDelegation).                                          *)
(***************************************************************************)
EXTENDS Naturals, FiniteSets

CONSTANTS
    Registries,   \* AgentRegistry objects
    Roles,        \* roles of specialists
    Models,       \* llmMode and llmModelName of a configuration
    Generations,  \* generationConfig of a configuration
    None          \* an absent property

ASSUME NoneIsNothing == \A x \in Generations : x # None

Config == [model : Models, generation : Generations]

ASSUME NoneIsNoConfig == None \notin Config

VARIABLES
    specialistAgentsConfig,
    llmInstances,    \* the generationConfig each cached client was made with
    agentInstances   \* the configuration and the client's generationConfig

registryVars == <<specialistAgentsConfig, llmInstances, agentInstances>>

(* An agent the registry has made: from config, on a client with the       *)
(* model of config and generation.                                         *)
Instance == [config : Config, generation : Generations]

ASSUME NoneIsNoInstance == None \notin Instance

Configs == [Roles -> Config \cup {None}]

NoConfig == [role \in Roles |-> None]
NoAgents == [role \in Roles |-> None]
NoLLMs == [key \in Roles \X Models |-> None]

RegistryTypeOK ==
    /\ specialistAgentsConfig \in [Registries -> Configs]
    /\ llmInstances \in
          [Registries -> [Roles \X Models -> Generations \cup {None}]]
    /\ agentInstances \in [Registries -> [Roles -> Instance \cup {None}]]

RegistryInit ==
    /\ specialistAgentsConfig = [r \in Registries |-> NoConfig]
    /\ llmInstances = [r \in Registries |-> NoLLMs]
    /\ agentInstances = [r \in Registries |-> NoAgents]

getAvailableSpecialistRoles(r) ==
    {role \in Roles : specialistAgentsConfig[r][role] # None}

-----------------------------------------------------------------------------
(* new AgentRegistry(c), and setSpecialistAgentsConfig(c): both caches are *)
(* empty afterwards.                                                       *)
SetSpecialistAgentsConfig(r, c) ==
    /\ specialistAgentsConfig' = [specialistAgentsConfig EXCEPT ![r] = c]
    /\ llmInstances' = [llmInstances EXCEPT ![r] = NoLLMs]
    /\ agentInstances' = [agentInstances EXCEPT ![r] = NoAgents]

(* Mutant: the agent stays in the cache. *)
AgentKept(r, role) == UNCHANGED <<llmInstances, agentInstances>>

(* The caches of one role.  The clients are kept by role, mode and model,  *)
(* and what is deleted is the client of the role alone: there is none.     *)
DeleteCaches(r, role) ==
    /\ agentInstances' =
          [agentInstances EXCEPT ![r] = [agentInstances[r] EXCEPT ![role] = None]]
    /\ UNCHANGED llmInstances

RegisterSpecialist(r, role, c) ==
    /\ specialistAgentsConfig' = [specialistAgentsConfig EXCEPT
          ![r] = [specialistAgentsConfig[r] EXCEPT ![role] = c]]
    /\ DeleteCaches(r, role)

(* An unknown role changes nothing. *)
UnregisterSpecialist(r, role) ==
    IF specialistAgentsConfig[r][role] = None THEN UNCHANGED registryVars
    ELSE /\ specialistAgentsConfig' = [specialistAgentsConfig EXCEPT
               ![r] = [specialistAgentsConfig[r] EXCEPT ![role] = None]]
         /\ DeleteCaches(r, role)

(* _getSpecialistLLM: the cached client of the role, mode and model, or a  *)
(* new one; its generationConfig.                                          *)
SpecialistLLM(r, role) ==
    LET c == specialistAgentsConfig[r][role] IN
    IF llmInstances[r][<<role, c.model>>] = None THEN c.generation
    ELSE llmInstances[r][<<role, c.model>>]

NewAgent(r, role) ==
    [config |-> specialistAgentsConfig[r][role],
     generation |-> SpecialistLLM(r, role)]

(* The agent getSpecialistAgent returns: the cached one, or a new one. *)
SpecialistAgent(r, role, forceNew) ==
    IF forceNew \/ agentInstances[r][role] = None THEN NewAgent(r, role)
    ELSE agentInstances[r][role]

(* The client is made and kept only when an agent is made. *)
KeepLLM(r, role, forceNew) ==
    IF forceNew \/ agentInstances[r][role] = None
    THEN llmInstances' = [llmInstances EXCEPT
            ![r] = [llmInstances[r] EXCEPT
               ![<<role, specialistAgentsConfig[r][role].model>>] =
                  SpecialistLLM(r, role)]]
    ELSE UNCHANGED llmInstances

(* It throws for a role without a configuration. *)
GetSpecialistAgent(r, role, forceNew) ==
    /\ role \in getAvailableSpecialistRoles(r)
    /\ KeepLLM(r, role, forceNew)
    /\ agentInstances' = [agentInstances EXCEPT
          ![r] = [agentInstances[r] EXCEPT
             ![role] = SpecialistAgent(r, role, forceNew)]]
    /\ UNCHANGED specialistAgentsConfig

(* Mutant: the agents go on with clients that are no longer kept. *)
ClearClients(r) ==
    /\ llmInstances' = [llmInstances EXCEPT ![r] = NoLLMs]
    /\ UNCHANGED <<agentInstances, specialistAgentsConfig>>

ClearCache(r) ==
    /\ llmInstances' = [llmInstances EXCEPT ![r] = NoLLMs]
    /\ agentInstances' = [agentInstances EXCEPT ![r] = NoAgents]
    /\ UNCHANGED specialistAgentsConfig

(* What a program does with a registry it holds. *)
UseRegistry(r) ==
    \/ \E c \in Configs : SetSpecialistAgentsConfig(r, c)
    \/ \E role \in Roles, c \in Config : RegisterSpecialist(r, role, c)
    \/ \E role \in Roles : UnregisterSpecialist(r, role)
    \/ \E role \in Roles, forceNew \in BOOLEAN :
          GetSpecialistAgent(r, role, forceNew)
    \/ ClearCache(r)

RegistryNext == \E r \in Registries : UseRegistry(r)

RegistrySpec == RegistryInit /\ [][RegistryNext]_registryVars

-----------------------------------------------------------------------------
(* Whatever the calls, a cached agent is one of a registered role and was  *)
(* made from the configuration the role has now: a specialist that has     *)
(* been registered again or removed (agent-registry.js:75-79, 93-96) never *)
(* answers as it was before.                                               *)
CachedAgentsAreCurrent ==
    \A r \in Registries, role \in Roles :
        agentInstances[r][role] # None =>
            agentInstances[r][role].config = specialistAgentsConfig[r][role]

(* A cached agent works on the client that is cached for its role and      *)
(* model: a role never has two clients of one model in use by the agents   *)
(* the registry hands out ("Cache para reutilizar instâncias de LLM",      *)
(* agent-registry.js:21).                                                  *)
ClientsAreReused ==
    \A r \in Registries, role \in Roles :
        LET i == agentInstances[r][role] IN
        i # None => llmInstances[r][<<role, i.config.model>>] = i.generation
=============================================================================
