-------------------- MODULE SpecialistDelegation_proofs --------------------
(***************************************************************************)
(* Proofs about the registries of specialists, and about the delegation to *)
(* specialists.                                                            *)
(*                                                                         *)
(* RegistryInv is inductive by itself: each operation of a registry either *)
(* empties the caches it makes stale or fills them from the configuration  *)
(* it reads.  Its lemmas, one for each operation, are used again where     *)
(* ChatAgents call the operations.  That an agent's tool names the roles   *)
(* of its own registry depends on two facts that IInv adds: two agents     *)
(* have one registry only if the program shares it, and an agent that is   *)
(* not built has nothing.                                                  *)
(***************************************************************************)
EXTENDS SpecialistDelegation, TLAPS

-----------------------------------------------------------------------------
(* The registries.                                                         *)

(* The invariants of the registries together. *)
RegistryInv == RegistryTypeOK /\ CachedAgentsAreCurrent /\ ClientsAreReused

(* A step that leaves the registries alone. *)
LEMMA RegistryStutterInv ==
    ASSUME RegistryInv, UNCHANGED registryVars
    PROVE  RegistryInv'
BY DEF registryVars, RegistryInv, RegistryTypeOK, CachedAgentsAreCurrent,
       ClientsAreReused

(* A registry that is made or configured anew has empty caches. *)
LEMMA SetKeepsInv ==
    ASSUME RegistryInv, NEW r \in Registries, NEW c \in Configs,
           SetSpecialistAgentsConfig(r, c)
    PROVE  RegistryInv'
<1>1. RegistryTypeOK'
  BY DEF RegistryInv, RegistryTypeOK, SetSpecialistAgentsConfig, NoLLMs, NoAgents
<1>2. ASSUME NEW q \in Registries, NEW role \in Roles,
             agentInstances'[q][role] # None
      PROVE  /\ q # r
             /\ agentInstances'[q] = agentInstances[q]
             /\ llmInstances'[q] = llmInstances[q]
             /\ specialistAgentsConfig'[q] = specialistAgentsConfig[q]
  BY <1>2 DEF RegistryInv, RegistryTypeOK, SetSpecialistAgentsConfig, NoAgents
<1>3. CachedAgentsAreCurrent' /\ ClientsAreReused'
  BY <1>2 DEF RegistryInv, CachedAgentsAreCurrent, ClientsAreReused
<1> QED BY <1>1, <1>3 DEF RegistryInv

(* A role that is registered again or removed loses its cached agent. *)
LEMMA ChangeKeepsInv ==
    ASSUME RegistryInv, NEW r \in Registries, NEW role \in Roles,
           NEW c \in Config \cup {None},
           specialistAgentsConfig' = [specialistAgentsConfig EXCEPT
              ![r] = [specialistAgentsConfig[r] EXCEPT ![role] = c]],
           DeleteCaches(r, role)
    PROVE  RegistryInv'
<1>1. RegistryTypeOK'
  BY DEF RegistryInv, RegistryTypeOK, DeleteCaches, Configs
<1>2. ASSUME NEW q \in Registries, NEW x \in Roles,
             agentInstances'[q][x] # None
      PROVE  /\ agentInstances'[q][x] = agentInstances[q][x]
             /\ llmInstances' = llmInstances
             /\ specialistAgentsConfig'[q][x] = specialistAgentsConfig[q][x]
  <2>1. CASE q = r /\ x = role
    BY <1>2, <2>1 DEF RegistryInv, RegistryTypeOK, DeleteCaches
  <2>2. CASE q = r /\ x # role
    BY <2>2 DEF RegistryInv, RegistryTypeOK, DeleteCaches, Configs
  <2>3. CASE q # r
    BY <2>3 DEF RegistryInv, RegistryTypeOK, DeleteCaches, Configs
  <2> QED BY <2>1, <2>2, <2>3
<1>3. CachedAgentsAreCurrent' /\ ClientsAreReused'
  BY <1>2 DEF RegistryInv, CachedAgentsAreCurrent, ClientsAreReused
<1> QED BY <1>1, <1>3 DEF RegistryInv

LEMMA RegisterKeepsInv ==
    ASSUME RegistryInv, NEW r \in Registries, NEW role \in Roles,
           NEW c \in Config, RegisterSpecialist(r, role, c)
    PROVE  RegistryInv'
BY ChangeKeepsInv DEF RegisterSpecialist

LEMMA UnregisterKeepsInv ==
    ASSUME RegistryInv, NEW r \in Registries, NEW role \in Roles,
           UnregisterSpecialist(r, role)
    PROVE  RegistryInv'
<1>1. CASE specialistAgentsConfig[r][role] = None
  BY <1>1, RegistryStutterInv DEF UnregisterSpecialist
<1>2. CASE specialistAgentsConfig[r][role] # None
  BY <1>2, ChangeKeepsInv DEF UnregisterSpecialist
<1> QED BY <1>1, <1>2

(* The agent handed out has the configuration of its role, and its client  *)
(* is the one kept for the role and its model.                             *)
LEMMA HandedOut ==
    ASSUME RegistryInv, NEW r \in Registries, NEW role \in Roles,
           NEW forceNew \in BOOLEAN,
           role \in getAvailableSpecialistRoles(r),
           KeepLLM(r, role, forceNew)
    PROVE  LET i == SpecialistAgent(r, role, forceNew)
           IN  /\ i \in Instance
               /\ i.config = specialistAgentsConfig[r][role]
               /\ llmInstances'[r][<<role, i.config.model>>] = i.generation
<1> DEFINE c == specialistAgentsConfig[r][role]
<1>1. c \in Config
  BY DEF RegistryInv, RegistryTypeOK, Configs, getAvailableSpecialistRoles
<1>2. c.model \in Models /\ c.generation \in Generations
  BY <1>1 DEF Config
<1>3. SpecialistLLM(r, role) \in Generations
  BY <1>2 DEF SpecialistLLM, RegistryInv, RegistryTypeOK
<1>4. CASE forceNew \/ agentInstances[r][role] = None
  <2>1. SpecialistAgent(r, role, forceNew) =
          [config |-> c, generation |-> SpecialistLLM(r, role)]
    BY <1>4 DEF SpecialistAgent, NewAgent
  <2>2. llmInstances'[r][<<role, c.model>>] = SpecialistLLM(r, role)
    BY <1>2, <1>4 DEF KeepLLM, RegistryInv, RegistryTypeOK
  <2> QED BY <1>1, <1>3, <2>1, <2>2 DEF Instance
<1>5. CASE ~(forceNew \/ agentInstances[r][role] = None)
  <2>1. /\ SpecialistAgent(r, role, forceNew) = agentInstances[r][role]
        /\ llmInstances' = llmInstances
    BY <1>5 DEF SpecialistAgent, KeepLLM
  <2>2. agentInstances[r][role] \in Instance
    BY <1>5 DEF RegistryInv, RegistryTypeOK
  <2> QED BY <1>5, <2>1, <2>2 DEF RegistryInv, CachedAgentsAreCurrent,
                                   ClientsAreReused
<1> QED BY <1>4, <1>5

LEMMA GetKeepsInv ==
    ASSUME RegistryInv, NEW r \in Registries, NEW role \in Roles,
           NEW forceNew \in BOOLEAN, GetSpecialistAgent(r, role, forceNew)
    PROVE  RegistryInv'
<1> DEFINE i == SpecialistAgent(r, role, forceNew)
           c == specialistAgentsConfig[r][role]
<1>1. /\ role \in getAvailableSpecialistRoles(r)
      /\ KeepLLM(r, role, forceNew)
      /\ specialistAgentsConfig' = specialistAgentsConfig
      /\ agentInstances' = [agentInstances EXCEPT
            ![r] = [agentInstances[r] EXCEPT ![role] = i]]
  BY DEF GetSpecialistAgent
<1>2. /\ i \in Instance
      /\ i.config = c
      /\ llmInstances'[r][<<role, i.config.model>>] = i.generation
  BY <1>1, HandedOut
<1>3. c \in Config /\ c.model \in Models /\ c.generation \in Generations
  BY <1>1 DEF RegistryInv, RegistryTypeOK, Configs, Config,
              getAvailableSpecialistRoles
<1>4. SpecialistLLM(r, role) \in Generations
  BY <1>3 DEF SpecialistLLM, RegistryInv, RegistryTypeOK
<1>5. RegistryTypeOK'
  <2>1. agentInstances' \in [Registries -> [Roles -> Instance \cup {None}]]
    BY <1>1, <1>2 DEF RegistryInv, RegistryTypeOK
  <2>2. llmInstances' \in
          [Registries -> [Roles \X Models -> Generations \cup {None}]]
    <3>1. CASE forceNew \/ agentInstances[r][role] = None
      <4> DEFINE k == <<role, c.model>>
                 g == SpecialistLLM(r, role)
                 row == [llmInstances[r] EXCEPT ![k] = g]
      <4>1. llmInstances' = [llmInstances EXCEPT ![r] = row]
        BY <1>1, <3>1 DEF KeepLLM
      <4>2. /\ llmInstances \in
                  [Registries -> [Roles \X Models -> Generations \cup {None}]]
            /\ k \in Roles \X Models
            /\ g \in Generations
        BY <1>3, <1>4 DEF RegistryInv, RegistryTypeOK
      <4> HIDE DEF k, g
      <4>3. row \in [Roles \X Models -> Generations \cup {None}]
        BY <4>2
      <4> QED BY <4>1, <4>2, <4>3
    <3>2. CASE ~(forceNew \/ agentInstances[r][role] = None)
      BY <1>1, <3>2 DEF KeepLLM, RegistryInv, RegistryTypeOK
    <3> QED BY <3>1, <3>2
  <2> QED BY <1>1, <2>1, <2>2 DEF RegistryInv, RegistryTypeOK
<1>6. ASSUME NEW q \in Registries, NEW x \in Roles, q # r \/ x # role
      PROVE  /\ agentInstances'[q][x] = agentInstances[q][x]
             /\ \A m \in Models :
                   llmInstances'[q][<<x, m>>] = llmInstances[q][<<x, m>>]
  <2>1. agentInstances'[q][x] = agentInstances[q][x]
    BY <1>1, <1>6 DEF RegistryInv, RegistryTypeOK
  <2>2. ASSUME NEW m \in Models
        PROVE  llmInstances'[q][<<x, m>>] = llmInstances[q][<<x, m>>]
    BY <1>1, <1>3, <1>6 DEF KeepLLM, RegistryInv, RegistryTypeOK
  <2> QED BY <2>1, <2>2
<1>7. ASSUME NEW q \in Registries, NEW x \in Roles,
             agentInstances'[q][x] # None
      PROVE  /\ agentInstances'[q][x].config = specialistAgentsConfig'[q][x]
             /\ llmInstances'[q][<<x, agentInstances'[q][x].config.model>>] =
                   agentInstances'[q][x].generation
  <2>1. CASE q = r /\ x = role
    <3>1. agentInstances'[q][x] = i
      BY <1>1, <2>1 DEF RegistryInv, RegistryTypeOK
    <3> QED BY <1>1, <1>2, <2>1, <3>1
  <2>2. CASE q # r \/ x # role
    <3>1. /\ agentInstances'[q][x] = agentInstances[q][x]
          /\ \A m \in Models :
                llmInstances'[q][<<x, m>>] = llmInstances[q][<<x, m>>]
      BY <1>6, <2>2
    <3>2. agentInstances[q][x].config.model \in Models
      BY <1>7, <3>1 DEF RegistryInv, RegistryTypeOK, Instance, Config
    <3> QED BY <1>1, <1>7, <3>1, <3>2 DEF RegistryInv,
               CachedAgentsAreCurrent, ClientsAreReused
  <2> QED BY <2>1, <2>2
<1> QED BY <1>5, <1>7 DEF RegistryInv, CachedAgentsAreCurrent, ClientsAreReused

LEMMA ClearCacheKeepsInv ==
    ASSUME RegistryInv, NEW r \in Registries, ClearCache(r)
    PROVE  RegistryInv'
<1>1. RegistryTypeOK'
  BY DEF RegistryInv, RegistryTypeOK, ClearCache, NoLLMs, NoAgents
<1>2. ASSUME NEW q \in Registries, NEW role \in Roles,
             agentInstances'[q][role] # None
      PROVE  /\ agentInstances'[q] = agentInstances[q]
             /\ llmInstances'[q] = llmInstances[q]
             /\ specialistAgentsConfig' = specialistAgentsConfig
  BY <1>2 DEF RegistryInv, RegistryTypeOK, ClearCache, NoAgents
<1>3. CachedAgentsAreCurrent' /\ ClientsAreReused'
  BY <1>2 DEF RegistryInv, CachedAgentsAreCurrent, ClientsAreReused
<1> QED BY <1>1, <1>3 DEF RegistryInv

LEMMA UseKeepsInv ==
    ASSUME RegistryInv, NEW r \in Registries, UseRegistry(r)
    PROVE  RegistryInv'
<1>1. ASSUME NEW c \in Configs, SetSpecialistAgentsConfig(r, c)
      PROVE  RegistryInv'
  BY <1>1, SetKeepsInv
<1>2. ASSUME NEW role \in Roles, NEW c \in Config,
             RegisterSpecialist(r, role, c)
      PROVE  RegistryInv'
  BY <1>2, RegisterKeepsInv
<1>3. ASSUME NEW role \in Roles, UnregisterSpecialist(r, role)
      PROVE  RegistryInv'
  BY <1>3, UnregisterKeepsInv
<1>4. ASSUME NEW role \in Roles, NEW forceNew \in BOOLEAN,
             GetSpecialistAgent(r, role, forceNew)
      PROVE  RegistryInv'
  BY <1>4, GetKeepsInv
<1>5. ASSUME ClearCache(r) PROVE RegistryInv'
  BY <1>5, ClearCacheKeepsInv
<1> QED BY <1>1, <1>2, <1>3, <1>4, <1>5 DEF UseRegistry

LEMMA RegistryInitInv ==
    ASSUME RegistryInit
    PROVE  RegistryInv
BY DEF RegistryInit, RegistryInv, RegistryTypeOK, CachedAgentsAreCurrent,
       ClientsAreReused, NoConfig, NoLLMs, NoAgents, Configs

(* The three invariants hold of the registries whatever calls are made. *)
THEOREM RegistryInvariance == RegistrySpec => []RegistryInv
<1>1. RegistryInit => RegistryInv
  BY RegistryInitInv
<1>2. RegistryInv /\ [RegistryNext]_registryVars => RegistryInv'
  BY UseKeepsInv, RegistryStutterInv DEF RegistryNext
<1> QED BY <1>1, <1>2, PTL DEF RegistrySpec

(* A specialist that was registered again or removed never answers as it   *)
(* was before (agent-registry.js:75-79, 93-96).                            *)
THEOREM AgentsAreCurrent == RegistrySpec => []CachedAgentsAreCurrent
<1>1. RegistryInv => CachedAgentsAreCurrent
  BY DEF RegistryInv
<1> QED BY <1>1, RegistryInvariance, PTL

(* Cached agents work on cached clients (agent-registry.js:141-154). *)
THEOREM ClientsReused == RegistrySpec => []ClientsAreReused
<1>1. RegistryInv => ClientsAreReused
  BY DEF RegistryInv
<1> QED BY <1>1, RegistryInvariance, PTL

-----------------------------------------------------------------------------
(* The agents and their turns.                                             *)

(* A registry an agent made is no other agent's. *)
OwnRegistriesArePrivate ==
    \A a, b \in Agents :
        (a # b /\ agentRegistry[a] = agentRegistry[b] /\ agentRegistry[a] #
        None)
            => agentRegistry[a] \in Shared

(* Registries in use have been made, the shared ones at the start. *)
RegistriesAreMade ==
    /\ Shared \subseteq used
    /\ \A a \in Agents : agentRegistry[a] \in used \cup {None}

UnbuiltHaveNothing ==
    \A a \in Agents \ built : ~enabled[a] /\ ~declared[a]

(* A turn that has begun has an agent. *)
TurnsHaveAgents == \A t \in Turns : pc[t] # "idle" => agent[t] \in Agents

IInv ==
    /\ TypeOK
    /\ RegistryInv
    /\ RegistriesAreMade
    /\ OwnRegistriesArePrivate
    /\ UnbuiltHaveNothing
    /\ TurnsHaveAgents
    /\ ToolIsExecuted
    /\ OwnToolIsCurrent

(* The parts of IInv about the agents. *)
AgentsInv ==
    /\ RegistriesAreMade
    /\ OwnRegistriesArePrivate
    /\ UnbuiltHaveNothing
    /\ ToolIsExecuted
    /\ OwnToolIsCurrent

AgentsTypeOK ==
    /\ used \subseteq Registries
    /\ built \subseteq Agents
    /\ agentRegistry \in [Agents -> Registries \cup {None}]
    /\ enabled \in [Agents -> BOOLEAN]
    /\ declared \in [Agents -> BOOLEAN]
    /\ tool \in [Agents -> SUBSET Roles]

TurnsTypeOK ==
    /\ pc \in [Turns -> {"idle", "asked", "delegated", "done"}]
    /\ agent \in [Turns -> Agents \cup {None}]
    /\ offered \in [Turns -> BOOLEAN]
    /\ specialist \in [Turns -> Instance \cup {None}]

TurnsInv == TurnsTypeOK /\ TurnsHaveAgents

LEMMA TypeParts == TypeOK <=> RegistryTypeOK /\ AgentsTypeOK /\ TurnsTypeOK
BY DEF TypeOK, AgentsTypeOK, TurnsTypeOK

LEMMA InvParts == IInv <=> RegistryInv /\ AgentsTypeOK /\ TurnsInv /\ AgentsInv
BY TypeParts DEF IInv, AgentsInv, TurnsInv, RegistryInv

(* Roles of a registry after a step that changes one registry's            *)
(* configuration.                                                          *)
LEMMA OthersKeepRoles ==
    ASSUME RegistryTypeOK, NEW r \in Registries, NEW c,
           specialistAgentsConfig' = [specialistAgentsConfig EXCEPT ![r] = c],
           NEW q \in Registries, q # r
    PROVE  getAvailableSpecialistRoles(q)' = getAvailableSpecialistRoles(q)
BY DEF RegistryTypeOK, getAvailableSpecialistRoles

LEMMA RolesSet ==
    ASSUME RegistryTypeOK, NEW r \in Registries, NEW c \in Configs,
           SetSpecialistAgentsConfig(r, c)
    PROVE  /\ getAvailableSpecialistRoles(r)' = RolesOf(c)
           /\ \A q \in Registries \ {r} :
                 getAvailableSpecialistRoles(q)' =
                 getAvailableSpecialistRoles(q)
BY OthersKeepRoles
   DEF RegistryTypeOK, SetSpecialistAgentsConfig, getAvailableSpecialistRoles,
       RolesOf

LEMMA RolesRegistered ==
    ASSUME RegistryTypeOK, NEW r \in Registries, NEW role \in Roles,
           NEW c \in Config, RegisterSpecialist(r, role, c)
    PROVE  /\ getAvailableSpecialistRoles(r)'
                 = getAvailableSpecialistRoles(r) \cup {role}
           /\ \A q \in Registries \ {r} :
                 getAvailableSpecialistRoles(q)' =
                 getAvailableSpecialistRoles(q)
<1>1. specialistAgentsConfig'[r] = [specialistAgentsConfig[r] EXCEPT ![role] =
c]
  BY DEF RegistryTypeOK, RegisterSpecialist
<1>2. specialistAgentsConfig[r] \in [Roles -> Config \cup {None}]
  BY DEF RegistryTypeOK, Configs
<1>3. c # None
  BY NoneIsNoConfig
<1>4. getAvailableSpecialistRoles(r)'
          = getAvailableSpecialistRoles(r) \cup {role}
  BY <1>1, <1>2, <1>3 DEF getAvailableSpecialistRoles
<1> QED BY <1>4, OthersKeepRoles DEF RegisterSpecialist

LEMMA RolesUnregistered ==
    ASSUME RegistryTypeOK, NEW r \in Registries, NEW role \in Roles,
           UnregisterSpecialist(r, role)
    PROVE  /\ getAvailableSpecialistRoles(r)'
                 = getAvailableSpecialistRoles(r) \ {role}
           /\ \A q \in Registries \ {r} :
                 getAvailableSpecialistRoles(q)' =
                 getAvailableSpecialistRoles(q)
<1>1. CASE specialistAgentsConfig[r][role] = None
  BY <1>1 DEF UnregisterSpecialist, registryVars, getAvailableSpecialistRoles
<1>2. CASE specialistAgentsConfig[r][role] # None
  <2>1. specialistAgentsConfig'[r] =
          [specialistAgentsConfig[r] EXCEPT ![role] = None]
    BY <1>2 DEF RegistryTypeOK, UnregisterSpecialist
  <2>2. specialistAgentsConfig[r] \in [Roles -> Config \cup {None}]
    BY DEF RegistryTypeOK, Configs
  <2>3. getAvailableSpecialistRoles(r)'
          = getAvailableSpecialistRoles(r) \ {role}
    BY <2>1, <2>2 DEF getAvailableSpecialistRoles
  <2> QED BY <1>2, <2>3, OthersKeepRoles DEF UnregisterSpecialist
<1> QED BY <1>1, <1>2

-----------------------------------------------------------------------------
(* The agent that changes its registry renews its tool, if it has one; the *)
(* other agents that have the registry share it.                           *)
LEMMA ChangeOfOwnRegistry ==
    ASSUME AgentsTypeOK, AgentsInv,
           NEW a \in Agents, enabled[a], NEW roles \in SUBSET Roles,
           UNCHANGED <<used, built, agentRegistry, enabled>>,
           roles = getAvailableSpecialistRoles(agentRegistry[a])',
           \A q \in Registries \ {agentRegistry[a]} :
              getAvailableSpecialistRoles(q)' = getAvailableSpecialistRoles(q),
           \/ DeclareTool(a, roles)
           \/ ~declared[a] /\ UNCHANGED <<declared, tool>>
    PROVE  AgentsTypeOK' /\ AgentsInv'
<1>1. AgentsTypeOK'
  BY DEF AgentsTypeOK, DeclareTool
<1>2. RegistriesAreMade' /\ OwnRegistriesArePrivate'
  BY DEF AgentsInv, RegistriesAreMade, OwnRegistriesArePrivate
<1>3. a \in built
  BY DEF AgentsInv, UnbuiltHaveNothing
<1>4. \A b \in Agents \ {a} :
         declared'[b] = declared[b] /\ tool'[b] = tool[b]
  BY DEF AgentsTypeOK, DeclareTool
<1>5. UnbuiltHaveNothing' /\ ToolIsExecuted'
  BY <1>3, <1>4 DEF AgentsInv, UnbuiltHaveNothing, ToolIsExecuted
<1>6. ASSUME NEW b \in Agents, declared'[b], agentRegistry'[b] \notin Shared
      PROVE  tool'[b] = getAvailableSpecialistRoles(agentRegistry[b])'
  <2>1. CASE b = a
    BY <1>6, <2>1 DEF AgentsTypeOK, DeclareTool
  <2>2. CASE b # a
    <3>1. declared[b] /\ tool'[b] = tool[b]
      BY <1>4, <1>6, <2>2
    <3>2. agentRegistry[b] \in Registries \ {agentRegistry[a]}
      <4>1. agentRegistry[b] \in Registries
        BY <3>1 DEF AgentsTypeOK, AgentsInv, ToolIsExecuted
      <4>2. agentRegistry[b] # None
        BY <4>1, NoneIsNoRegistry
      <4> QED BY <1>6, <2>2, <4>1, <4>2 DEF AgentsInv, OwnRegistriesArePrivate
    <3>3. tool[b] = getAvailableSpecialistRoles(agentRegistry[b])
      BY <1>6, <3>1 DEF AgentsInv, OwnToolIsCurrent
    <3>4. getAvailableSpecialistRoles(agentRegistry[b])'
             = getAvailableSpecialistRoles(agentRegistry[b])
      BY <3>2
    <3> QED BY <3>1, <3>3, <3>4
  <2> QED BY <2>1, <2>2
<1>7. OwnToolIsCurrent'
  BY <1>6 DEF OwnToolIsCurrent
<1> QED BY <1>1, <1>2, <1>5, <1>7 DEF AgentsInv

(* An agent whose delegation is disabled gets a registry nobody has. *)
LEMMA ChangeToNewRegistry ==
    ASSUME RegistryTypeOK, AgentsTypeOK, AgentsInv,
           NEW a \in Agents, a \in built', ~enabled[a], NEW c \in Configs,
           OwnRegistry(a, c),
           built' \in {built, built \cup {a}},
           \/ /\ enabled' = [enabled EXCEPT ![a] = TRUE]
              /\ \/ DeclareTool(a, RolesOf(c))
                 \/ UNCHANGED <<declared, tool>>
           \/ UNCHANGED <<enabled, declared, tool>>
    PROVE  AgentsTypeOK' /\ AgentsInv'
<1>0. PICK r \in Registries \ used :
         /\ used' = used \cup {r}
         /\ agentRegistry' = [agentRegistry EXCEPT ![a] = r]
         /\ SetSpecialistAgentsConfig(r, c)
  BY DEF OwnRegistry
<1>1. AgentsTypeOK'
  BY <1>0 DEF AgentsTypeOK, DeclareTool, RolesOf
<1>2. ~declared[a]
  BY DEF AgentsInv, ToolIsExecuted
<1>3. /\ agentRegistry'[a] = r
      /\ \A b \in Agents \ {a} :
            /\ agentRegistry'[b] = agentRegistry[b]
            /\ agentRegistry[b] # r
            /\ enabled'[b] = enabled[b]
            /\ declared'[b] = declared[b]
            /\ tool'[b] = tool[b]
  <2>1. r # None
    BY NoneIsNoRegistry
  <2> QED BY <1>0, <2>1 DEF AgentsTypeOK, AgentsInv, RegistriesAreMade,
                            DeclareTool
<1>4. RegistriesAreMade'
  BY <1>0, <1>3 DEF AgentsInv, RegistriesAreMade
<1>5. OwnRegistriesArePrivate'
  BY <1>3 DEF AgentsInv, OwnRegistriesArePrivate
<1>6. UnbuiltHaveNothing'
  BY <1>3 DEF AgentsInv, UnbuiltHaveNothing
<1>7. ToolIsExecuted'
  BY <1>0, <1>2, <1>3 DEF AgentsTypeOK, AgentsInv, ToolIsExecuted, DeclareTool
<1>8. ASSUME NEW b \in Agents, declared'[b], agentRegistry'[b] \notin Shared
      PROVE  tool'[b] = getAvailableSpecialistRoles(agentRegistry[b])'
  <2>1. CASE b = a
    <3>1. tool'[a] = RolesOf(c)
      BY <1>2, <1>8, <2>1 DEF AgentsTypeOK, DeclareTool
    <3>2. getAvailableSpecialistRoles(r)' = RolesOf(c)
      BY <1>0, RolesSet
    <3> QED BY <1>3, <2>1, <3>1, <3>2 DEF getAvailableSpecialistRoles
  <2>2. CASE b # a
    <3>1. /\ declared[b] /\ tool'[b] = tool[b]
          /\ agentRegistry'[b] = agentRegistry[b]
          /\ agentRegistry[b] # r
      BY <1>3, <1>8, <2>2
    <3>2. agentRegistry[b] \in Registries \ {r}
      BY <3>1 DEF AgentsTypeOK, AgentsInv, ToolIsExecuted
    <3>3. getAvailableSpecialistRoles(agentRegistry[b])'
             = getAvailableSpecialistRoles(agentRegistry[b])
      <4>1. \A q \in Registries \ {r} :
               getAvailableSpecialistRoles(q)' = getAvailableSpecialistRoles(q)
        BY <1>0, RolesSet
      <4> QED BY <3>1, <3>2, <4>1 DEF getAvailableSpecialistRoles
    <3>4. tool[b] = getAvailableSpecialistRoles(agentRegistry[b])
      BY <1>8, <3>1 DEF AgentsInv, OwnToolIsCurrent
    <3> QED BY <3>1, <3>3, <3>4 DEF getAvailableSpecialistRoles
  <2> QED BY <2>1, <2>2
<1>9. OwnToolIsCurrent'
  BY <1>8 DEF OwnToolIsCurrent
<1> QED BY <1>1, <1>4, <1>5, <1>6, <1>7, <1>9 DEF AgentsInv

-----------------------------------------------------------------------------
(* A step that leaves the agents and the roles of the registries alone. *)
LEMMA AgentsStutter ==
    ASSUME AgentsTypeOK, AgentsInv, UNCHANGED agentVars,
           \A q \in Registries \ Shared :
              getAvailableSpecialistRoles(q)' = getAvailableSpecialistRoles(q)
    PROVE  AgentsTypeOK' /\ AgentsInv'
<1>1. AgentsTypeOK'
  BY DEF AgentsTypeOK, agentVars
<1>2. /\ RegistriesAreMade' /\ OwnRegistriesArePrivate'
      /\ UnbuiltHaveNothing' /\ ToolIsExecuted'
  BY DEF AgentsInv, agentVars, RegistriesAreMade, OwnRegistriesArePrivate,
         UnbuiltHaveNothing, ToolIsExecuted
<1>3. ASSUME NEW b \in Agents, declared'[b], agentRegistry'[b] \notin Shared
      PROVE  tool'[b] = getAvailableSpecialistRoles(agentRegistry[b])'
  <2>1. /\ declared[b] /\ tool'[b] = tool[b]
        /\ agentRegistry'[b] = agentRegistry[b]
    BY <1>3 DEF agentVars
  <2>2. agentRegistry[b] \in Registries \ Shared
    BY <1>3, <2>1 DEF AgentsTypeOK, AgentsInv, ToolIsExecuted
  <2>3. tool[b] = getAvailableSpecialistRoles(agentRegistry[b])
    BY <1>3, <2>1 DEF AgentsInv, OwnToolIsCurrent
  <2> QED BY <2>1, <2>2, <2>3 DEF getAvailableSpecialistRoles
<1>4. OwnToolIsCurrent'
  BY <1>3 DEF OwnToolIsCurrent
<1> QED BY <1>1, <1>2, <1>4 DEF AgentsInv

LEMMA TurnsStutter ==
    ASSUME TurnsInv, UNCHANGED turnVars
    PROVE  TurnsInv'
BY DEF TurnsInv, TurnsTypeOK, TurnsHaveAgents, turnVars

(* The constructors and the methods of the agents. *)
LEMMA ConfigureKeepsInv ==
    ASSUME IInv, NEW a \in Agents, Configure(a)
    PROVE  IInv'
<1>0. /\ RegistryInv /\ RegistryTypeOK /\ AgentsTypeOK /\ TurnsInv
      /\ AgentsInv
  BY InvParts DEF RegistryInv
<1>1. TurnsInv'
  BY <1>0, TurnsStutter
     DEF Configure, ConstructGiven, ConstructOwn, ConstructPlain,
         setSpecialistAgentsConfig, registerSpecialist, unregisterSpecialist,
         enableSpecialistDelegation, disableSpecialistDelegation
<1>2. enabled[a] => agentRegistry[a] \in Registries
  BY <1>0 DEF AgentsInv, ToolIsExecuted, AgentsTypeOK
<1>3. ASSUME NEW r \in Registries, ConstructGiven(a, r)
      PROVE  RegistryInv' /\ AgentsTypeOK' /\ AgentsInv'
  <2>1. RegistryInv'
    BY <1>0, <1>3, RegistryStutterInv DEF ConstructGiven
  <2>2. AgentsTypeOK'
    <3>1. getAvailableSpecialistRoles(r) \in SUBSET Roles
      BY DEF getAvailableSpecialistRoles
    <3>2. CASE getAvailableSpecialistRoles(r) = {}
      BY <1>0, <1>3, <3>2 DEF AgentsTypeOK, ConstructGiven
    <3>3. CASE getAvailableSpecialistRoles(r) # {}
      BY <1>0, <1>3, <3>1, <3>3 DEF AgentsTypeOK, ConstructGiven, DeclareTool
    <3> QED BY <3>2, <3>3
  <2>3. ~enabled[a] /\ ~declared[a] /\ a \in built'
    BY <1>0, <1>3 DEF AgentsInv, UnbuiltHaveNothing, ConstructGiven
  <2>4. /\ agentRegistry'[a] = r /\ r \in Shared
        /\ used' = used
        /\ declared'[a] => enabled'[a]
        /\ \A b \in Agents \ {a} :
              /\ agentRegistry'[b] = agentRegistry[b]
              /\ enabled'[b] = enabled[b]
              /\ declared'[b] = declared[b]
              /\ tool'[b] = tool[b]
    BY <1>0, <1>3, <2>3 DEF ConstructGiven, AgentsTypeOK, DeclareTool
  <2>5. RegistriesAreMade'
    BY <1>0, <2>4 DEF AgentsInv, RegistriesAreMade
  <2>6. OwnRegistriesArePrivate'
    BY <1>0, <2>4 DEF AgentsInv, OwnRegistriesArePrivate
  <2>7. UnbuiltHaveNothing'
    BY <1>0, <1>3, <2>3, <2>4 DEF AgentsInv, UnbuiltHaveNothing, ConstructGiven
  <2>8. ToolIsExecuted'
    BY <1>0, <2>4 DEF AgentsInv, ToolIsExecuted, RegistriesAreMade
  <2>9. OwnToolIsCurrent'
    <3>1. specialistAgentsConfig' = specialistAgentsConfig
      BY <1>3 DEF ConstructGiven, registryVars
    <3>2. ASSUME NEW b \in Agents, declared'[b], agentRegistry'[b] \notin
    Shared
          PROVE  tool'[b] = getAvailableSpecialistRoles(agentRegistry[b])'
      BY <1>0, <2>4, <3>1, <3>2 DEF AgentsInv, OwnToolIsCurrent,
                                    getAvailableSpecialistRoles
    <3> QED BY <3>2 DEF OwnToolIsCurrent
  <2> QED BY <2>1, <2>2, <2>5, <2>6, <2>7, <2>8, <2>9 DEF AgentsInv
<1>4. ASSUME NEW c \in Configs, ConstructOwn(a, c)
      PROVE  RegistryInv' /\ AgentsTypeOK' /\ AgentsInv'
  <2>1. RegistryInv'
    BY <1>0, <1>4, SetKeepsInv DEF ConstructOwn, OwnRegistry
  <2>2. ~enabled[a] /\ a \in built'
    BY <1>0, <1>4 DEF AgentsInv, UnbuiltHaveNothing, ConstructOwn
  <2> QED BY <1>0, <1>4, <2>1, <2>2, ChangeToNewRegistry DEF ConstructOwn
<1>5. ASSUME NEW c \in Configs, setSpecialistAgentsConfig(a, c)
      PROVE  RegistryInv' /\ AgentsTypeOK' /\ AgentsInv'
  <2>1. enabled[a] /\ SetSpecialistAgentsConfig(agentRegistry[a], c)
    BY <1>5 DEF setSpecialistAgentsConfig
  <2>2. RegistryInv'
    BY <1>0, <1>2, <2>1, SetKeepsInv
  <2>3. /\ getAvailableSpecialistRoles(agentRegistry[a])' = RolesOf(c)
        /\ \A q \in Registries \ {agentRegistry[a]} :
              getAvailableSpecialistRoles(q)' = getAvailableSpecialistRoles(q)
    BY <1>0, <1>2, <1>5, <2>1, RolesSet
       DEF setSpecialistAgentsConfig, getAvailableSpecialistRoles
  <2>4. RolesOf(c) \in SUBSET Roles
    BY DEF RolesOf
  <2> QED BY <1>0, <1>5, <2>1, <2>2, <2>3, <2>4, ChangeOfOwnRegistry
             DEF setSpecialistAgentsConfig
<1>6. ASSUME NEW c \in Configs, enableSpecialistDelegation(a, c)
      PROVE  RegistryInv' /\ AgentsTypeOK' /\ AgentsInv'
  <2>1. RegistryInv'
    BY <1>0, <1>6, SetKeepsInv DEF enableSpecialistDelegation, OwnRegistry
  <2> QED BY <1>0, <1>6, <2>1, ChangeToNewRegistry
             DEF enableSpecialistDelegation
<1>7. ASSUME ConstructPlain(a)
      PROVE  RegistryInv' /\ AgentsTypeOK' /\ AgentsInv'
  <2>1. RegistryInv'
    BY <1>0, <1>7, RegistryStutterInv DEF ConstructPlain
  <2>2. specialistAgentsConfig' = specialistAgentsConfig
    BY <1>7 DEF ConstructPlain, registryVars
  <2>3. AgentsTypeOK'
    BY <1>0, <1>7 DEF ConstructPlain, AgentsTypeOK
  <2>4. /\ RegistriesAreMade' /\ OwnRegistriesArePrivate'
        /\ UnbuiltHaveNothing' /\ ToolIsExecuted'
    BY <1>0, <1>7 DEF ConstructPlain, AgentsInv, RegistriesAreMade,
                      OwnRegistriesArePrivate, UnbuiltHaveNothing,
                      ToolIsExecuted
  <2>5. OwnToolIsCurrent'
    BY <1>0, <1>7, <2>2 DEF ConstructPlain, AgentsInv, OwnToolIsCurrent,
                            getAvailableSpecialistRoles
  <2> QED BY <2>1, <2>3, <2>4, <2>5 DEF AgentsInv
<1>8. ASSUME NEW role \in Roles, NEW c \in Config, registerSpecialist(a, role,
c)
      PROVE  RegistryInv' /\ AgentsTypeOK' /\ AgentsInv'
  <2> DEFINE roles == getAvailableSpecialistRoles(agentRegistry[a]) \cup {role}
  <2>1. enabled[a] /\ RegisterSpecialist(agentRegistry[a], role, c)
    BY <1>8 DEF registerSpecialist
  <2>2. RegistryInv'
    BY <1>0, <1>2, <2>1, RegisterKeepsInv
  <2>3. /\ getAvailableSpecialistRoles(agentRegistry[a])' = roles
        /\ \A q \in Registries \ {agentRegistry[a]} :
              getAvailableSpecialistRoles(q)' = getAvailableSpecialistRoles(q)
    BY <1>0, <1>2, <1>8, <2>1, RolesRegistered
       DEF registerSpecialist, getAvailableSpecialistRoles
  <2>4. roles \in SUBSET Roles
    BY DEF getAvailableSpecialistRoles
  <2>5. \/ DeclareTool(a, roles)
        \/ ~declared[a] /\ UNCHANGED <<declared, tool>>
    BY <1>8 DEF registerSpecialist, UpdateTool
  <2>6. UNCHANGED <<used, built, agentRegistry, enabled>>
    BY <1>8 DEF registerSpecialist
  <2> HIDE DEF roles
  <2> QED BY <1>0, <2>1, <2>2, <2>3, <2>4, <2>5, <2>6, ChangeOfOwnRegistry
<1>9. ASSUME NEW role \in Roles, unregisterSpecialist(a, role)
      PROVE  RegistryInv' /\ AgentsTypeOK' /\ AgentsInv'
  <2> DEFINE roles == getAvailableSpecialistRoles(agentRegistry[a]) \ {role}
  <2>1. enabled[a] /\ UnregisterSpecialist(agentRegistry[a], role)
    BY <1>9 DEF unregisterSpecialist
  <2>2. RegistryInv'
    BY <1>0, <1>2, <2>1, UnregisterKeepsInv
  <2>3. /\ getAvailableSpecialistRoles(agentRegistry[a])' = roles
        /\ \A q \in Registries \ {agentRegistry[a]} :
              getAvailableSpecialistRoles(q)' = getAvailableSpecialistRoles(q)
    BY <1>0, <1>2, <1>9, <2>1, RolesUnregistered
       DEF unregisterSpecialist, getAvailableSpecialistRoles
  <2>4. roles \in SUBSET Roles
    BY DEF getAvailableSpecialistRoles
  <2>5. \/ DeclareTool(a, roles)
        \/ ~declared[a] /\ UNCHANGED <<declared, tool>>
    BY <1>9 DEF unregisterSpecialist, UpdateTool
  <2>6. UNCHANGED <<used, built, agentRegistry, enabled>>
    BY <1>9 DEF unregisterSpecialist
  <2> HIDE DEF roles
  <2> QED BY <1>0, <2>1, <2>2, <2>3, <2>4, <2>5, <2>6, ChangeOfOwnRegistry
<1>10. ASSUME disableSpecialistDelegation(a)
       PROVE  RegistryInv' /\ AgentsTypeOK' /\ AgentsInv'
  <2>1. RegistryInv'
    BY <1>0, <1>10, RegistryStutterInv DEF disableSpecialistDelegation
  <2>2. specialistAgentsConfig' = specialistAgentsConfig
    BY <1>10 DEF disableSpecialistDelegation, registryVars
  <2>3. AgentsTypeOK'
    BY <1>0, <1>10 DEF disableSpecialistDelegation, AgentsTypeOK
  <2>4. /\ ~declared'[a] /\ ~enabled'[a]
        /\ \A b \in Agents \ {a} : /\ enabled'[b] = enabled[b]
                                   /\ declared'[b] = declared[b]
                                   /\ tool'[b] = tool[b]
    BY <1>0, <1>10 DEF disableSpecialistDelegation, AgentsTypeOK
  <2>5. /\ RegistriesAreMade' /\ OwnRegistriesArePrivate'
        /\ UnbuiltHaveNothing' /\ ToolIsExecuted'
    BY <1>0, <1>10, <2>4
       DEF disableSpecialistDelegation, AgentsInv, RegistriesAreMade,
           OwnRegistriesArePrivate, UnbuiltHaveNothing, ToolIsExecuted
  <2>6. OwnToolIsCurrent'
    BY <1>0, <1>10, <2>2, <2>4
       DEF disableSpecialistDelegation, AgentsInv, OwnToolIsCurrent,
           getAvailableSpecialistRoles
  <2> QED BY <2>1, <2>3, <2>5, <2>6 DEF AgentsInv
<1>11. RegistryInv' /\ AgentsTypeOK' /\ AgentsInv'
  BY <1>3, <1>4, <1>5, <1>6, <1>7, <1>8, <1>9, <1>10 DEF Configure
<1> QED BY <1>1, <1>11, PTL, InvParts

-----------------------------------------------------------------------------
(* The turns change no agent and no configuration. *)
LEMMA TurnKeepsInv ==
    ASSUME IInv, NEW t \in Turns, Turn(t)
    PROVE  IInv'
<1>0. /\ RegistryInv /\ RegistryTypeOK /\ AgentsTypeOK /\ TurnsInv
      /\ AgentsInv
  BY InvParts DEF RegistryInv
<1>1. ASSUME NEW a \in Agents, processUserMessage(t, a)
      PROVE  /\ RegistryInv' /\ TurnsInv' /\ UNCHANGED agentVars
             /\ specialistAgentsConfig' = specialistAgentsConfig
  BY <1>0, <1>1, RegistryStutterInv
     DEF processUserMessage, Ask, AgentsTypeOK, TurnsInv, TurnsTypeOK,
         TurnsHaveAgents, registryVars
<1>2. ASSUME NEW role \in Roles, Delegate(t, role)
      PROVE  /\ RegistryInv' /\ TurnsInv' /\ UNCHANGED agentVars
             /\ specialistAgentsConfig' = specialistAgentsConfig
  <2> DEFINE r == agentRegistry[agent[t]]
  <2>1. /\ role \in getAvailableSpecialistRoles(r)
        /\ KeepLLM(r, role, FALSE)
        /\ GetSpecialistAgent(r, role, FALSE)
        /\ specialistAgentsConfig' = specialistAgentsConfig
        /\ enabled[agent[t]]
    BY <1>2 DEF Delegate, GetSpecialistAgent, RoleIsAvailable
  <2>2. r \in Registries
    BY <1>0, <1>2, <2>1 DEF Delegate, AgentsTypeOK, AgentsInv, TurnsInv,
                            TurnsHaveAgents, ToolIsExecuted
  <2>3. SpecialistAgent(r, role, FALSE) \in Instance
    BY <1>0, <2>1, <2>2, HandedOut
  <2>4. RegistryInv'
    BY <1>0, <2>1, <2>2, GetKeepsInv
  <2>5. TurnsInv'
    BY <1>0, <1>2, <2>3 DEF Delegate, TurnsInv, TurnsTypeOK, TurnsHaveAgents
  <2> QED BY <1>2, <2>1, <2>4, <2>5 DEF Delegate
<1>3. ASSUME NEW role \in Roles, RefuseDelegation(t, role)
      PROVE  /\ RegistryInv' /\ TurnsInv' /\ UNCHANGED agentVars
             /\ specialistAgentsConfig' = specialistAgentsConfig
  BY <1>0, <1>3, RegistryStutterInv
     DEF RefuseDelegation, Ask, AgentsTypeOK, TurnsInv, TurnsTypeOK,
         TurnsHaveAgents, registryVars
<1>4. ASSUME SpecialistFails(t)
      PROVE  /\ RegistryInv' /\ TurnsInv' /\ UNCHANGED agentVars
             /\ specialistAgentsConfig' = specialistAgentsConfig
  BY <1>0, <1>4, RegistryStutterInv
     DEF SpecialistFails, Ask, AgentsTypeOK, TurnsInv, TurnsTypeOK,
         TurnsHaveAgents, registryVars
<1>5. ASSUME Return(t)
      PROVE  /\ RegistryInv' /\ TurnsInv' /\ UNCHANGED agentVars
             /\ specialistAgentsConfig' = specialistAgentsConfig
  BY <1>0, <1>5, RegistryStutterInv
     DEF Return, AgentsTypeOK, TurnsInv, TurnsTypeOK, TurnsHaveAgents,
         registryVars
<1>6. /\ RegistryInv' /\ TurnsInv' /\ UNCHANGED agentVars
      /\ specialistAgentsConfig' = specialistAgentsConfig
  BY <1>1, <1>2, <1>3, <1>4, <1>5 DEF Turn
<1>7. AgentsTypeOK' /\ AgentsInv'
  BY <1>0, <1>6, AgentsStutter DEF getAvailableSpecialistRoles
<1> QED BY <1>6, <1>7, PTL, InvParts

(* What the program does with the registries it shares. *)
LEMMA UseSharedKeepsInv ==
    ASSUME IInv, NEW r \in Registries, UseShared(r)
    PROVE  IInv'
<1>0. /\ RegistryInv /\ RegistryTypeOK /\ AgentsTypeOK /\ TurnsInv
      /\ AgentsInv
  BY InvParts DEF RegistryInv
<1>1. RegistryInv' /\ TurnsInv'
  BY <1>0, UseKeepsInv, TurnsStutter DEF UseShared
<1>2. ASSUME NEW q \in Registries \ Shared
      PROVE  getAvailableSpecialistRoles(q)' = getAvailableSpecialistRoles(q)
  <2>1. specialistAgentsConfig'[q] = specialistAgentsConfig[q]
    BY <1>0, <1>2
       DEF UseShared, UseRegistry, RegistryTypeOK, SetSpecialistAgentsConfig,
           RegisterSpecialist, UnregisterSpecialist, GetSpecialistAgent,
           ClearCache, registryVars
  <2> QED BY <2>1 DEF getAvailableSpecialistRoles
<1>3. AgentsTypeOK' /\ AgentsInv'
  BY <1>0, <1>2, AgentsStutter DEF UseShared
<1> QED BY <1>1, <1>3, PTL, InvParts

LEMMA InitInv ==
    ASSUME Init
    PROVE  IInv
<1>1. RegistryInv
  BY RegistryInitInv DEF Init
<1>2. AgentsTypeOK /\ TurnsInv
  BY SharedRegistries DEF Init, AgentsTypeOK, TurnsInv, TurnsTypeOK,
                          TurnsHaveAgents
<1>3. AgentsInv
  BY DEF Init, AgentsInv, RegistriesAreMade, OwnRegistriesArePrivate,
         UnbuiltHaveNothing, ToolIsExecuted, OwnToolIsCurrent
<1> QED BY <1>1, <1>2, <1>3, InvParts

LEMMA NextInv == IInv /\ [Next]_vars => IInv'
<1> SUFFICES ASSUME IInv, [Next]_vars PROVE IInv'
  OBVIOUS
<1>1. ASSUME NEW a \in Agents, Configure(a) PROVE IInv'
  BY <1>1, ConfigureKeepsInv
<1>2. ASSUME NEW t \in Turns, Turn(t) PROVE IInv'
  BY <1>2, TurnKeepsInv
<1>3. ASSUME NEW r \in Registries, UseShared(r) PROVE IInv'
  BY <1>3, UseSharedKeepsInv
<1>4. CASE UNCHANGED vars
  <2>0. RegistryInv /\ AgentsTypeOK /\ TurnsInv /\ AgentsInv
    BY InvParts
  <2>1. RegistryInv' /\ TurnsInv'
    BY <1>4, <2>0, RegistryStutterInv, TurnsStutter DEF vars
  <2>2. AgentsTypeOK' /\ AgentsInv'
    BY <1>4, <2>0, AgentsStutter
       DEF vars, registryVars, getAvailableSpecialistRoles, RegistryInv
  <2> QED BY <2>1, <2>2, PTL, InvParts
<1> QED BY <1>1, <1>2, <1>3, <1>4 DEF Next

(* The inductive invariant of the delegation. *)
THEOREM DelegationInvariance == Spec => []IInv
<1>1. Init => IInv
  BY InitInv
<1> QED BY <1>1, NextInv, PTL DEF Spec

(* Every variable keeps its type. *)
THEOREM DelegationTypeCorrect == Spec => []TypeOK
<1>1. IInv => TypeOK
  BY DEF IInv
<1> QED BY <1>1, DelegationInvariance, PTL

(* The roles an agent with a registry of its own names to the LLM are the  *)
(* roles it can delegate to, through every method of the agent             *)
(* (chat-agent.js:183-229, 819-1000).                                      *)
THEOREM ToolFollowsOwnRegistry == Spec => []OwnToolIsCurrent
<1>1. IInv => OwnToolIsCurrent
  BY DEF IInv
<1> QED BY <1>1, DelegationInvariance, PTL

(* The tool is declared only while it is executed (chat-agent.js:470).     *)
THEOREM DeclaredIsExecuted == Spec => []ToolIsExecuted
<1>1. IInv => ToolIsExecuted
  BY DEF IInv
<1> QED BY <1>1, DelegationInvariance, PTL

(* The specialist that is set to work has the configuration its role has   *)
(* in that moment (chat-agent.js:479-488, agent-registry.js:164-191).      *)
THEOREM WorksAsConfigured == Spec => DelegatesToCurrent
<1> DEFINE A(t) ==
        /\ enabled[agent[t]]
        /\ \E role \in Roles : specialist'[t].config =
              specialistAgentsConfig[agentRegistry[agent[t]]][role]
<1>1. ASSUME IInv, [Next]_vars, NEW t \in Turns,
             pc[t] = "asked", pc'[t] = "delegated"
      PROVE  A(t)
  <2>0. RegistryInv /\ AgentsTypeOK /\ TurnsInv /\ AgentsInv
    BY <1>1, InvParts
  <2>1. PICK role \in Roles : Delegate(t, role)
    <3>1. pc' # pc
      BY <1>1
    <3>2. PICK u \in Turns : Turn(u)
      BY <1>1, <3>1
         DEF Next, vars, turnVars, Configure, ConstructGiven, ConstructOwn,
             ConstructPlain, setSpecialistAgentsConfig, registerSpecialist,
             unregisterSpecialist, enableSpecialistDelegation,
             disableSpecialistDelegation, UseShared
    <3>3. u = t
      BY <1>1, <2>0, <3>2
         DEF Turn, processUserMessage, Delegate, RefuseDelegation,
             SpecialistFails, Return, Ask, TurnsInv, TurnsTypeOK,
             TurnsHaveAgents
    <3> QED BY <1>1, <2>0, <3>2, <3>3
               DEF Turn, processUserMessage, Delegate, RefuseDelegation,
                   SpecialistFails, Return, Ask, TurnsInv, TurnsTypeOK,
                   TurnsHaveAgents
  <2> DEFINE r == agentRegistry[agent[t]]
  <2>2. /\ enabled[agent[t]]
        /\ role \in getAvailableSpecialistRoles(r)
        /\ KeepLLM(r, role, FALSE)
        /\ specialist'[t] = SpecialistAgent(r, role, FALSE)
    BY <2>0, <2>1 DEF Delegate, GetSpecialistAgent, RoleIsAvailable, TurnsInv,
                      TurnsTypeOK, TurnsHaveAgents
  <2>3. r \in Registries
    BY <2>0, <2>1, <2>2 DEF Delegate, AgentsTypeOK, AgentsInv, TurnsInv,
                            TurnsHaveAgents, ToolIsExecuted
  <2>4. SpecialistAgent(r, role, FALSE).config
          = specialistAgentsConfig[r][role]
    BY <2>0, <2>2, <2>3, HandedOut
  <2> QED BY <2>2, <2>4
<1>2. IInv /\ [Next]_vars =>
         [\A t \in Turns :
             pc[t] = "asked" /\ pc'[t] = "delegated" => A(t)]_vars
  BY <1>1
<1> QED BY <1>2, DelegationInvariance, PTL DEF Spec, DelegatesToCurrent
=============================================================================
