---------------------------- MODULE ClientFactory ----------------------------
(***************************************************************************)
(* A ClientFactory, its cache of client states, and the clients that       *)
(* follow a configuration which is refreshed while threads create, use and *)
(* drop them. A client's state is built from the configuration, or found   *)
(* in a cache that holds it weakly: the last reference dropped, an evictor *)
(* removes it, some time after a lookup can already fail to upgrade it.    *)
(*                                                                         *)
(* A client is a plain one, subscribed to the service's configuration, or  *)
(* the client of one host of the per-host collection, which owns the       *)
(* handle its configuration is refreshed through.                          *)
(*                                                                         *)
(* The refreshable crate is external: a refresh stores the value and runs  *)
(* the callbacks one after the other, unless the value equals the current  *)
(* one; a subscription runs its callback at once, and excludes refreshes.  *)
(***************************************************************************)
EXTENDS Naturals, FiniteSets, Sequences, FiniteSetsExt, SequencesExt

CONSTANTS
    None,
    Hosts,      \* base URIs
    Configs,    \* ServicesConfigs, as seen for one service
    Clients,    \* bound on the clients that exist at a time
    Requests,   \* bound on the calls that run at a time
    StateIds,   \* bound on the client states that exist at a time
    Caches,     \* 1 .. n: uncached configurations the factory goes through
    MaxChanges, \* bound on the changes of the factory's own settings
    Capacity    \* STATE_CACHE_CAPACITY

ASSUME FactoryAssumption ==
    /\ Clients \subseteq Nat \ {0} /\ StateIds \subseteq Nat \ {0}
    /\ IsFiniteSet(Clients) /\ IsFiniteSet(StateIds) /\ IsFiniteSet(Hosts)
    /\ 1 \in Caches /\ Caches \subseteq Nat \ {0}
    /\ Capacity \in Nat /\ MaxChanges \in Nat
    /\ \A c \in Configs : c.uris \in Seq(Hosts) /\ IsInjective(c.uris)

VARIABLES
    config,     \* the root Refreshable<ServicesConfig>
    todo,       \* subscribers a refresh under way has not run yet; 0: the collection
    factory,    \* the factory's CacheManager, and its own settings
    \* WeakCache: states, by id, and the LinkedHashMap of each cache, oldest first
    key,        \* the cache and CachedConfig a state was built for
    entries,
    pushed,     \* history: ids the capacity pushed out
    \* clients
    stage, cell, index, state, failed,
    state_builder,  \* the factory as it was when the client was made
    using,      \* the state a call has loaded, 0 if none
    \* per-host collection
    collection, \* whether it exists, its configuration, and if the last one failed
    client_handles, published

cacheVars == <<key, entries, pushed>>
clientVars == <<stage, cell, state_builder, index, state, failed>>
hostVars == <<collection, client_handles, published>>
vars == <<config, todo, factory, cacheVars, clientVars, using, hostVars>>

-----------------------------------------------------------------------------
(* Configuration *)

(* ServicesConfig::merged_service, and Default for an unknown service *)
merged_service(c) ==
    IF ~c.present THEN [uris |-> <<>>, setting |-> None]
    ELSE [uris |-> c.uris, setting |-> IF c.setting = None THEN c.default ELSE c.setting]

(* Builder::user_agent: a builder with its defaults. The index is that of  *)
(* a per-host client, 0 for any other.                                     *)
BuilderDefault == [uris |-> <<>>, setting |-> "default", own |-> 0, index |-> 0]

(* Its setters: what the configuration has, security to max_num_retries;   *)
(* what the factory has, client_qos to error_parameter_format; the index.  *)
with_uris(builder, us) == [builder EXCEPT !.uris = us]
with_setting(builder, s) == [builder EXCEPT !.setting = s]
with_own(builder, own) == [builder EXCEPT !.own = own]
override_host_index(builder, i) == [builder EXCEPT !.index = i]

(* Builder::from_config: what is not configured keeps its default. *)
from_config(builder, sc) ==
    LET located == with_uris(builder, sc.uris)
    IN  IF sc.setting = None THEN located ELSE with_setting(located, sc.setting)

(* StateBuilder::build: the key of a client state. *)
CachedConfig(sc, b, i) ==
    LET configured == with_own(from_config(BuilderDefault, sc), b.own)
    IN  IF i = 0 THEN configured ELSE override_host_index(configured, i)

(* ClientState::new may fail, on what certificate and key files hold, and  *)
(* on a proxy that is no URI or of an unknown type.                        *)
RawClient_new == BOOLEAN
ProxyConfig_from_config == BOOLEAN
ClientState_new == {raw /\ proxy : raw \in RawClient_new, proxy \in ProxyConfig_from_config}

ServiceConfig == merged_service(config)
HostConfig(sc, h) == [sc EXCEPT !.uris = <<h>>]

ServiceConfigs == {merged_service(c) : c \in Configs}
HostConfigs == {HostConfig(sc, h) : sc \in ServiceConfigs, h \in Hosts}
StateBuilders == [manager : Caches, own : 0 .. MaxChanges]
CachedConfigs == {CachedConfig(sc, b, i) : sc \in ServiceConfigs \cup HostConfigs,
                                           b \in StateBuilders, i \in 0 .. Cardinality(Hosts)}

Keys == [cache : Caches, config : CachedConfigs]

ASSUME NoneAssumption == None \notin Keys

TypeOK ==
    /\ config \in Configs /\ factory \in StateBuilders
    /\ todo \subseteq Clients \cup {0}
    /\ key \in [StateIds -> Keys \cup {None}]
    /\ entries \in [Caches -> Seq(StateIds)]
    /\ \A k \in Caches : Len(entries[k]) <= Capacity
    /\ pushed \subseteq StateIds
    /\ stage \in [Clients -> {"free", "built", "live", "host"}]
    /\ cell \in [Clients -> ServiceConfigs \cup HostConfigs \cup {None}]
    /\ state_builder \in [Clients -> StateBuilders]
    /\ index \in [Clients -> 0 .. Cardinality(Hosts)]
    /\ state \in [Clients -> StateIds \cup {0}]
    /\ failed \in [Clients -> BOOLEAN]
    /\ using \in [Requests -> StateIds \cup {0}]
    /\ collection \in [exists : BOOLEAN, cell : ServiceConfigs \cup {None},
                       state_builder : StateBuilders, failed : BOOLEAN]
    /\ client_handles \in [Hosts -> Clients \cup {0}]
    /\ published \in [Hosts -> Clients \cup {0}]

(* WeakCache::new. A clone of the factory shares its cache. *)
EmptyCache == <<>>
NoHosts == [h \in Hosts |-> 0]
NewFactory == [manager |-> 1, own |-> 0]
NoCollection == [exists |-> FALSE, cell |-> None, state_builder |-> NewFactory, failed |-> FALSE]

Init ==
    /\ config \in Configs
    /\ todo = {}
    /\ factory = NewFactory
    /\ key = [i \in StateIds |-> None]
    /\ entries = [k \in Caches |-> EmptyCache]
    /\ pushed = {}
    /\ stage = [c \in Clients |-> "free"]
    /\ cell = [c \in Clients |-> None]
    /\ state_builder = [c \in Clients |-> NewFactory]
    /\ index = [c \in Clients |-> 0]
    /\ state = [c \in Clients |-> 0]
    /\ failed = [c \in Clients |-> FALSE]
    /\ using = [q \in Requests |-> 0]
    /\ collection = NoCollection
    /\ client_handles = NoHosts
    /\ published = NoHosts

-----------------------------------------------------------------------------
(* WeakCache *)

(* The strong references to a state: its clients and the calls under way.  *)
(* A state that was built and has none is being dropped: it cannot be      *)
(* upgraded, and its evictor has not run.                                  *)
Alive == {state[c] : c \in Clients} \cup {using[q] : q \in Requests}

(* The cache as a value, so that a callback can look up several states; id *)
(* is the state the last lookup returned, 0 if it failed.                  *)
TheCache == [key |-> key, entries |-> entries, pushed |-> pushed, alive |-> Alive \ {0}, id |-> 0]
StoreCache(cs) == key' = cs.key /\ entries' = cs.entries /\ pushed' = cs.pushed

Fresh(cs) == Min({i \in StateIds : cs.key[i] = None})
Places(cs, k, cc) == {n \in DOMAIN cs.entries[k] : cs.key[cs.entries[k][n]].config = cc}

(* An entry, if there is one, is taken out of its place. *)
Without(seq, places) == IF places = {} THEN seq ELSE RemoveAt(seq, CHOOSE n \in places : TRUE)

(* pop_front while there are more entries than the capacity *)
LastN(seq) == SubSeq(seq, IF Len(seq) > Capacity THEN Len(seq) - Capacity + 1 ELSE 1, Len(seq))

(* WeakCache::get: the state that is found or made, and the cache after    *)
(* it. The entry becomes the youngest. One whose state cannot be upgraded  *)
(* is replaced, unless make_value fails.                                   *)
Get(cs, sc, b, at, made) ==
    LET k == b.manager
        cc == CachedConfig(sc, b, at)
        places == Places(cs, k, cc)
        others == Without(cs.entries[k], places)
        old == cs.entries[k][CHOOSE n \in places : TRUE]
        found == places # {} /\ old \in cs.alive
        refreshed == IF places = {} THEN others ELSE Append(others, old)
        new == Fresh(cs)
        all == Append(others, new)
    IN  CASE found -> [cs EXCEPT !.entries[k] = refreshed, !.id = old]
          [] ~found /\ ~made -> [cs EXCEPT !.entries[k] = refreshed, !.id = 0]
          [] ~found /\ made ->
               [cs EXCEPT !.entries[k] = LastN(all),
                          !.key[new] = [cache |-> k, config |-> cc],
                          !.alive = @ \cup {new},
                          !.pushed = @ \cup (ToSet(all) \ ToSet(LastN(all))),
                          !.id = new]

(* Mutants: the evictor removes whatever has the key, or nothing. *)
Evicted_nothing(i) == entries[key[i].cache]

Evicted_by_key(i) ==
    LET seq == entries[key[i].cache]
    IN  Without(seq, {n \in DOMAIN seq : key[seq[n]].config = key[i].config})

(* CacheEvictor::drop: the entry goes only if it still is this state. *)
Evicted(i) ==
    LET seq == entries[key[i].cache] IN Without(seq, {n \in DOMAIN seq : seq[n] = i})

evict(i) ==
    /\ key[i] # None /\ i \notin Alive
    /\ entries' = [entries EXCEPT ![key[i].cache] = Evicted(i)]
    /\ key' = [key EXCEPT ![i] = None]
    /\ pushed' = pushed \ {i}
    /\ UNCHANGED <<config, todo, factory, clientVars, using, hostVars>>

-----------------------------------------------------------------------------
(* Plain clients *)

Unlocked == todo = {}
Free == {c \in Clients : stage[c] = "free"}
Room(n) == Cardinality({i \in StateIds : key[i] = None}) >= n

Released(c) ==
    /\ stage' = [stage EXCEPT ![c] = "free"]
    /\ cell' = [cell EXCEPT ![c] = None]
    /\ state_builder' = [state_builder EXCEPT ![c] = NewFactory]
    /\ state' = [state EXCEPT ![c] = 0]
    /\ failed' = [failed EXCEPT ![c] = FALSE]
    /\ UNCHANGED index

(* client_inner: the service's configuration is mapped, and raw_client     *)
(* builds a first state.                                                   *)
build_client(c) ==
    /\ Free # {} /\ c = Min(Free) /\ Unlocked /\ Room(1)
    /\ \E made \in ClientState_new :
          LET cs == Get(TheCache, ServiceConfig, factory, 0, made) IN
          /\ StoreCache(cs)
          /\ IF cs.id = 0 THEN UNCHANGED <<stage, cell, state_builder, state>>
             ELSE /\ state' = [state EXCEPT ![c] = cs.id]
                  /\ stage' = [stage EXCEPT ![c] = "built"]
                  /\ cell' = [cell EXCEPT ![c] = ServiceConfig]
                  /\ state_builder' = [state_builder EXCEPT ![c] = factory]
    /\ UNCHANGED <<config, todo, factory, index, failed, using, hostVars>>

(* The callback of a plain client: build, and store unless that failed. *)
Reload(c, made) ==
    LET cs == Get(TheCache, ServiceConfig, state_builder[c], 0, made) IN
    /\ StoreCache(cs)
    /\ state' = [state EXCEPT ![c] = IF cs.id = 0 THEN @ ELSE cs.id]
    /\ failed' = [failed EXCEPT ![c] = cs.id = 0]

(* Mutant: the subscription does not run the callback. *)
subscribe_next_time(c) ==
    /\ stage[c] = "built" /\ Unlocked
    /\ stage' = [stage EXCEPT ![c] = "live"]
    /\ UNCHANGED <<config, todo, factory, cacheVars, cell, state_builder, index, state, failed, using, hostVars>>

(* raw_client: try_subscribe. *)
subscribe(c) ==
    /\ stage[c] = "built" /\ Unlocked /\ Room(1)
    /\ Reload(c, TRUE)
    /\ stage' = [stage EXCEPT ![c] = "live"]
    /\ cell' = [cell EXCEPT ![c] = ServiceConfig]
    /\ UNCHANGED <<config, todo, factory, state_builder, index, using, hostVars>>

(* The state of the subscription cannot be built: raw_client returns the   *)
(* error, and the client is gone.                                          *)
subscribe_fails(c) ==
    /\ stage[c] = "built" /\ Unlocked
    /\ LET cs == Get(TheCache, ServiceConfig, state_builder[c], 0, FALSE) IN
       cs.id = 0 /\ StoreCache(cs)
    /\ Released(c)
    /\ UNCHANGED <<config, todo, factory, using, hostVars>>

(* A refresh reaches the client. *)
notify(c) ==
    /\ c \in todo /\ stage[c] = "live" /\ Room(1)
    /\ todo' = todo \ {c}
    /\ cell' = [cell EXCEPT ![c] = ServiceConfig]
    /\ IF cell[c] = ServiceConfig THEN UNCHANGED <<cacheVars, state, failed>>
                                  ELSE \E made \in ClientState_new : Reload(c, made)
    /\ UNCHANGED <<config, factory, stage, state_builder, index, using, hostVars>>

drop_client(c) ==
    /\ stage[c] = "live"
    /\ Released(c)
    /\ todo' = todo \ {c}
    /\ UNCHANGED <<config, factory, cacheVars, using, hostVars>>

(* Client::send loads the state, and keeps it to the end of the call. *)
send(q, c) ==
    /\ using[q] = 0 /\ stage[c] \in {"live", "host"}
    /\ using' = [using EXCEPT ![q] = state[c]]
    /\ UNCHANGED <<config, todo, factory, cacheVars, clientVars, hostVars>>

sent(q) ==
    /\ using[q] # 0
    /\ using' = [using EXCEPT ![q] = 0]
    /\ UNCHANGED <<config, todo, factory, cacheVars, clientVars, hostVars>>

-----------------------------------------------------------------------------
(* Per-host clients *)

(* What the loop over the URIs has done so far. *)
Start(b) == [cache |-> TheCache, state_builder |-> b, cell |-> cell, index |-> index, state |-> state, failed |-> failed,
             handles |-> NoHosts, free |-> Free, errors |-> FALSE]

(* Mutant: the handle is kept and not refreshed. *)
RefreshHandle_kept(acc, sc, h, made) == [acc EXCEPT !.handles[h] = client_handles[h]]

(* A host that has a handle is refreshed through it, and keeps it and its  *)
(* index even if that fails.                                               *)
RefreshHandle(acc, sc, h, made) ==
    LET c == client_handles[h]
        hc == HostConfig(sc, h)
        cs == Get(acc.cache, hc, acc.state_builder, index[c], made)
        kept == [acc EXCEPT !.handles[h] = c]
    IN  IF cell[c] = hc THEN kept
        ELSE [kept EXCEPT !.cache = cs, !.cell[c] = hc, !.failed[c] = (cs.id = 0),
                          !.state[c] = IF cs.id = 0 THEN @ ELSE cs.id,
                          !.errors = @ \/ cs.id = 0]

(* Any other gets a new client, or is left out. raw_client looks its state *)
(* up twice, for the cell and in the callback it subscribes: the second    *)
(* finds what the first has just made and holds.                           *)
NewHandle(acc, sc, h, i, made) ==
    LET c == Min(acc.free)
        hc == HostConfig(sc, h)
        cs == Get(acc.cache, hc, acc.state_builder, i, made)
    IN  IF cs.id = 0 THEN [acc EXCEPT !.cache = cs, !.errors = TRUE]
        ELSE [acc EXCEPT !.cache = cs, !.handles[h] = c, !.free = @ \ {c}, !.cell[c] = hc,
                         !.index[c] = i, !.state[c] = cs.id, !.failed[c] = FALSE]

Visit(acc, sc, i, made) ==
    IF client_handles[sc.uris[i]] # 0 THEN RefreshHandle(acc, sc, sc.uris[i], made)
                                      ELSE NewHandle(acc, sc, sc.uris[i], i, made)

Reloaded(sc, made, b) ==
    LET loop[i \in 0 .. Len(sc.uris)] ==
            IF i = 0 THEN Start(b) ELSE Visit(loop[i - 1], sc, i, made[i])
    IN  loop[Len(sc.uris)]

HasHosts(hs) == {h \in Hosts : hs[h] # 0}

(* PerHostClients::eq, and what a refresh of the published value does. *)
Publish(old, new) == IF HasHosts(old) = HasHosts(new) THEN old ELSE new

(* Clients of the collection exist as long as a handle or the published    *)
(* value has them.                                                         *)
Install(acc, handles, pub) ==
    LET used == {handles[h] : h \in Hosts} \cup {pub[h] : h \in Hosts}
        gone(c) == c \notin used /\ stage[c] \notin {"built", "live"}
    IN  /\ StoreCache(acc.cache)
        /\ stage' = [c \in Clients |-> IF gone(c) THEN "free" ELSE
                        IF c \in used THEN "host" ELSE stage[c]]
        /\ cell' = [c \in Clients |-> IF gone(c) THEN None ELSE acc.cell[c]]
        /\ index' = [c \in Clients |-> IF gone(c) THEN 0 ELSE acc.index[c]]
        /\ state' = [c \in Clients |-> IF gone(c) THEN 0 ELSE acc.state[c]]
        /\ failed' = [c \in Clients |-> ~gone(c) /\ acc.failed[c]]
        /\ client_handles' = handles
        /\ published' = pub
        /\ UNCHANGED state_builder

Enough(sc) ==
    /\ Room(Len(sc.uris))
    /\ Cardinality(Free) >= Cardinality({n \in DOMAIN sc.uris : client_handles[sc.uris[n]] = 0})
Outcomes(sc) == [1 .. Len(sc.uris) -> ClientState_new]

(* per_host_clients: the first run of the callback decides if there is a   *)
(* collection at all.                                                      *)
create_collection ==
    /\ ~collection.exists /\ Unlocked /\ Enough(ServiceConfig)
    /\ \E made \in Outcomes(ServiceConfig) : LET acc == Reloaded(ServiceConfig, made, factory) IN
          IF acc.errors
          THEN Install(acc, NoHosts, NoHosts) /\ UNCHANGED collection
          ELSE /\ Install(acc, acc.handles, acc.handles)
               /\ collection' = [exists |-> TRUE, cell |-> ServiceConfig, state_builder |-> factory, failed |-> FALSE]
    /\ UNCHANGED <<config, todo, factory, using>>

(* A refresh reaches the collection. client_handles is replaced whether or *)
(* not there were errors.                                                  *)
notify_collection ==
    /\ 0 \in todo /\ Enough(ServiceConfig)
    /\ todo' = todo \ {0}
    /\ IF collection.cell = ServiceConfig THEN UNCHANGED <<cacheVars, clientVars, hostVars>>
       ELSE \E made \in Outcomes(ServiceConfig) : LET acc == Reloaded(ServiceConfig, made, collection.state_builder) IN
            /\ Install(acc, acc.handles, IF acc.errors THEN published ELSE Publish(published, acc.handles))
            /\ collection' = [collection EXCEPT !.cell = ServiceConfig, !.failed = acc.errors]
    /\ UNCHANGED <<config, factory, using>>

drop_collection ==
    /\ collection.exists /\ Unlocked
    /\ Install(Start(NewFactory), NoHosts, NoHosts)
    /\ collection' = NoCollection
    /\ UNCHANGED <<config, todo, factory, using>>

-----------------------------------------------------------------------------
(* The factory *)

(* RefreshHandle::refresh of the root: one at a time. *)
refresh(c) ==
    /\ Unlocked /\ c # config
    /\ config' = c
    /\ todo' = {d \in Clients : stage[d] = "live"} \cup (IF collection.exists THEN {0} ELSE {})
    /\ UNCHANGED <<factory, cacheVars, clientVars, using, hostVars>>

Changes == factory.manager + factory.own <= MaxChanges

(* Mutant: the cache of the old settings is kept. *)
uncached_mut_shared ==
    /\ factory.manager + 1 \in Caches /\ Changes
    /\ factory' = [factory EXCEPT !.manager = @ + 1]
    /\ entries' = [entries EXCEPT ![factory.manager + 1] = entries[factory.manager]]
    /\ UNCHANGED <<config, todo, key, pushed, clientVars, using, hostVars>>

(* metrics, host_metrics, conjure_runtime, blocking_handle: what is not in *)
(* the key of the cache changes, and a new cache with it.                  *)
uncached_mut ==
    /\ factory.manager + 1 \in Caches /\ Changes
    /\ factory' = [factory EXCEPT !.manager = @ + 1]
    /\ UNCHANGED <<config, todo, cacheVars, clientVars, using, hostVars>>

(* user_agent, client_qos, idempotency and the others, which the key has. *)
cached_mut ==
    /\ Changes
    /\ factory' = [factory EXCEPT !.own = @ + 1]
    /\ UNCHANGED <<config, todo, cacheVars, clientVars, using, hostVars>>

Next ==
    \/ \E c \in Clients : build_client(c) \/ subscribe(c) \/ subscribe_fails(c) \/ notify(c) \/ drop_client(c)
    \/ \E q \in Requests : sent(q) \/ \E c \in Clients : send(q, c)
    \/ \E i \in StateIds : evict(i)
    \/ create_collection \/ notify_collection \/ drop_collection
    \/ \E c \in Configs : refresh(c)
    \/ uncached_mut \/ cached_mut

Spec == Init /\ [][Next]_vars

-----------------------------------------------------------------------------
(* Properties *)

(* Clients of equal configuration share a state, however their creation,   *)
(* the drop of the last user and its evictor interleave: two live states   *)
(* with the same key exist only if the capacity pushed one of them out.    *)
StatesAreShared ==
    \A i, j \in Alive \ {0} : i # j /\ key[i] = key[j] => {i, j} \cap pushed # {}

(* The cache keeps no entry behind: each one is of a state that is alive,  *)
(* or whose evictor is still to run.                                       *)
NoGarbage ==
    \A k \in Caches : \A n \in DOMAIN entries[k] : key[entries[k][n]] # None

(* A client is never given a state made with other settings of the factory *)
(* (its metric registry, its runtime, its user agent) than it had when the *)
(* client was created, however often client and factory change.            *)
StatesMatchFactory ==
    \A c \in Clients : stage[c] # "free" =>
        LET b == IF stage[c] = "host" THEN collection.state_builder ELSE state_builder[c]
        IN  key[state[c]].cache = b.manager /\ key[state[c]].config.own = b.own

(* When no refresh is under way, a client serves the present               *)
(* configuration, unless its last state could not be built: no refresh     *)
(* between the first build and the subscription is lost.                   *)
ClientsReload ==
    Unlocked => \A c \in Clients : stage[c] = "live" /\ ~failed[c] =>
        key[state[c]].config = CachedConfig(ServiceConfig, state_builder[c], 0)

(* The same for the clients the collection holds a handle of. *)
HandlesReload ==
    Unlocked => \A h \in Hosts : LET c == client_handles[h] IN
        c # 0 /\ ~failed[c] => key[state[c]].config = CachedConfig(HostConfig(ServiceConfig, h), collection.state_builder, index[c])

(* "clients that will live-reload in response to configuration updates":   *)
(* after a refresh without errors, the clients users find in the           *)
(* collection have the present configuration.                              *)
PublishedClientsReload ==
    Unlocked /\ collection.exists /\ ~collection.failed =>
        \A h \in HasHosts(published) : LET c == published[h] IN
            key[state[c]].config = CachedConfig(HostConfig(ServiceConfig, h), collection.state_builder, index[c])
=============================================================================
