---------------------------- MODULE StoreCatalogue ----------------------------
(***************************************************************************)
(* The registry of data stores (storage/registry.py): the configuration    *)
(* names stores; an alias stands for another name, and a caller asks for a *)
(* name or for a capability.                                               *)
(*                                                                         *)
(* A catalogue is a function from names to definitions: driver (alias or a *)
(* real one), target of an alias, capabilities, required, configured (its  *)
(* address is set) and adapter (a factory of its driver is built in, was   *)
(* registered, or is a plugin that loads).                                 *)
(*                                                                         *)
(* What an adapter does once it is made (connecting, the answer of a       *)
(* health check) is left out, and so are options a constructor refuses.    *)
(***************************************************************************)
EXTENDS Integers, FiniteSets

\* _definition: an alias needs a target, and a required store its address.
DefinitionRefused(d) ==
    \/ d.driver = "alias" /\ d.target = "none"
    \/ d.driver # "alias" /\ d.required /\ ~d.configured

IsAlias(cat, name) == name \in DOMAIN cat /\ cat[name].driver = "alias"

\* current after i turns of the loop of _validate_aliases.
Walked(cat, name) ==
    LET at[i \in 0 .. Cardinality(DOMAIN cat)] ==
            IF i = 0 THEN name
            ELSE IF IsAlias(cat, at[i - 1]) THEN cat[at[i - 1]].target ELSE at[i - 1]
    IN at

\* A name that leads to a name that is not there, or back to an alias it has
\* passed (seen).
LeadsNowhere(cat, name) == \E i \in DOMAIN Walked(cat, name) : Walked(cat, name)[i] \notin DOMAIN cat
LeadsBack(cat, name) ==
    \E i, j \in DOMAIN Walked(cat, name) :
        /\ i < j
        /\ Walked(cat, name)[i] = Walked(cat, name)[j]
        /\ IsAlias(cat, Walked(cat, name)[i])

CatalogueRefused(cat) ==
    \E name \in DOMAIN cat :
        DefinitionRefused(cat[name]) \/ LeadsNowhere(cat, name) \/ LeadsBack(cat, name)

\* The name at the end of the aliases of a name.
End(cat, name) == Walked(cat, name)[Cardinality(DOMAIN cat)]

\* _factory finds the adapter of the driver, and the constructor of every
\* adapter refuses a definition without an address.
CanBeMade(d) == d.adapter /\ d.configured

\* get: the store behind a name, or none where it raises.
Store(cat, name) == {e \in {End(cat, name)} : CanBeMade(cat[e])}

\* for_capability: the first name that has it, in the order of the file.
Provider(cat, order, capability) ==
    LET able == {i \in DOMAIN order : capability \in cat[order[i]].capabilities}
    IN UNION {Store(cat, order[i]) : i \in {i \in able : \A j \in able : i <= j}}

\* healthcheck_required goes through the required names in the order of the
\* file, checks each store once, and raises at the first it cannot get.
Required(cat) == {name \in DOMAIN cat : cat[name].required}
HealthFails(cat) == \E name \in Required(cat) : Store(cat, name) = {}
HealthChecked(cat, order) ==
    LET gets(i) == order[i] \in Required(cat) => Store(cat, order[i]) # {}
    IN UNION {Store(cat, order[i]) :
                 i \in {i \in DOMAIN order : /\ order[i] \in Required(cat)
                                            /\ \A j \in DOMAIN order : j <= i => gets(j)}}
=============================================================================
