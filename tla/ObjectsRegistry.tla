--------------------------- MODULE ObjectsRegistry ---------------------------
(***************************************************************************)
(* The host side registry of objects handed to renderer contexts           *)
(* (src/electron/lib/renderer/objects-registry.ts).  An object gets an id  *)
(* when it is first handed out, is counted once per owning context, and    *)
(* leaves the registry when its count returns to zero.                     *)
(*                                                                         *)
(* The registry is called from the message handlers of remote-server.ts,   *)
(* each of which runs to completion on the host's only JavaScript thread,  *)
(* so every public method is one atomic action.                            *)
(***************************************************************************)
EXTENDS Integers, FiniteSets

CONSTANTS
  Contexts,  \* renderer contexts: the pairs (webContentsId, contextId)
  Objects,   \* host objects and functions that can be handed out
  MaxId      \* bound: no id above MaxId is ever assigned

ASSUME MaxIdAssumption == MaxId \in Nat

VARIABLES
  nextId,      \* the last id assigned
  storage,     \* id -> [count, object], defined for the ids in use
  owners,      \* context -> set of ids, defined for the contexts that own some
  electronIds  \* object -> id, defined for the registered objects

registryVars == <<nextId, storage, owners, electronIds>>

(* The set that owner key c maps to; no entry owns nothing.                *)
OwnedBy(c) == IF c \in DOMAIN owners THEN owners[c] ELSE {}

(* The contexts whose set has id.                                          *)
Holders(id) == {c \in DOMAIN owners : id \in owners[c]}

(***************************************************************************)
(* Looking up.                                                             *)
(***************************************************************************)
Registered(o) == o \in DOMAIN electronIds

(* Mutation: ids counted from the objects in storage, not from all issued. *)
IdFromStorageSize(o) ==
  IF Registered(o) THEN electronIds[o] ELSE Cardinality(DOMAIN storage) + 1

(* The id saveToStorage returns for o: the one it has, or a fresh one.     *)
IdFor(o) == IF Registered(o) THEN electronIds[o] ELSE nextId + 1

(* get(id) answers an object exactly for the ids in storage.               *)
Stored(id) == id \in DOMAIN storage

(* Mutation: every add counts, also of an id the owner already has.        *)
EveryReference(c, o) == TRUE

(* add counts an owner once, when its id enters the owner's set.           *)
FirstReference(c, o) == IdFor(o) \notin OwnedBy(c)

(***************************************************************************)
(* Dereferencing.  One call per id of a set: clear makes several, remove   *)
(* makes one.  An id that is not in storage is skipped.                    *)
(***************************************************************************)
(* Mutation: the zero test before the decrement.                           *)
ZeroBeforeDecrement(id) == Stored(id) /\ storage[id].count = 0

LastReference(id) == Stored(id) /\ storage[id].count = 1

Dereference(ids) ==
  LET freed == {i \in ids : LastReference(i)} IN
  /\ storage' = [i \in DOMAIN storage \ freed |->
                   [storage[i] EXCEPT !.count = IF i \in ids THEN @ - 1 ELSE @]]
  /\ electronIds' = [o \in DOMAIN electronIds \ {storage[i].object : i \in freed} |->
                       electronIds[o]]

(***************************************************************************)
(* The public methods.                                                     *)
(***************************************************************************)

(* saveToStorage: a registered object keeps its record, a new one gets the *)
(* next id; firstReference says whether add then counts one more owner.    *)
SaveToStorage(o, firstReference) ==
  LET id     == IdFor(o)
      record == IF Registered(o) THEN storage[id] ELSE [count |-> 0, object |-> o]
  IN
  /\ id <= MaxId
  /\ nextId' = IF Registered(o) THEN nextId ELSE id
  /\ storage' = [i \in DOMAIN storage \cup {id} |->
                   IF i # id THEN storage[i]
                   ELSE [record EXCEPT !.count = IF firstReference THEN @ + 1 ELSE @]]
  /\ electronIds' = [x \in DOMAIN electronIds \cup {o} |->
                       IF x = o THEN id ELSE electronIds[x]]

Add(c, o) ==
  /\ SaveToStorage(o, FirstReference(c, o))
  /\ owners' = [d \in DOMAIN owners \cup {c} |->
                  IF d = c THEN OwnedBy(c) \cup {IdFor(o)} ELSE owners[d]]

(* The id leaves the owner's set and is dereferenced, whether or not the   *)
(* set had it; nothing happens for a context without an entry.             *)
Remove(c, id) ==
  IF c \in DOMAIN owners
  THEN /\ owners' = [owners EXCEPT ![c] = @ \ {id}]
       /\ Dereference({id})
       /\ UNCHANGED nextId
  ELSE UNCHANGED registryVars

(* Mutation: the owner entry is deleted, its references are not.           *)
ClearOwnerOnly(c) ==
  /\ owners' = [d \in DOMAIN owners \ {c} |-> owners[d]]
  /\ UNCHANGED <<nextId, storage, electronIds>>

(* Mutation: the references are given back, the owner entry stays.         *)
ClearKeepingOwner(c) ==
  IF c \in DOMAIN owners
  THEN Dereference(owners[c]) /\ UNCHANGED <<nextId, owners>>
  ELSE UNCHANGED registryVars

Clear(c) ==
  IF c \in DOMAIN owners
  THEN /\ owners' = [d \in DOMAIN owners \ {c} |-> owners[d]]
       /\ Dereference(owners[c])
       /\ UNCHANGED nextId
  ELSE UNCHANGED registryVars

(***************************************************************************)
(* The registry under any sequence of calls.  A renderer names only ids it *)
(* was given, but it may name one more often than it was given it.         *)
(***************************************************************************)
RegistryInit ==
  /\ nextId = 0
  /\ storage = [i \in {} |-> {}]
  /\ owners = [c \in {} |-> {}]
  /\ electronIds = [o \in {} |-> 0]

RegistryNext ==
  \E c \in Contexts :
    \/ \E o \in Objects : Add(c, o)
    \/ \E id \in 1 .. nextId : Remove(c, id)
    \/ Clear(c)

RegistrySpec == RegistryInit /\ [][RegistryNext]_registryVars

(***************************************************************************)
(* The same registry when every context gives back only what it holds:     *)
(* what the reference counts rely on.                                      *)
(***************************************************************************)
RemoveOwned(c, id) ==
  /\ c \in DOMAIN owners => id \in owners[c]
  /\ Remove(c, id)

DisciplinedNext ==
  \E c \in Contexts :
    \/ \E o \in Objects : Add(c, o)
    \/ \E id \in 1 .. nextId : RemoveOwned(c, id)
    \/ Clear(c)

DisciplinedSpec == RegistryInit /\ [][DisciplinedNext]_registryVars

(***************************************************************************)
(* Properties.                                                             *)
(***************************************************************************)

(* The variables have their types: ids in use are among those assigned,    *)
(* and a count is never zero or negative between two calls.                *)
RegistryTypeOK ==
  /\ nextId \in 0 .. MaxId
  /\ DOMAIN storage \subseteq 1 .. nextId
  /\ storage \in [DOMAIN storage -> [count : Nat \ {0}, object : Objects]]
  /\ DOMAIN owners \subseteq Contexts
  /\ owners \in [DOMAIN owners -> SUBSET (1 .. nextId)]
  /\ DOMAIN electronIds \subseteq Objects
  /\ electronIds \in [DOMAIN electronIds -> 1 .. nextId]

(* storage and electronIds are inverse to each other: add finds exactly    *)
(* the objects get can return, so one object never has two live ids.       *)
IdsAndObjectsMatch ==
  /\ \A o \in DOMAIN electronIds :
       Stored(electronIds[o]) /\ storage[electronIds[o]].object = o
  /\ \A id \in DOMAIN storage :
       Registered(storage[id].object) /\ electronIds[storage[id].object] = id

(* Whatever calls the contexts make, an object is counted at most once per *)
(* context that holds it: extra removes can only lower a count, so no      *)
(* object is kept alive without an owner.                                  *)
CountsAtMostHolders ==
  \A id \in DOMAIN storage : storage[id].count <= Cardinality(Holders(id))

(* What no context holds is not in storage: clear and remove free it.      *)
NothingKeptWithoutOwner ==
  \A id \in DOMAIN storage : Holders(id) # {}

(* If contexts give back only what they hold, the count of an object is    *)
(* the number of contexts that hold it.                                    *)
CountsAreExact ==
  \A id \in DOMAIN storage : storage[id].count = Cardinality(Holders(id))

(* Then an object stays in storage for as long as a context holds its id.  *)
OwnedIdsAreStored ==
  \A c \in DOMAIN owners : owners[c] \subseteq DOMAIN storage

IdKeepsItsObject ==
  \A id \in 1 .. nextId : Stored(id)' =>
    Stored(id) /\ storage'[id].object = storage[id].object

(* An id means one object for ever: a freed id is not assigned again and   *)
(* the object behind an id never changes, so a stale id reaches the object *)
(* it was issued for or nothing.                                           *)
IdsAreNeverReused == [][IdKeepsItsObject]_registryVars

FreesOnlyItsOwn ==
  \A id \in DOMAIN storage : ~Stored(id)' => Holders(id)' = {}

(* What one context gives back, or the release of its page, never frees an *)
(* object another context still holds.                                     *)
FreedWhenUnheld == [][FreesOnlyItsOwn]_registryVars
==============================================================================
