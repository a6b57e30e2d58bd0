------------------------ MODULE RemoteObjectsProofs ------------------------
(***************************************************************************)
(* The host registry, for every set of contexts and objects and every      *)
(* bound on the ids, and the handlers of remote-server.ts on top of it:    *)
(* whatever features the application uses, whatever the lanes do and       *)
(* whoever crashes, they use the registry as its specification says, every *)
(* id they are sent is one it issued, and it names the object it was       *)
(* issued for.  Without optional features, clients give back what they     *)
(* hold, each reference once, and find all they hold.                      *)
(***************************************************************************)
EXTENDS RemoteObjects, FiniteSetTheorems, TLAPS

(***************************************************************************)
(* PART 1: THE REGISTRY.                                                   *)
(***************************************************************************)

(***************************************************************************)
(* The two ways storage changes.                                           *)
(***************************************************************************)

(* What a dereference of any set of ids leaves: the records it freed are   *)
(* those with one reference left, the others keep their object, and the    *)
(* ids and the objects still match.                                        *)
LEMMA DereferenceEffect ==
  ASSUME RegistryTypeOK, IdsAndObjectsMatch, NEW ids, Dereference(ids), nextId' = nextId
  PROVE  /\ DOMAIN storage' = {i \in DOMAIN storage : ~(i \in ids /\ storage[i].count = 1)}
         /\ \A i \in DOMAIN storage' :
              /\ storage'[i].object = storage[i].object
              /\ storage'[i].count = IF i \in ids THEN storage[i].count - 1
                                                  ELSE storage[i].count
         /\ storage' \in [DOMAIN storage' -> [count : Nat \ {0}, object : Objects]]
         /\ DOMAIN storage' \subseteq 1 .. nextId'
         /\ DOMAIN electronIds' \subseteq Objects
         /\ electronIds' \in [DOMAIN electronIds' -> 1 .. nextId']
         /\ IdsAndObjectsMatch'
<1> DEFINE freed == {i \in ids : LastReference(i)}
           goneObjects == {storage[i].object : i \in freed}
<1>1. /\ DOMAIN storage' = DOMAIN storage \ freed
      /\ \A i \in DOMAIN storage' :
           storage'[i] = [storage[i] EXCEPT !.count = IF i \in ids THEN @ - 1 ELSE @]
      /\ DOMAIN electronIds' = DOMAIN electronIds \ goneObjects
      /\ \A o \in DOMAIN electronIds' : electronIds'[o] = electronIds[o]
  BY DEF Dereference
<1>2. \A i : i \in freed <=> i \in ids /\ i \in DOMAIN storage /\ storage[i].count = 1
  BY DEF LastReference, Stored
<1>3. \A i \in DOMAIN storage :
        /\ storage[i] \in [count : Nat \ {0}, object : Objects]
        /\ i \in 1 .. nextId
  BY DEF RegistryTypeOK
<1>4. ASSUME NEW i \in DOMAIN storage'
      PROVE  /\ storage'[i].object = storage[i].object
             /\ storage'[i].count = IF i \in ids THEN storage[i].count - 1
                                                 ELSE storage[i].count
             /\ storage'[i] \in [count : Nat \ {0}, object : Objects]
  <2>1. i \in DOMAIN storage /\ (i \in ids => storage[i].count # 1)
    BY <1>1, <1>2
  <2>2. storage'[i] = [storage[i] EXCEPT !.count = IF i \in ids THEN @ - 1 ELSE @]
    BY <1>1
  <2> QED BY <2>1, <2>2, <1>3
<1>5. storage' = [i \in DOMAIN storage' |-> storage'[i]]
  BY <1>1 DEF Dereference
<1>6. electronIds' = [o \in DOMAIN electronIds' |-> electronIds'[o]]
  BY <1>1 DEF Dereference
<1>7. /\ DOMAIN electronIds' \subseteq Objects
      /\ \A o \in DOMAIN electronIds' : electronIds'[o] \in 1 .. nextId'
  BY <1>1 DEF RegistryTypeOK
<1>8. ASSUME NEW o \in DOMAIN electronIds'
      PROVE  electronIds'[o] \in DOMAIN storage' /\ storage'[electronIds'[o]].object = o
  <2>1. /\ electronIds'[o] = electronIds[o] /\ o \in DOMAIN electronIds
        /\ o \notin goneObjects
    BY <1>1
  <2>2. electronIds[o] \in DOMAIN storage /\ storage[electronIds[o]].object = o
    BY <2>1 DEF IdsAndObjectsMatch, Stored
  <2>3. electronIds[o] \notin freed
    BY <2>1, <2>2
  <2> QED BY <1>1, <1>4, <2>1, <2>2, <2>3
<1>9. ASSUME NEW id \in DOMAIN storage'
      PROVE  /\ storage'[id].object \in DOMAIN electronIds'
             /\ electronIds'[storage'[id].object] = id
  <2>1. id \in DOMAIN storage /\ id \notin freed /\ storage'[id].object = storage[id].object
    BY <1>1, <1>4
  <2>2. storage[id].object \in DOMAIN electronIds /\ electronIds[storage[id].object] = id
    BY <2>1 DEF IdsAndObjectsMatch, Registered
  <2>3. storage[id].object \notin goneObjects
    <3> SUFFICES ASSUME NEW j \in freed, storage[j].object = storage[id].object
                 PROVE  FALSE
      OBVIOUS
    <3>1. j \in DOMAIN storage
      BY <1>2
    <3>2. electronIds[storage[j].object] = j
      BY <3>1 DEF IdsAndObjectsMatch, Registered
    <3> QED BY <3>2, <2>1, <2>2
  <2> QED BY <1>1, <2>1, <2>2, <2>3
<1>10. IdsAndObjectsMatch'
  BY <1>8, <1>9 DEF IdsAndObjectsMatch, Stored, Registered
<1>11. DOMAIN storage' = {i \in DOMAIN storage : ~(i \in ids /\ storage[i].count = 1)}
  BY <1>1, <1>2
<1>12. storage' \in [DOMAIN storage' -> [count : Nat \ {0}, object : Objects]]
  BY <1>4, <1>5
<1>13. DOMAIN storage' \subseteq 1 .. nextId'
  BY <1>1, <1>3
<1>14. electronIds' \in [DOMAIN electronIds' -> 1 .. nextId']
  BY <1>6, <1>7
<1> QED BY <1>4, <1>7, <1>10, <1>11, <1>12, <1>13, <1>14

(* What add leaves: the object has its old id or the next one, its count   *)
(* grew by one if the owner is new to it, and nothing else changed.        *)
LEMMA AddEffect ==
  ASSUME RegistryTypeOK, IdsAndObjectsMatch,
         NEW c \in Contexts, NEW o \in Objects, Add(c, o)
  PROVE  /\ IdFor(o) \in 1 .. nextId' /\ nextId \in 0 .. nextId' /\ nextId' \in 0 .. MaxId
         /\ ~Registered(o) => IdFor(o) = nextId + 1
         /\ DOMAIN storage' = DOMAIN storage \cup {IdFor(o)}
         /\ IdFor(o) \in DOMAIN storage <=> Registered(o)
         /\ \A i \in DOMAIN storage : i # IdFor(o) => storage'[i] = storage[i]
         /\ storage'[IdFor(o)].object = o
         /\ storage'[IdFor(o)].count =
              (IF Registered(o) THEN storage[IdFor(o)].count ELSE 0)
              + (IF FirstReference(c, o) THEN 1 ELSE 0)
         /\ ~Registered(o) => FirstReference(c, o)
         /\ DOMAIN owners' = DOMAIN owners \cup {c}
         /\ \A d \in DOMAIN owners : d # c => owners'[d] = owners[d]
         /\ owners'[c] = OwnedBy(c) \cup {IdFor(o)}
         /\ RegistryTypeOK' /\ IdsAndObjectsMatch'
<1> DEFINE id == IdFor(o)
           record == IF Registered(o) THEN storage[id] ELSE [count |-> 0, object |-> o]
<1>1. /\ MaxId \in Nat /\ nextId \in Nat /\ id <= MaxId
      /\ nextId' = IF Registered(o) THEN nextId ELSE id
  BY MaxIdAssumption DEF Add, SaveToStorage, RegistryTypeOK
<1>2. Registered(o) =>
        /\ id = electronIds[o] /\ id \in 1 .. nextId /\ id \in DOMAIN storage
        /\ storage[id].object = o
  BY DEF IdFor, Registered, RegistryTypeOK, IdsAndObjectsMatch, Stored
<1>3. ~Registered(o) => id = nextId + 1 /\ id \notin DOMAIN storage
  <2>1. ~Registered(o) => id = nextId + 1
    BY DEF IdFor
  <2> QED BY <2>1, <1>1 DEF RegistryTypeOK
<1>4. id \in 1 .. nextId' /\ nextId \in 0 .. nextId' /\ nextId' \in 0 .. MaxId
  BY <1>1, <1>2, <1>3 DEF RegistryTypeOK
<1>5. \A d \in DOMAIN owners : owners[d] \subseteq 1 .. nextId
  BY DEF RegistryTypeOK
<1>6. OwnedBy(c) \subseteq 1 .. nextId
  BY <1>5 DEF OwnedBy
<1>7. ~Registered(o) => FirstReference(c, o)
  BY <1>1, <1>3, <1>6 DEF FirstReference
<1>8. /\ storage' = [i \in DOMAIN storage \cup {id} |->
           IF i # id THEN storage[i]
           ELSE [record EXCEPT !.count = IF FirstReference(c, o) THEN @ + 1 ELSE @]]
      /\ electronIds' = [x \in DOMAIN electronIds \cup {o} |->
           IF x = o THEN id ELSE electronIds[x]]
      /\ owners' = [d \in DOMAIN owners \cup {c} |->
           IF d = c THEN OwnedBy(c) \cup {id} ELSE owners[d]]
  BY DEF Add, SaveToStorage
<1>9. /\ record \in [count : Nat, object : Objects] /\ record.object = o
      /\ Registered(o) => record.count \in Nat \ {0}
      /\ record.count = IF Registered(o) THEN storage[id].count ELSE 0
  BY <1>2 DEF RegistryTypeOK
<1>10. /\ storage'[id] = [record EXCEPT !.count = IF FirstReference(c, o) THEN @ + 1 ELSE @]
       /\ DOMAIN storage' = DOMAIN storage \cup {id}
       /\ \A i \in DOMAIN storage : i # id => storage'[i] = storage[i]
  BY <1>8
<1>11. /\ storage'[id].object = o
       /\ storage'[id].count = record.count + (IF FirstReference(c, o) THEN 1 ELSE 0)
       /\ storage'[id] \in [count : Nat \ {0}, object : Objects]
  BY <1>7, <1>9, <1>10
<1>12. storage' \in [DOMAIN storage' -> [count : Nat \ {0}, object : Objects]]
  BY <1>8, <1>10, <1>11 DEF RegistryTypeOK
<1>13. owners' \in [DOMAIN owners' -> SUBSET (1 .. nextId')] /\ DOMAIN owners' \subseteq Contexts
  <2>1. 1 .. nextId \subseteq 1 .. nextId'
    BY <1>1, <1>4
  <2>2. \A d \in DOMAIN owners : owners[d] \in SUBSET (1 .. nextId')
    BY <1>5, <2>1
  <2>3. OwnedBy(c) \cup {id} \in SUBSET (1 .. nextId')
    BY <1>4, <1>6, <2>1
  <2> QED BY <1>8, <2>2, <2>3 DEF RegistryTypeOK
<1>14. electronIds' \in [DOMAIN electronIds' -> 1 .. nextId'] /\ DOMAIN electronIds' \subseteq Objects
  <2>1. \A x \in DOMAIN electronIds : electronIds[x] \in 1 .. nextId'
    BY <1>1, <1>4 DEF RegistryTypeOK
  <2> QED BY <1>8, <1>4, <2>1 DEF RegistryTypeOK
<1>15. RegistryTypeOK'
  <2>1. DOMAIN storage' \subseteq 1 .. nextId'
    BY <1>1, <1>4, <1>10 DEF RegistryTypeOK
  <2> QED BY <2>1, <1>4, <1>12, <1>13, <1>14 DEF RegistryTypeOK
<1>16. ASSUME NEW x \in DOMAIN electronIds'
       PROVE  electronIds'[x] \in DOMAIN storage' /\ storage'[electronIds'[x]].object = x
  <2>1. CASE x = o
    BY <2>1, <1>8, <1>10, <1>11
  <2>2. CASE x # o
    <3>1. /\ x \in DOMAIN electronIds /\ electronIds'[x] = electronIds[x]
          /\ electronIds[x] \in DOMAIN storage /\ storage[electronIds[x]].object = x
      BY <2>2, <1>8 DEF IdsAndObjectsMatch, Stored
    <3>2. electronIds[x] # id
      BY <3>1, <2>2, <1>2, <1>3
    <3> QED BY <3>1, <3>2, <1>10
  <2> QED BY <2>1, <2>2
<1>17. ASSUME NEW i \in DOMAIN storage'
       PROVE  storage'[i].object \in DOMAIN electronIds' /\ electronIds'[storage'[i].object] = i
  <2>1. CASE i = id
    BY <2>1, <1>8, <1>11
  <2>2. CASE i # id
    <3>1. /\ i \in DOMAIN storage /\ storage'[i] = storage[i]
          /\ storage[i].object \in DOMAIN electronIds
          /\ electronIds[storage[i].object] = i
      BY <2>2, <1>10 DEF IdsAndObjectsMatch, Registered
    <3>2. storage[i].object # o
      BY <3>1, <2>2, <1>2 DEF Registered
    <3> QED BY <3>1, <3>2, <1>8
  <2> QED BY <2>1, <2>2
<1>18. IdsAndObjectsMatch'
  BY <1>16, <1>17 DEF IdsAndObjectsMatch, Stored, Registered
<1> HIDE DEF id, record
<1>19. IdFor(o) = id
  BY DEF id
<1>20. /\ DOMAIN owners' = DOMAIN owners \cup {c}
       /\ \A d \in DOMAIN owners : d # c => owners'[d] = owners[d]
       /\ owners'[c] = OwnedBy(c) \cup {id}
  BY <1>8
<1> QED BY <1>2, <1>3, <1>4, <1>7, <1>9, <1>10, <1>11, <1>15, <1>18, <1>19, <1>20

(* What remove and clear do to a context that has an entry: ids are        *)
(* dereferenced, and they leave the context's set or the set itself goes.  *)
Release(c, ids) ==
  /\ Dereference(ids) /\ nextId' = nextId
  /\ \/ /\ owners' = [d \in DOMAIN owners \ {c} |-> owners[d]]
        /\ ids = owners[c]
     \/ \E id \in 1 .. nextId :
          ids = {id} /\ owners' = [owners EXCEPT ![c] = @ \ {id}]

LEMMA ReleaseEffect ==
  ASSUME RegistryTypeOK, IdsAndObjectsMatch, NEW c \in DOMAIN owners, NEW ids,
         Release(c, ids)
  PROVE  /\ RegistryTypeOK'
         /\ DOMAIN owners' \subseteq DOMAIN owners
         /\ \A i \in ids : Holders(i)' = Holders(i) \ {c}
         /\ \A i : i \notin ids => Holders(i)' = Holders(i)
<1>0. Dereference(ids) /\ nextId' = nextId
  BY DEF Release
<1>1. /\ DOMAIN storage' \subseteq 1 .. nextId'
      /\ storage' \in [DOMAIN storage' -> [count : Nat \ {0}, object : Objects]]
      /\ DOMAIN electronIds' \subseteq Objects
      /\ electronIds' \in [DOMAIN electronIds' -> 1 .. nextId']
  BY <1>0, DereferenceEffect
<1>2. owners \in [DOMAIN owners -> SUBSET (1 .. nextId)] /\ DOMAIN owners \subseteq Contexts
  BY DEF RegistryTypeOK
<1>3. CASE /\ owners' = [d \in DOMAIN owners \ {c} |-> owners[d]]
           /\ ids = owners[c]
  <2>1. /\ DOMAIN owners' = DOMAIN owners \ {c}
        /\ \A d \in DOMAIN owners' : owners'[d] = owners[d]
    BY <1>3
  <2>2. owners' \in [DOMAIN owners' -> SUBSET (1 .. nextId')]
    BY <1>0, <1>3, <1>2
  <2>3. RegistryTypeOK'
    BY <1>0, <1>1, <1>2, <2>1, <2>2 DEF RegistryTypeOK
  <2>4. \A i : Holders(i)' = Holders(i) \ {c}
    BY <2>1 DEF Holders
  <2>5. \A i : i \notin ids => c \notin Holders(i)
    BY <1>3 DEF Holders
  <2> QED BY <2>1, <2>3, <2>4, <2>5
<1>4. CASE \E id \in 1 .. nextId :
             ids = {id} /\ owners' = [owners EXCEPT ![c] = @ \ {id}]
  <2> PICK id \in 1 .. nextId :
             ids = {id} /\ owners' = [owners EXCEPT ![c] = @ \ {id}]
    BY <1>4
  <2>1. /\ DOMAIN owners' = DOMAIN owners
        /\ \A d \in DOMAIN owners : d # c => owners'[d] = owners[d]
        /\ owners'[c] = owners[c] \ {id}
    BY <1>2
  <2>2. owners' \in [DOMAIN owners' -> SUBSET (1 .. nextId')]
    BY <1>0, <1>2, <2>1
  <2>3. RegistryTypeOK'
    BY <1>0, <1>1, <1>2, <2>1, <2>2 DEF RegistryTypeOK
  <2>4. Holders(id)' = Holders(id) \ {c}
    BY <2>1 DEF Holders
  <2>5. \A i : i # id => Holders(i)' = Holders(i)
    BY <2>1 DEF Holders
  <2> QED BY <2>1, <2>3, <2>4, <2>5
<1> QED BY <1>3, <1>4 DEF Release

(* A call is an add, or it releases ids of a context that has an entry, or *)
(* it leaves the registry as it is.                                        *)
LEMMA RemoveIsRelease ==
  ASSUME NEW c \in DOMAIN owners, NEW id \in 1 .. nextId, Remove(c, id)
  PROVE  Release(c, {id})
BY DEF Remove, Release

LEMMA ClearIsRelease ==
  ASSUME NEW c \in DOMAIN owners, Clear(c)
  PROVE  Release(c, owners[c])
BY DEF Clear, Release

LEMMA NextCases ==
  ASSUME [RegistryNext]_registryVars
  PROVE  \/ \E c \in Contexts, o \in Objects : Add(c, o)
         \/ \E c \in DOMAIN owners : \E ids : Release(c, ids)
         \/ UNCHANGED registryVars
<1>1. ASSUME NEW c \in Contexts, c \notin DOMAIN owners,
             Clear(c) \/ \E id \in 1 .. nextId : Remove(c, id)
      PROVE  UNCHANGED registryVars
  BY <1>1 DEF Clear, Remove
<1> QED BY <1>1, RemoveIsRelease, ClearIsRelease DEF RegistryNext

(***************************************************************************)
(* Type correctness, and the match of ids and objects.                     *)
(***************************************************************************)
RegistryIInv == RegistryTypeOK /\ IdsAndObjectsMatch /\ IsFiniteSet(DOMAIN owners)

LEMMA RegistryInitIInv == RegistryInit => RegistryIInv
<1> SUFFICES ASSUME RegistryInit PROVE RegistryIInv
  OBVIOUS
<1>1. /\ nextId = 0 /\ DOMAIN storage = {} /\ DOMAIN owners = {}
      /\ DOMAIN electronIds = {}
  BY DEF RegistryInit
<1>2. RegistryTypeOK
  BY <1>1, MaxIdAssumption DEF RegistryInit, RegistryTypeOK
<1>3. IdsAndObjectsMatch
  BY <1>1 DEF IdsAndObjectsMatch
<1> QED BY <1>1, <1>2, <1>3, FS_EmptySet DEF RegistryIInv

LEMMA RegistryStepIInv == RegistryIInv /\ [RegistryNext]_registryVars => RegistryIInv'
<1> SUFFICES ASSUME RegistryIInv, [RegistryNext]_registryVars PROVE RegistryIInv'
  OBVIOUS
<1> USE DEF RegistryIInv
<1>1. ASSUME NEW c \in Contexts, NEW o \in Objects, Add(c, o)
      PROVE  RegistryIInv'
  <2>1. /\ RegistryTypeOK' /\ IdsAndObjectsMatch'
        /\ DOMAIN owners' = DOMAIN owners \cup {c}
    BY <1>1, AddEffect
  <2>2. IsFiniteSet(DOMAIN owners \cup {c})
    BY FS_AddElement
  <2> QED BY <2>1, <2>2
<1>2. ASSUME NEW c \in DOMAIN owners, NEW ids, Release(c, ids)
      PROVE  RegistryIInv'
  <2>1. RegistryTypeOK' /\ DOMAIN owners' \subseteq DOMAIN owners
    BY <1>2, ReleaseEffect
  <2>2. IdsAndObjectsMatch'
    BY <1>2, DereferenceEffect DEF Release
  <2> QED BY <2>1, <2>2, FS_Subset
<1>3. CASE UNCHANGED registryVars
  BY <1>3 DEF registryVars, RegistryTypeOK, IdsAndObjectsMatch, Stored, Registered
<1> QED BY <1>1, <1>2, <1>3, NextCases

(* The registry keeps its types: every id in use was assigned, and no      *)
(* count is zero or negative between two calls.                            *)
THEOREM RegistryTypeCorrect == RegistrySpec => []RegistryTypeOK
<1>1. RegistryIInv => RegistryTypeOK
  BY DEF RegistryIInv
<1> QED BY <1>1, RegistryInitIInv, RegistryStepIInv, PTL DEF RegistrySpec

(* storage and electronIds stay inverse to each other under any calls, so  *)
(* add never counts a record that is not there.                            *)
THEOREM RegistryIdsMatch == RegistrySpec => []IdsAndObjectsMatch
<1>1. RegistryIInv => IdsAndObjectsMatch
  BY DEF RegistryIInv
<1> QED BY <1>1, RegistryInitIInv, RegistryStepIInv, PTL DEF RegistrySpec

(* One call neither assigns a freed id nor changes the object of an id.     *)
LEMMA StepKeepsIds ==
  ASSUME RegistryIInv, [RegistryNext]_registryVars
  PROVE  IdKeepsItsObject
<1> USE DEF RegistryIInv
<1> SUFFICES ASSUME NEW id \in 1 .. nextId, Stored(id)'
             PROVE  Stored(id) /\ storage'[id].object = storage[id].object
  BY DEF IdKeepsItsObject
<1>1. ASSUME NEW c \in Contexts, NEW o \in Objects, Add(c, o)
      PROVE  Stored(id) /\ storage'[id].object = storage[id].object
  <2>1. /\ DOMAIN storage' = DOMAIN storage \cup {IdFor(o)}
        /\ IdFor(o) \in DOMAIN storage <=> Registered(o)
        /\ \A i \in DOMAIN storage : i # IdFor(o) => storage'[i] = storage[i]
        /\ storage'[IdFor(o)].object = o
        /\ ~Registered(o) => IdFor(o) = nextId + 1
    BY <1>1, AddEffect
  <2>2. CASE id # IdFor(o)
    BY <2>1, <2>2 DEF Stored
  <2>3. CASE id = IdFor(o)
    <3>1. Registered(o)
      BY <2>1, <2>3 DEF RegistryTypeOK
    <3>2. storage[id].object = o
      BY <3>1, <2>3 DEF IdFor, IdsAndObjectsMatch, Registered
    <3> QED BY <2>1, <2>3, <3>1, <3>2 DEF Stored
  <2> QED BY <2>2, <2>3
<1>2. ASSUME NEW c \in DOMAIN owners, NEW ids, Release(c, ids)
      PROVE  Stored(id) /\ storage'[id].object = storage[id].object
  BY <1>2, DereferenceEffect DEF Stored, Release
<1>3. CASE UNCHANGED registryVars
  BY <1>3 DEF registryVars, Stored
<1> QED BY <1>1, <1>2, <1>3, NextCases

(* A freed id is never assigned again and an id never changes its object:  *)
(* a proxy with a stale id can only fail, never reach another object.      *)
THEOREM RegistryNeverReusesIds == RegistrySpec => IdsAreNeverReused
<1>1. RegistryIInv /\ [RegistryNext]_registryVars => [IdKeepsItsObject]_registryVars
  BY StepKeepsIds
<1> QED BY <1>1, RegistryInitIInv, RegistryStepIInv, PTL DEF RegistrySpec, IdsAreNeverReused

(***************************************************************************)
(* The reference counts.                                                   *)
(***************************************************************************)

(* An add makes the context a holder of the object's id, and of no other.  *)
LEMMA AddHolders ==
  ASSUME RegistryTypeOK, IdsAndObjectsMatch,
         NEW c \in Contexts, NEW o \in Objects, Add(c, o)
  PROVE  /\ \A i : i = IdFor(o) => Holders(i)' = Holders(i) \cup {c}
         /\ \A i : i # IdFor(o) => Holders(i)' = Holders(i)
         /\ FirstReference(c, o) <=> c \notin Holders(IdFor(o))
<1>1. /\ DOMAIN owners' = DOMAIN owners \cup {c}
      /\ \A d \in DOMAIN owners : d # c => owners'[d] = owners[d]
      /\ owners'[c] = OwnedBy(c) \cup {IdFor(o)}
  BY AddEffect
<1>2. \A i : i \in OwnedBy(c) <=> c \in Holders(i)
  BY DEF OwnedBy, Holders
<1>3. \A i, d : d \in Holders(i)' <=> d \in DOMAIN owners' /\ i \in owners'[d]
  BY DEF Holders
<1>4. \A i, d : d \in Holders(i) <=> d \in DOMAIN owners /\ i \in owners[d]
  BY DEF Holders
<1>5. ASSUME NEW i, NEW d
      PROVE  d \in Holders(i)' <=> d \in Holders(i) \/ (d = c /\ i = IdFor(o))
  <2>1. CASE d = c
    BY <2>1, <1>1, <1>2, <1>3
  <2>2. CASE d # c
    BY <2>2, <1>1, <1>3, <1>4
  <2> QED BY <2>1, <2>2
<1>6. ASSUME NEW i, i = IdFor(o) PROVE Holders(i)' = Holders(i) \cup {c}
  BY <1>5, <1>6
<1>7. ASSUME NEW i, i # IdFor(o) PROVE Holders(i)' = Holders(i)
  BY <1>5, <1>7
<1>8. FirstReference(c, o) <=> c \notin Holders(IdFor(o))
  BY <1>2 DEF FirstReference
<1> QED BY <1>6, <1>7, <1>8

LEMMA HoldersFinite ==
  ASSUME IsFiniteSet(DOMAIN owners), NEW i
  PROVE  IsFiniteSet(Holders(i)) /\ Cardinality(Holders(i)) \in Nat
<1>1. Holders(i) \subseteq DOMAIN owners
  BY DEF Holders
<1> QED BY <1>1, FS_Subset, FS_CardinalityType

(* How many contexts hold the id an add hands out, before and after.       *)
LEMMA AddHolderCount ==
  ASSUME RegistryIInv, NEW c \in Contexts, NEW o \in Objects, Add(c, o),
         NEW i, i = IdFor(o)
  PROVE  Cardinality(Holders(i)') =
           Cardinality(Holders(i)) + (IF FirstReference(c, o) THEN 1 ELSE 0)
<1>1. /\ Holders(i)' = Holders(i) \cup {c}
      /\ FirstReference(c, o) <=> c \notin Holders(i)
  BY AddHolders DEF RegistryIInv
<1>2. IsFiniteSet(Holders(i)) /\ Cardinality(Holders(i)) \in Nat
  BY HoldersFinite DEF RegistryIInv
<1>3. CASE c \in Holders(i)
  <2>1. Holders(i)' = Holders(i)
    BY <1>1, <1>3
  <2>2. Cardinality(Holders(i)') = Cardinality(Holders(i)) + 0
    BY <1>2, <2>1
  <2> QED BY <1>1, <1>3, <2>2
<1>4. CASE c \notin Holders(i)
  <2>1. Cardinality(Holders(i) \cup {c}) = Cardinality(Holders(i)) + 1
    BY <1>2, <1>4, FS_AddElement
  <2> QED BY <1>1, <1>4, <2>1
<1> QED BY <1>3, <1>4

(* How many contexts hold a dereferenced id, before and after.             *)
LEMMA ReleaseHolderCount ==
  ASSUME RegistryIInv, NEW c \in DOMAIN owners, NEW ids, Release(c, ids),
         NEW i \in ids
  PROVE  Cardinality(Holders(i)') =
           Cardinality(Holders(i)) - (IF c \in Holders(i) THEN 1 ELSE 0)
<1>1. Holders(i)' = Holders(i) \ {c}
  BY ReleaseEffect DEF RegistryIInv
<1>2. IsFiniteSet(Holders(i)) /\ Cardinality(Holders(i)) \in Nat
  BY HoldersFinite DEF RegistryIInv
<1>3. CASE c \in Holders(i)
  <2>1. Cardinality(Holders(i) \ {c}) = Cardinality(Holders(i)) - 1
    BY <1>2, <1>3, FS_RemoveElement
  <2> QED BY <1>1, <1>3, <2>1
<1>4. CASE c \notin Holders(i)
  <2>1. Holders(i)' = Holders(i)
    BY <1>1, <1>4
  <2> QED BY <1>2, <1>4, <2>1
<1> QED BY <1>3, <1>4

(* No count exceeds the number of holders, whatever the contexts remove.   *)
LEMMA CountsStep ==
  RegistryIInv /\ CountsAtMostHolders /\ [RegistryNext]_registryVars => CountsAtMostHolders'
<1> SUFFICES ASSUME RegistryIInv, CountsAtMostHolders, [RegistryNext]_registryVars,
                    NEW id \in DOMAIN storage'
             PROVE  storage'[id].count <= Cardinality(Holders(id)')
  BY DEF CountsAtMostHolders
<1>0. RegistryTypeOK /\ IdsAndObjectsMatch
  BY DEF RegistryIInv
<1>1. \A i \in DOMAIN storage :
        /\ storage[i].count \in Nat \ {0}
        /\ storage[i].count <= Cardinality(Holders(i))
  BY <1>0 DEF RegistryTypeOK, CountsAtMostHolders
<1>2. \A i : Cardinality(Holders(i)) \in Nat
  BY HoldersFinite DEF RegistryIInv
<1>3. ASSUME NEW c \in Contexts, NEW o \in Objects, Add(c, o)
      PROVE  storage'[id].count <= Cardinality(Holders(id)')
  <2>1. CASE id = IdFor(o)
    <3>1. /\ storage'[id].count =
                (IF Registered(o) THEN storage[id].count ELSE 0)
                + (IF FirstReference(c, o) THEN 1 ELSE 0)
          /\ Registered(o) => id \in DOMAIN storage
      BY <1>0, <1>3, <2>1, AddEffect
    <3>2. Cardinality(Holders(id)') =
            Cardinality(Holders(id)) + (IF FirstReference(c, o) THEN 1 ELSE 0)
      BY <1>3, <2>1, AddHolderCount
    <3> QED BY <1>1, <1>2, <3>1, <3>2
  <2>2. CASE id # IdFor(o)
    <3>1. id \in DOMAIN storage /\ storage'[id] = storage[id]
      <4>1. /\ DOMAIN storage' = DOMAIN storage \cup {IdFor(o)}
            /\ \A i \in DOMAIN storage : i # IdFor(o) => storage'[i] = storage[i]
        BY <1>0, <1>3, AddEffect
      <4> QED BY <4>1, <2>2
    <3>2. Holders(id)' = Holders(id)
      BY <1>0, <1>3, <2>2, AddHolders
    <3> QED BY <1>1, <3>1, <3>2
  <2> QED BY <2>1, <2>2
<1>4. ASSUME NEW c \in DOMAIN owners, NEW ids, Release(c, ids)
      PROVE  storage'[id].count <= Cardinality(Holders(id)')
  <2>1. /\ id \in DOMAIN storage
        /\ storage'[id].count = IF id \in ids THEN storage[id].count - 1
                                               ELSE storage[id].count
    BY <1>0, <1>4, DereferenceEffect DEF Release
  <2>2. CASE id \in ids
    <3>1. Cardinality(Holders(id)') =
            Cardinality(Holders(id)) - (IF c \in Holders(id) THEN 1 ELSE 0)
      BY <1>4, <2>2, ReleaseHolderCount
    <3> QED BY <1>1, <1>2, <2>1, <2>2, <3>1
  <2>3. CASE id \notin ids
    <3>1. Holders(id)' = Holders(id)
      BY <1>0, <1>4, <2>3, ReleaseEffect
    <3> QED BY <1>1, <2>1, <2>3, <3>1
  <2> QED BY <2>2, <2>3
<1>5. CASE UNCHANGED registryVars
  <2>1. id \in DOMAIN storage /\ storage' = storage /\ Holders(id)' = Holders(id)
    BY <1>5 DEF registryVars, Holders
  <2> QED BY <2>1, <1>1
<1> QED BY <1>3, <1>4, <1>5, NextCases

THEOREM RegistryCountsAtMostHolders == RegistrySpec => []CountsAtMostHolders
<1>1. RegistryInit => CountsAtMostHolders
  BY DEF RegistryInit, CountsAtMostHolders
<1> QED BY <1>1, RegistryInitIInv, RegistryStepIInv, CountsStep, PTL DEF RegistrySpec

(* An object that no context holds is not in storage: extra removes can    *)
(* free an object too early, they never keep one alive.                    *)
THEOREM RegistryKeepsNothingWithoutOwner == RegistrySpec => []NothingKeptWithoutOwner
<1>1. RegistryIInv /\ CountsAtMostHolders => NothingKeptWithoutOwner
  <2> SUFFICES ASSUME RegistryIInv, CountsAtMostHolders,
                      NEW id \in DOMAIN storage, Holders(id) = {}
               PROVE  FALSE
    BY DEF NothingKeptWithoutOwner
  <2>1. storage[id].count \in Nat \ {0} /\ storage[id].count <= Cardinality(Holders(id))
    BY DEF RegistryIInv, RegistryTypeOK, CountsAtMostHolders
  <2>2. Cardinality(Holders(id)) = 0
    BY FS_EmptySet
  <2> QED BY <2>1, <2>2
<1>2. RegistrySpec => []RegistryIInv
  BY RegistryInitIInv, RegistryStepIInv, PTL DEF RegistrySpec
<1> QED BY <1>1, <1>2, RegistryCountsAtMostHolders, PTL

(***************************************************************************)
(* The registry when contexts give back only what they hold.               *)
(***************************************************************************)
LEMMA DisciplinedIsNext == [DisciplinedNext]_registryVars => [RegistryNext]_registryVars
BY DEF DisciplinedNext, RegistryNext, RemoveOwned

LEMMA DisciplinedCases ==
  ASSUME [DisciplinedNext]_registryVars
  PROVE  \/ \E c \in Contexts, o \in Objects : Add(c, o)
         \/ \E c \in DOMAIN owners : \E ids :
              Release(c, ids) /\ \A i \in ids : c \in Holders(i)
         \/ UNCHANGED registryVars
<1>1. ASSUME NEW c \in Contexts, c \notin DOMAIN owners,
             Clear(c) \/ \E id \in 1 .. nextId : RemoveOwned(c, id)
      PROVE  UNCHANGED registryVars
  BY <1>1 DEF Clear, Remove, RemoveOwned
<1>2. ASSUME NEW c \in DOMAIN owners, NEW id \in 1 .. nextId, RemoveOwned(c, id)
      PROVE  Release(c, {id}) /\ \A i \in {id} : c \in Holders(i)
  BY <1>2, RemoveIsRelease DEF RemoveOwned, Holders
<1>3. ASSUME NEW c \in DOMAIN owners, Clear(c)
      PROVE  Release(c, owners[c]) /\ \A i \in owners[c] : c \in Holders(i)
  BY <1>3, ClearIsRelease DEF Holders
<1>4. ASSUME NEW c \in Contexts, c \in DOMAIN owners,
             Clear(c) \/ \E id \in 1 .. nextId : RemoveOwned(c, id)
      PROVE  \E d \in DOMAIN owners : \E ids :
               Release(d, ids) /\ \A i \in ids : d \in Holders(i)
  <2>1. CASE Clear(c)
    <3> WITNESS c \in DOMAIN owners, owners[c]
    <3> QED BY <1>3, <1>4, <2>1
  <2>2. CASE \E id \in 1 .. nextId : RemoveOwned(c, id)
    <3> PICK id \in 1 .. nextId : RemoveOwned(c, id)
      BY <2>2
    <3> WITNESS c \in DOMAIN owners, {id}
    <3> QED BY <1>2, <1>4
  <2> QED BY <1>4, <2>1, <2>2
<1> QED BY <1>1, <1>4 DEF DisciplinedNext

DisciplinedIInv == RegistryIInv /\ CountsAreExact /\ OwnedIdsAreStored

(* Every id that a dereference frees was held by that context alone.       *)
LEMMA FreedHadOneHolder ==
  ASSUME DisciplinedIInv, NEW c \in DOMAIN owners, NEW ids, Release(c, ids),
         \A i \in ids : c \in Holders(i),
         NEW id \in DOMAIN storage, id \notin DOMAIN storage'
  PROVE  Holders(id)' = {}
<1>1. id \in ids /\ storage[id].count = 1
  BY DereferenceEffect DEF Release, DisciplinedIInv, RegistryIInv
<1>2. Cardinality(Holders(id)) = 1
  BY <1>1 DEF DisciplinedIInv, CountsAreExact
<1>3. Cardinality(Holders(id)') = 0
  <2>1. Cardinality(Holders(id)') = Cardinality(Holders(id)) - 1
    BY <1>1, ReleaseHolderCount DEF DisciplinedIInv
  <2> QED BY <1>2, <2>1
<1>4. Holders(id)' = Holders(id) \ {c}
  BY <1>1, ReleaseEffect DEF DisciplinedIInv, RegistryIInv
<1>5. IsFiniteSet(Holders(id) \ {c})
  BY HoldersFinite, FS_RemoveElement DEF DisciplinedIInv, RegistryIInv
<1> QED BY <1>3, <1>4, <1>5, FS_EmptySet

LEMMA DisciplinedStep ==
  DisciplinedIInv /\ [DisciplinedNext]_registryVars => DisciplinedIInv'
<1> SUFFICES ASSUME DisciplinedIInv, [DisciplinedNext]_registryVars
             PROVE  DisciplinedIInv'
  OBVIOUS
<1>0. RegistryIInv /\ RegistryTypeOK /\ IdsAndObjectsMatch /\ CountsAreExact /\ OwnedIdsAreStored
  BY DEF DisciplinedIInv, RegistryIInv
<1>1. RegistryIInv'
  BY <1>0, DisciplinedIsNext, RegistryStepIInv
<1>2. \A i \in DOMAIN storage :
        storage[i].count \in Nat \ {0} /\ storage[i].count = Cardinality(Holders(i))
  BY <1>0 DEF RegistryTypeOK, CountsAreExact
<1>3. \A i : Cardinality(Holders(i)) \in Nat
  BY <1>0, HoldersFinite DEF RegistryIInv
<1>4. \A i : i \notin DOMAIN storage => Holders(i) = {}
  BY <1>0 DEF OwnedIdsAreStored, Holders
<1>5. ASSUME NEW c \in Contexts, NEW o \in Objects, Add(c, o)
      PROVE  CountsAreExact' /\ OwnedIdsAreStored'
  <2>1. /\ DOMAIN storage' = DOMAIN storage \cup {IdFor(o)}
        /\ IdFor(o) \in DOMAIN storage <=> Registered(o)
        /\ \A i \in DOMAIN storage : i # IdFor(o) => storage'[i] = storage[i]
        /\ storage'[IdFor(o)].count =
             (IF Registered(o) THEN storage[IdFor(o)].count ELSE 0)
             + (IF FirstReference(c, o) THEN 1 ELSE 0)
    BY <1>0, <1>5, AddEffect
  <2>2. ASSUME NEW id \in DOMAIN storage'
        PROVE  storage'[id].count = Cardinality(Holders(id)')
    <3>1. CASE id = IdFor(o)
      <4>1. Cardinality(Holders(id)') =
              Cardinality(Holders(id)) + (IF FirstReference(c, o) THEN 1 ELSE 0)
        BY <1>0, <1>5, <3>1, AddHolderCount
      <4>2. ~Registered(o) => Cardinality(Holders(id)) = 0
        BY <1>4, <2>1, <3>1, FS_EmptySet
      <4>3. Registered(o) => storage[id].count = Cardinality(Holders(id))
        BY <1>2, <2>1, <3>1
      <4> QED BY <1>3, <2>1, <3>1, <4>1, <4>2, <4>3
    <3>2. CASE id # IdFor(o)
      <4>1. Holders(id)' = Holders(id)
        BY <1>0, <1>5, <3>2, AddHolders
      <4> QED BY <1>2, <2>1, <3>2, <4>1
    <3> QED BY <3>1, <3>2
  <2>3. ASSUME NEW d \in DOMAIN owners', NEW id \in owners'[d]
        PROVE  id \in DOMAIN storage'
    <3>1. d \in Holders(id)'
      BY <2>3 DEF Holders
    <3>2. CASE id = IdFor(o)
      BY <2>1, <3>2
    <3>3. CASE id # IdFor(o)
      <4>1. d \in Holders(id)
        BY <1>0, <1>5, <3>1, <3>3, AddHolders
      <4> QED BY <1>4, <2>1, <4>1
    <3> QED BY <3>2, <3>3
  <2> QED BY <2>2, <2>3 DEF CountsAreExact, OwnedIdsAreStored
<1>6. ASSUME NEW c \in DOMAIN owners, NEW ids, Release(c, ids),
             \A i \in ids : c \in Holders(i)
      PROVE  CountsAreExact' /\ OwnedIdsAreStored'
  <2>1. ASSUME NEW id \in DOMAIN storage'
        PROVE  storage'[id].count = Cardinality(Holders(id)')
    <3>1. /\ id \in DOMAIN storage
          /\ storage'[id].count = IF id \in ids THEN storage[id].count - 1
                                                 ELSE storage[id].count
      BY <1>0, <1>6, DereferenceEffect DEF Release
    <3>2. CASE id \in ids
      <4>1. Cardinality(Holders(id)') = Cardinality(Holders(id)) - 1
        BY <1>0, <1>6, <3>2, ReleaseHolderCount
      <4> QED BY <1>2, <3>1, <3>2, <4>1
    <3>3. CASE id \notin ids
      <4>1. Holders(id)' = Holders(id)
        BY <1>0, <1>6, <3>3, ReleaseEffect
      <4> QED BY <1>2, <3>1, <3>3, <4>1
    <3> QED BY <3>2, <3>3
  <2>2. ASSUME NEW d \in DOMAIN owners', NEW id \in owners'[d]
        PROVE  id \in DOMAIN storage'
    <3>1. d \in Holders(id)'
      BY <2>2 DEF Holders
    <3>2. d \in Holders(id)
      <4>1. CASE id \in ids
        <5>1. Holders(id)' = Holders(id) \ {c}
          BY <1>0, <1>6, <4>1, ReleaseEffect
        <5> QED BY <3>1, <5>1
      <4>2. CASE id \notin ids
        <5>1. Holders(id)' = Holders(id)
          BY <1>0, <1>6, <4>2, ReleaseEffect
        <5> QED BY <3>1, <5>1
      <4> QED BY <4>1, <4>2
    <3>3. id \in DOMAIN storage
      BY <1>4, <3>2
    <3> QED BY <1>6, <3>1, <3>3, FreedHadOneHolder
  <2> QED BY <2>1, <2>2 DEF CountsAreExact, OwnedIdsAreStored
<1>7. ASSUME UNCHANGED registryVars
      PROVE  CountsAreExact' /\ OwnedIdsAreStored'
  BY <1>7, <1>0 DEF registryVars, CountsAreExact, OwnedIdsAreStored, Holders
<1>8. CountsAreExact' /\ OwnedIdsAreStored'
  BY <1>5, <1>6, <1>7, DisciplinedCases
<1> QED BY <1>1, <1>8 DEF DisciplinedIInv

LEMMA DisciplinedInit == RegistryInit => DisciplinedIInv
<1>1. RegistryInit => CountsAreExact /\ OwnedIdsAreStored
  BY DEF RegistryInit, CountsAreExact, OwnedIdsAreStored
<1> QED BY <1>1, RegistryInitIInv DEF DisciplinedIInv

(* When no context gives back an id it does not hold, every count is the   *)
(* number of contexts that hold the object.                                *)
THEOREM DisciplinedCountsExact == DisciplinedSpec => []CountsAreExact
<1>1. DisciplinedIInv => CountsAreExact
  BY DEF DisciplinedIInv
<1> QED BY <1>1, DisciplinedInit, DisciplinedStep, PTL DEF DisciplinedSpec

(* ... and no id that a context holds has left storage: the object behind  *)
(* it is alive until the last context lets go.                             *)
THEOREM DisciplinedOwnedStored == DisciplinedSpec => []OwnedIdsAreStored
<1>1. DisciplinedIInv => OwnedIdsAreStored
  BY DEF DisciplinedIInv
<1> QED BY <1>1, DisciplinedInit, DisciplinedStep, PTL DEF DisciplinedSpec

(* The step that takes an object out of storage is the one that takes its  *)
(* id from its last holder.                                                *)
THEOREM DisciplinedFreesUnheld == DisciplinedSpec => FreedWhenUnheld
<1>1. ASSUME DisciplinedIInv, [DisciplinedNext]_registryVars
      PROVE  FreesOnlyItsOwn
  <2> SUFFICES ASSUME NEW id \in DOMAIN storage, id \notin DOMAIN storage'
               PROVE  Holders(id)' = {}
    BY DEF FreesOnlyItsOwn, Stored
  <2>1. ASSUME NEW c \in Contexts, NEW o \in Objects, Add(c, o)
        PROVE  FALSE
    BY <1>1, <2>1, AddEffect DEF DisciplinedIInv, RegistryIInv
  <2>2. ASSUME NEW c \in DOMAIN owners, NEW ids, Release(c, ids),
               \A i \in ids : c \in Holders(i)
        PROVE  Holders(id)' = {}
    BY <1>1, <2>2, FreedHadOneHolder
  <2>3. CASE UNCHANGED registryVars
    BY <2>3 DEF registryVars
  <2> QED BY <1>1, <2>1, <2>2, <2>3, DisciplinedCases
<1>2. DisciplinedIInv /\ [DisciplinedNext]_registryVars => [FreesOnlyItsOwn]_registryVars
  BY <1>1
<1> QED BY <1>2, DisciplinedInit, DisciplinedStep, PTL DEF DisciplinedSpec, FreedWhenUnheld

(***************************************************************************)
(* PART 2: THE REMOTE MODULE.                                              *)
(***************************************************************************)

(***************************************************************************)
(* Sequences, and networks of them: context -> lane -> sequence.           *)
(***************************************************************************)
LEMMA SeqStep ==
  ASSUME NEW S, NEW s \in Seq(S)
  PROVE  /\ \A e \in S : Append(s, e) \in Seq(S)
         /\ s # <<>> => Head(s) \in S /\ Tail(s) \in Seq(S)
OBVIOUS

LEMMA SeqMonotone ==
  ASSUME NEW S, NEW T, S \subseteq T, NEW s \in Seq(S)
  PROVE  s \in Seq(T)
<1>1. s \in [1 .. Len(s) -> S] /\ Len(s) \in Nat
  OBVIOUS
<1>2. s \in [1 .. Len(s) -> T]
  BY <1>1
<1> QED
  BY <1>1, <1>2

Network(S) == [Contexts -> [Lanes -> Seq(S)]]

LEMMA NetworkMonotone ==
  ASSUME NEW S, NEW T, S \subseteq T, NEW n \in Network(S)
  PROVE  n \in Network(T)
<1>1. \A c \in Contexts, l \in Lanes : n[c][l] \in Seq(T)
  BY SeqMonotone DEF Network
<1> QED
  BY <1>1 DEF Network

LEMMA NetworkAppend ==
  ASSUME NEW S, NEW n \in Network(S), NEW c \in Contexts, NEW l \in Lanes, NEW e \in S
  PROVE  [n EXCEPT ![c][l] = Append(@, e)] \in Network(S)
<1>1. Append(n[c][l], e) \in Seq(S)
  BY SeqStep DEF Network
<1> QED
  BY <1>1 DEF Network

LEMMA NetworkTail ==
  ASSUME NEW S, NEW n \in Network(S), NEW c \in Contexts, NEW l \in Lanes, n[c][l] # <<>>
  PROVE  /\ [n EXCEPT ![c][l] = Tail(@)] \in Network(S)
         /\ Head(n[c][l]) \in S
<1>1. Tail(n[c][l]) \in Seq(S) /\ Head(n[c][l]) \in S
  BY SeqStep DEF Network
<1> QED
  BY <1>1 DEF Network

(***************************************************************************)
(* What the registry has issued: ids up to nextId, each for one object.    *)
(***************************************************************************)
Issued(id, o) ==
  id \in 1 .. nextId /\ o \in Objects /\ (Stored(id) => storage[id].object = o)

IssuedMetas ==
  {m \in [id : Nat, object : Objects \cup {NoObject}] : m = Plain \/ Issued(m.id, m.object)}

IssuedMessages ==
  {m \in [op : {"Require", "Call", "CallAsync", "Dereference", "ContextRelease"}, id : Nat] :
     m.op = "Dereference" => m.id \in 1 .. nextId}

(* A client holds, and both sides send, only what was issued.              *)
ClientIssued ==
  /\ proxies = [c \in Contexts |-> proxies[c]]
  /\ \A c \in Contexts : \A id \in DOMAIN proxies[c] : Issued(id, proxies[c][id])
  /\ cache \in [Contexts -> SUBSET (1 .. nextId)]
  /\ pinned \in [Contexts -> SUBSET (1 .. nextId)]

NetworkIssued ==
  /\ toHost \in Network(IssuedMessages)
  /\ toClient \in Network(IssuedMetas)
  /\ replies \in [Contexts -> Seq(IssuedMetas)]

LanesOK == clientLane \in [Contexts -> Lanes] /\ hostLane \in [Contexts -> Lanes]

RemoteIInv == RegistryIInv /\ ClientIssued /\ NetworkIssued /\ LanesOK

(* What was issued stays issued, whatever call is made on the registry.    *)
LEMMA IssuedMonotone ==
  ASSUME RegistryIInv, [RegistryNext]_registryVars
  PROVE  /\ nextId \in Nat /\ nextId' \in Nat /\ nextId <= nextId'
         /\ \A id, o : Issued(id, o) => Issued(id, o)'
         /\ IssuedMetas \subseteq IssuedMetas'
         /\ IssuedMessages \subseteq IssuedMessages'
<1>1. /\ nextId \in Nat /\ nextId' \in Nat /\ nextId <= nextId'
  <2>1. RegistryIInv'
    BY RegistryStepIInv
  <2>2. nextId \in Nat /\ nextId' \in Nat
    BY <2>1, MaxIdAssumption DEF RegistryIInv, RegistryTypeOK
  <2>3. ASSUME NEW c \in Contexts, NEW o \in Objects, Add(c, o)
        PROVE  nextId <= nextId'
    <3>1. nextId \in 0 .. nextId'
      BY <2>3, AddEffect DEF RegistryIInv
    <3> QED BY <2>2, <3>1
  <2>4. (\E c \in DOMAIN owners : \E ids : Release(c, ids)) => nextId' = nextId
    BY DEF Release
  <2>5. UNCHANGED registryVars => nextId' = nextId
    BY DEF registryVars
  <2> QED BY <2>2, <2>3, <2>4, <2>5, NextCases
<1>2. \A id, o : Issued(id, o) => Issued(id, o)'
  BY <1>1, StepKeepsIds DEF Issued, IdKeepsItsObject
<1>3. IssuedMetas \subseteq IssuedMetas'
  BY <1>2 DEF IssuedMetas
<1>4. IssuedMessages \subseteq IssuedMessages'
  BY <1>1 DEF IssuedMessages
<1> QED BY <1>1, <1>2, <1>3, <1>4

(* So what a step leaves alone stays right.                                *)
LEMMA Carried ==
  ASSUME RemoteIInv, [RegistryNext]_registryVars
  PROVE  /\ RegistryIInv'
         /\ UNCHANGED <<proxies, cache, pinned>> => ClientIssued'
         /\ toHost \in Network(IssuedMessages')
         /\ toClient \in Network(IssuedMetas')
         /\ replies \in [Contexts -> Seq(IssuedMetas')]
<1> USE DEF RemoteIInv
<1>1. RegistryIInv'
  BY RegistryStepIInv
<1>2. /\ nextId \in Nat /\ nextId' \in Nat /\ nextId <= nextId'
      /\ \A id, o : Issued(id, o) => Issued(id, o)'
      /\ IssuedMetas \subseteq IssuedMetas'
      /\ IssuedMessages \subseteq IssuedMessages'
  BY IssuedMonotone
<1>3. 1 .. nextId \subseteq 1 .. nextId'
  BY <1>2
<1>4. ASSUME UNCHANGED <<proxies, cache, pinned>>
      PROVE  ClientIssued'
  <2>1. /\ proxies' = [c \in Contexts |-> proxies'[c]]
        /\ \A c \in Contexts : \A id \in DOMAIN proxies'[c] : Issued(id, proxies[c][id])
    BY <1>4 DEF ClientIssued
  <2>2. \A c \in Contexts : \A id \in DOMAIN proxies'[c] : Issued(id, proxies[c][id])'
    BY <1>2, <1>4, <2>1
  <2>3. cache' \in [Contexts -> SUBSET (1 .. nextId')] /\ pinned' \in [Contexts -> SUBSET (1 .. nextId')]
    BY <1>3, <1>4 DEF ClientIssued
  <2> QED BY <2>1, <2>2, <2>3 DEF ClientIssued
<1>5. toHost \in Network(IssuedMessages') /\ toClient \in Network(IssuedMetas')
  BY <1>2, NetworkMonotone DEF NetworkIssued
<1>6. \A c \in Contexts : replies[c] \in Seq(IssuedMetas')
  BY <1>2, SeqMonotone DEF NetworkIssued
<1> QED BY <1>1, <1>4, <1>5, <1>6 DEF NetworkIssued

(* The meta of an object just added is issued.                             *)
LEMMA AddIssues ==
  ASSUME RemoteIInv, NEW c \in Contexts, NEW o \in Objects, Add(c, o)
  PROVE  [RegistryNext]_registryVars /\ MetaOf(o) \in IssuedMetas'
<1>1. /\ IdFor(o) \in 1 .. nextId' /\ nextId' \in 0 .. MaxId
      /\ storage'[IdFor(o)].object = o
  BY AddEffect DEF RemoteIInv, RegistryIInv
<1>2. IdFor(o) \in Nat
  BY <1>1, MaxIdAssumption
<1>3. MetaOf(o) \in IssuedMetas'
  <2> DEFINE id == IdFor(o)
             m == [id |-> id, object |-> o]
  <2>1. m \in [id : Nat, object : Objects \cup {NoObject}]
    BY <1>2
  <2> HIDE DEF id
  <2>2. id = IdFor(o)
    BY DEF id
  <2>3. m.id \in 1 .. nextId' /\ m.object \in Objects /\ storage'[m.id].object = m.object
    BY <1>1, <2>2
  <2>4. m \in IssuedMetas'
    BY <2>1, <2>3 DEF IssuedMetas, Issued
  <2> QED BY <2>2, <2>4 DEF MetaOf
<1>4. [RegistryNext]_registryVars
  BY DEF RegistryNext
<1> QED BY <1>3, <1>4

LEMMA PlainIssued == Plain \in IssuedMetas /\ Plain \in IssuedMetas'
BY DEF Plain, IssuedMetas

(***************************************************************************)
(* Parts of the actions.                                                   *)
(***************************************************************************)
LEMMA SendIssues ==
  ASSUME RemoteIInv, UNCHANGED registryVars, NEW c \in Contexts,
         NEW m \in IssuedMessages, Send(c, m)
  PROVE  toHost' \in Network(IssuedMessages')
<1>1. toHost \in Network(IssuedMessages') /\ m \in IssuedMessages'
  BY Carried, IssuedMonotone DEF RemoteIInv
<1>2. clientLane[c] \in Lanes
  BY DEF RemoteIInv, LanesOK
<1> QED BY <1>1, <1>2, NetworkAppend DEF Send

LEMMA ReplyIssues ==
  ASSUME RemoteIInv, [RegistryNext]_registryVars, NEW c \in Contexts,
         NEW meta \in IssuedMetas', Reply(c, meta)
  PROVE  replies' \in [Contexts -> Seq(IssuedMetas')]
<1>1. replies \in [Contexts -> Seq(IssuedMetas')]
  BY Carried
<1>2. Append(replies[c], meta) \in Seq(IssuedMetas')
  BY <1>1, SeqStep
<1> QED BY <1>1, <1>2 DEF Reply

LEMMA MetaToValueIssues ==
  ASSUME RemoteIInv, UNCHANGED registryVars, UNCHANGED pinned, NEW c \in Contexts,
         NEW meta \in IssuedMetas, MetaToValue(c, meta)
  PROVE  ClientIssued'
<1>1. CASE meta = Plain \/ Live(c, meta.id)
  BY <1>1, Carried DEF MetaToValue
<1>2. CASE ~(meta = Plain \/ Live(c, meta.id))
  <2>1. /\ proxies' = [proxies EXCEPT ![c] =
             [id \in DOMAIN @ \cup {meta.id} |-> IF id = meta.id THEN meta.object ELSE @[id]]]
        /\ cache' = [cache EXCEPT ![c] = @ \cup {meta.id}]
    BY <1>2 DEF MetaToValue
  <2>2. Issued(meta.id, meta.object) /\ meta.id \in 1 .. nextId
    BY <1>2 DEF IssuedMetas, Issued
  <2>3. /\ proxies = [d \in Contexts |-> proxies[d]]
        /\ \A d \in Contexts : \A id \in DOMAIN proxies[d] : Issued(id, proxies[d][id])
        /\ cache \in [Contexts -> SUBSET (1 .. nextId)]
        /\ pinned \in [Contexts -> SUBSET (1 .. nextId)]
    BY DEF RemoteIInv, ClientIssued
  <2>4. /\ proxies' = [d \in Contexts |-> proxies'[d]]
        /\ \A d \in Contexts : d # c => proxies'[d] = proxies[d]
        /\ proxies'[c] = [id \in DOMAIN proxies[c] \cup {meta.id} |->
                            IF id = meta.id THEN meta.object ELSE proxies[c][id]]
    BY <2>1, <2>3
  <2>5. \A d \in Contexts : \A id \in DOMAIN proxies'[d] : Issued(id, proxies'[d][id])
    <3> SUFFICES ASSUME NEW d \in Contexts, NEW id \in DOMAIN proxies'[d]
                 PROVE  Issued(id, proxies'[d][id])
      OBVIOUS
    <3>1. CASE d # c
      BY <3>1, <2>3, <2>4
    <3>2. CASE d = c /\ id = meta.id
      BY <3>2, <2>2, <2>4
    <3>3. CASE d = c /\ id # meta.id
      BY <3>3, <2>3, <2>4
    <3> QED BY <3>1, <3>2, <3>3
  <2>6. nextId' = nextId /\ storage' = storage
    BY DEF registryVars
  <2>7. \A d \in Contexts : \A id \in DOMAIN proxies'[d] : Issued(id, proxies[d][id])'
    BY <2>5, <2>6 DEF Issued, Stored
  <2>8. cache' \in [Contexts -> SUBSET (1 .. nextId')] /\ pinned' \in [Contexts -> SUBSET (1 .. nextId')]
    BY <2>1, <2>2, <2>3, <2>6
  <2> QED BY <2>4, <2>7, <2>8 DEF ClientIssued
<1> QED BY <1>1, <1>2

(* A proxy less keeps the rest issued.                                     *)
LEMMA FewerIssued ==
  ASSUME RemoteIInv, UNCHANGED registryVars,
         DOMAIN proxies' = DOMAIN proxies, proxies' = [c \in Contexts |-> proxies'[c]],
         \A c \in Contexts : /\ DOMAIN proxies'[c] \subseteq DOMAIN proxies[c]
                             /\ \A id \in DOMAIN proxies'[c] : proxies'[c][id] = proxies[c][id],
         cache' \in [Contexts -> SUBSET (1 .. nextId)],
         pinned' \in [Contexts -> SUBSET (1 .. nextId)]
  PROVE  ClientIssued'
<1>1. nextId' = nextId /\ storage' = storage
  BY DEF registryVars
<1>2. \A c \in Contexts : \A id \in DOMAIN proxies'[c] : Issued(id, proxies'[c][id])
  BY DEF RemoteIInv, ClientIssued
<1>3. \A c \in Contexts : \A id \in DOMAIN proxies'[c] : Issued(id, proxies[c][id])'
  BY <1>1, <1>2 DEF Issued, Stored
<1> QED BY <1>1, <1>3 DEF ClientIssued

(***************************************************************************)
(* The actions of a client.                                                *)
(***************************************************************************)
LEMMA ClientStep ==
  ASSUME RemoteIInv, NEW c \in Contexts, ClientNext(c)
  PROVE  [RegistryNext]_registryVars /\ RemoteIInv'
<1>1. UNCHANGED registryVars
  BY DEF ClientNext, Require, CallSync, CallAsync, LoadFunctionProperties, ReceiveReply,
         ReceiveCallback, Collect, RunFinalizer, Exit, Crash, ClientConnected
<1>2. /\ RegistryIInv'
      /\ UNCHANGED <<proxies, cache, pinned>> => ClientIssued'
      /\ toHost \in Network(IssuedMessages')
      /\ toClient \in Network(IssuedMetas')
      /\ replies \in [Contexts -> Seq(IssuedMetas')]
  BY <1>1, Carried
<1>3. UNCHANGED laneVars => LanesOK'
  BY DEF laneVars, LanesOK, RemoteIInv
<1>4. ASSUME NEW op \in {"Require", "Call", "CallAsync", "ContextRelease"}, NEW id \in Nat
      PROVE  Message(op, id) \in IssuedMessages
  BY DEF Message, IssuedMessages
<1>5. /\ nextId \in Nat
      /\ proxies = [d \in Contexts |-> proxies[d]]
      /\ \A id \in DOMAIN proxies[c] : id \in 1 .. nextId
      /\ cache \in [Contexts -> SUBSET (1 .. nextId)]
      /\ pinned \in [Contexts -> SUBSET (1 .. nextId)]
  BY IssuedMonotone, <1>1 DEF RemoteIInv, ClientIssued, Issued
<1>6. \A id \in Nameable(c) : id \in Nat
  BY <1>5 DEF Nameable
<1>7. CASE Require(c)
  <2>1. toHost' \in Network(IssuedMessages')
    BY <1>1, <1>4, <1>7, SendIssues DEF Require
  <2> QED BY <1>1, <1>2, <1>3, <1>7, <2>1 DEF Require, RemoteIInv, NetworkIssued
<1>8. ASSUME NEW id \in Nameable(c), CallSync(c, id) \/ CallAsync(c, id) \/ LoadFunctionProperties(c, id)
      PROVE  RemoteIInv'
  <2>1. \E op \in {"Call", "CallAsync"} : Send(c, Message(op, id))
    BY <1>8 DEF CallSync, CallAsync, LoadFunctionProperties
  <2>2. toHost' \in Network(IssuedMessages')
    BY <1>1, <1>4, <1>6, <2>1, SendIssues
  <2>3. UNCHANGED <<proxies, cache, pinned, laneVars, toClient, replies>>
    BY <1>8 DEF CallSync, CallAsync, LoadFunctionProperties, clientVars
  <2> QED BY <1>2, <1>3, <2>2, <2>3 DEF RemoteIInv, NetworkIssued
<1>9. CASE ReceiveReply(c)
  <2> DEFINE meta == Head(replies[c])
  <2>1. meta \in IssuedMetas /\ Tail(replies[c]) \in Seq(IssuedMetas')
    <3>1. meta \in IssuedMetas
      BY <1>9, SeqStep DEF ReceiveReply, RemoteIInv, NetworkIssued
    <3>2. Tail(replies[c]) \in Seq(IssuedMetas')
      BY <1>2, <1>9, SeqStep DEF ReceiveReply
    <3> QED BY <3>1, <3>2
  <2>2. replies' \in [Contexts -> Seq(IssuedMetas')]
    BY <1>2, <1>9, <2>1 DEF ReceiveReply
  <2>3. CASE client[c] = "waiting"
    <3>1. MetaToValue(c, meta) /\ UNCHANGED pinned
      BY <1>9, <2>3 DEF ReceiveReply
    <3>2. ClientIssued'
      BY <1>1, <2>1, <3>1, MetaToValueIssues
    <3> QED BY <1>2, <1>3, <1>9, <2>2, <3>2 DEF ReceiveReply, RemoteIInv, NetworkIssued
  <2>4. CASE client[c] # "waiting"
    <3>1. /\ pinned' = [pinned EXCEPT ![c] = @ \cup ({meta.id} \ {0})]
          /\ UNCHANGED <<proxies, cache>>
      BY <1>9, <2>4 DEF ReceiveReply
    <3>2. meta.id = 0 \/ meta.id \in 1 .. nextId
      BY <2>1 DEF IssuedMetas, Issued, Plain
    <3>3. pinned' \in [Contexts -> SUBSET (1 .. nextId)]
      BY <1>5, <3>1, <3>2
    <3>4. ClientIssued'
      BY <1>1, <1>5, <3>1, <3>3, FewerIssued
    <3> QED BY <1>2, <1>3, <1>9, <2>2, <3>4 DEF ReceiveReply, RemoteIInv, NetworkIssued
  <2> QED BY <2>3, <2>4
<1>10. ASSUME NEW lane \in Lanes, ReceiveCallback(c, lane)
       PROVE  RemoteIInv'
  <2>1. /\ toClient[c][lane] # <<>> /\ toClient \in Network(IssuedMetas)
        /\ MetaToValue(c, Head(toClient[c][lane])) /\ UNCHANGED <<pinned, laneVars, toHost, replies>>
        /\ toClient' = [toClient EXCEPT ![c][lane] = Tail(@)]
    BY <1>10 DEF ReceiveCallback, RemoteIInv, NetworkIssued
  <2>2. toClient' \in Network(IssuedMetas')
    BY <1>2, <2>1, NetworkTail
  <2>3. ClientIssued'
    BY <1>1, <2>1, NetworkTail, MetaToValueIssues
  <2> QED BY <1>2, <1>3, <2>1, <2>2, <2>3 DEF RemoteIInv, NetworkIssued
<1>11. ASSUME NEW id \in DOMAIN proxies[c], Collect(c, id)
       PROVE  RemoteIInv'
  <2>1. proxies' = [proxies EXCEPT ![c] = [i \in DOMAIN @ \ {id} |-> @[i]]] /\ UNCHANGED <<cache, pinned>>
    BY <1>11 DEF Collect
  <2>2. ClientIssued'
    BY <1>1, <1>5, <2>1, FewerIssued
  <2> QED BY <1>2, <1>3, <1>11, <2>2 DEF Collect, netVars, RemoteIInv, NetworkIssued
<1>12. ASSUME NEW id \in 1 .. MaxId, RunFinalizer(c, id)
       PROVE  RemoteIInv'
  <2>1. CASE ClearedEntry(c, id)
    <3>1. id \in 1 .. nextId
      BY <1>5, <2>1 DEF ClearedEntry, Cached
    <3>2. Message("Dereference", id) \in IssuedMessages
      BY <1>5, <3>1 DEF Message, IssuedMessages
    <3>3. Send(c, Message("Dereference", id)) /\ cache' = [cache EXCEPT ![c] = @ \ {id}]
      BY <1>12, <2>1 DEF RunFinalizer, ReturnId
    <3>4. toHost' \in Network(IssuedMessages')
      BY <1>1, <3>2, <3>3, SendIssues
    <3>5. cache' \in [Contexts -> SUBSET (1 .. nextId)] /\ UNCHANGED <<proxies, pinned>>
      BY <1>5, <1>12, <3>3 DEF RunFinalizer
    <3>6. ClientIssued'
      BY <1>1, <1>5, <3>5, FewerIssued
    <3> QED BY <1>2, <1>3, <1>12, <3>4, <3>6 DEF RunFinalizer, RemoteIInv, NetworkIssued
  <2>2. CASE ~ClearedEntry(c, id)
    <3>1. UNCHANGED <<proxies, cache, pinned, toHost, laneVars, toClient, replies>>
      BY <1>12, <2>2 DEF RunFinalizer, ReturnId
    <3> QED BY <1>2, <1>3, <3>1 DEF RemoteIInv, NetworkIssued
  <2> QED BY <2>1, <2>2
<1>13. ASSUME DropHeap(c)
       PROVE  ClientIssued'
  <2>1. /\ cache' \in [Contexts -> SUBSET (1 .. nextId)]
        /\ pinned' \in [Contexts -> SUBSET (1 .. nextId)]
    BY <1>5, <1>13 DEF DropHeap
  <2>2. /\ \A d \in Contexts : d # c => proxies'[d] = proxies[d]
        /\ DOMAIN proxies'[c] = {}
        /\ DOMAIN proxies' = DOMAIN proxies /\ proxies' = [d \in Contexts |-> proxies'[d]]
    BY <1>5, <1>13 DEF DropHeap
  <2> QED BY <1>1, <2>1, <2>2, FewerIssued
<1>14. CASE Exit(c)
  <2>1. toHost' \in Network(IssuedMessages')
    BY <1>1, <1>4, <1>14, SendIssues DEF Exit
  <2> QED BY <1>2, <1>3, <1>13, <1>14, <2>1 DEF Exit, RemoteIInv, NetworkIssued
<1>15. CASE Crash(c)
  BY <1>2, <1>3, <1>13, <1>15 DEF Crash, netVars, RemoteIInv, NetworkIssued
<1>16. CASE ClientConnected(c)
  <2>1. LanesOK'
    BY <1>16 DEF ClientConnected, LanesOK, RemoteIInv, Lanes
  <2> QED BY <1>2, <1>16, <2>1 DEF ClientConnected, clientVars, netVars, RemoteIInv, NetworkIssued
<1>17. RemoteIInv'
  BY <1>7, <1>8, <1>9, <1>10, <1>11, <1>12, <1>14, <1>15, <1>16 DEF ClientNext
<1> QED BY <1>1, <1>17

(***************************************************************************)
(* The actions of the host: the only ones that call the registry.          *)
(***************************************************************************)

(* A handler makes one call on the registry, or none, and what it replies  *)
(* is issued by then.                                                      *)
Handled == [RegistryNext]_registryVars /\ replies' \in [Contexts -> Seq(IssuedMetas')]

LEMMA InvokeHandled ==
  ASSUME RemoteIInv, NEW c \in Contexts, Invoke(c)
  PROVE  Handled
<1>1. ASSUME NEW o \in Objects, Add(c, o), Reply(c, MetaOf(o)) \/ UNCHANGED replies
      PROVE  Handled
  <2>1. [RegistryNext]_registryVars /\ MetaOf(o) \in IssuedMetas'
    BY <1>1, AddIssues
  <2>2. replies' \in [Contexts -> Seq(IssuedMetas')]
    BY <1>1, <2>1, ReplyIssues, Carried
  <2> QED BY <2>1, <2>2 DEF Handled
<1>2. ASSUME Reply(c, Plain), UNCHANGED registryVars
      PROVE  Handled
  BY <1>2, ReplyIssues, PlainIssued DEF Handled
<1> QED BY <1>1, <1>2 DEF Invoke

LEMMA HostHandled ==
  ASSUME RemoteIInv, NEW c \in Contexts, NEW lane \in Lanes, HostHandle(c, lane)
  PROVE  Handled
<1> DEFINE m == Head(toHost[c][lane])
<1>1. m \in IssuedMessages
  BY NetworkTail DEF HostHandle, RemoteIInv, NetworkIssued
<1>2. CASE m.op = "Require" /\ HandleRequire(c)
  BY <1>2, InvokeHandled DEF HandleRequire
<1>3. CASE m.op = "Call" /\ HandleCall(c, m.id)
  <2>1. CASE Stored(m.id)
    BY <1>3, <2>1, InvokeHandled DEF HandleCall
  <2>2. CASE ~Stored(m.id)
    BY <1>3, <2>2, ReplyIssues, PlainIssued DEF HandleCall, Handled
  <2> QED BY <2>1, <2>2
<1>4. CASE m.op = "CallAsync" /\ HandleCallAsync(c, m.id)
  <2>1. UNCHANGED <<registryVars, replies>>
    BY <1>4 DEF HandleCallAsync
  <2> QED BY <2>1, Carried DEF Handled
<1>5. CASE m.op = "Dereference" /\ HandleDereference(c, m.id)
  <2>1. m.id \in 1 .. nextId
    BY <1>1, <1>5 DEF IssuedMessages
  <2>2. RegistryNext /\ UNCHANGED replies
    BY <1>5, <2>1 DEF HandleDereference, RegistryNext
  <2> QED BY <2>2, Carried DEF Handled
<1>6. CASE m.op = "ContextRelease" /\ HandleContextRelease(c)
  <2>1. RegistryNext /\ UNCHANGED replies
    BY <1>6 DEF HandleContextRelease, RegistryNext
  <2> QED BY <2>1, Carried DEF Handled
<1> QED BY <1>2, <1>3, <1>4, <1>5, <1>6 DEF HostHandle

LEMMA HostStep ==
  ASSUME RemoteIInv, NEW c \in Contexts, HostNext(c)
  PROVE  [RegistryNext]_registryVars /\ RemoteIInv'
<1>1. UNCHANGED laneVars => LanesOK'
  BY DEF laneVars, LanesOK, RemoteIInv
<1>2. ASSUME NEW lane \in Lanes, HostHandle(c, lane)
      PROVE  [RegistryNext]_registryVars /\ RemoteIInv'
  <2>1. Handled
    BY <1>2, HostHandled
  <2>2. /\ RegistryIInv' /\ (UNCHANGED <<proxies, cache, pinned>> => ClientIssued')
        /\ toHost \in Network(IssuedMessages') /\ toClient \in Network(IssuedMetas')
    BY <2>1, Carried DEF Handled
  <2>3. /\ toHost[c][lane] # <<>> /\ toHost' = [toHost EXCEPT ![c][lane] = Tail(@)]
        /\ UNCHANGED <<clientVars, laneVars, toClient>>
    BY <1>2 DEF HostHandle
  <2>4. toHost' \in Network(IssuedMessages')
    BY <2>2, <2>3, NetworkTail
  <2> QED BY <1>1, <2>1, <2>2, <2>3, <2>4 DEF Handled, clientVars, RemoteIInv, NetworkIssued
<1>3. CASE CollectEvent(c)
  <2>1. UNCHANGED registryVars /\ Reply(c, Plain)
    BY <1>3 DEF CollectEvent
  <2>2. replies' \in [Contexts -> Seq(IssuedMetas')]
    BY <2>1, ReplyIssues, PlainIssued
  <2>3. /\ RegistryIInv' /\ (UNCHANGED <<proxies, cache, pinned>> => ClientIssued')
        /\ toHost \in Network(IssuedMessages') /\ toClient \in Network(IssuedMetas')
    BY <2>1, Carried
  <2> QED BY <1>1, <1>3, <2>1, <2>2, <2>3 DEF CollectEvent, clientVars, RemoteIInv, NetworkIssued
<1>4. CASE SettlePromise(c)
  <2> PICK o \in Objects :
        /\ Add(c, o)
        /\ IF Gone(c) THEN UNCHANGED toClient
           ELSE toClient' = [toClient EXCEPT ![c][hostLane[c]] = Append(@, MetaOf(o))]
    BY <1>4 DEF SettlePromise
  <2>1. [RegistryNext]_registryVars /\ MetaOf(o) \in IssuedMetas'
    BY AddIssues
  <2>2. /\ RegistryIInv' /\ (UNCHANGED <<proxies, cache, pinned>> => ClientIssued')
        /\ toHost \in Network(IssuedMessages') /\ toClient \in Network(IssuedMetas')
        /\ replies \in [Contexts -> Seq(IssuedMetas')]
    BY <2>1, Carried
  <2>3. hostLane[c] \in Lanes
    BY DEF RemoteIInv, LanesOK
  <2>4. toClient' \in Network(IssuedMetas')
    <3>1. \A e \in IssuedMetas', l \in Lanes :
            [toClient EXCEPT ![c][l] = Append(@, e)] \in Network(IssuedMetas')
      BY <2>2, NetworkAppend
    <3>2. CASE Gone(c)
      BY <2>2, <3>2
    <3>3. CASE ~Gone(c)
      BY <2>1, <2>3, <3>1, <3>3
    <3> QED BY <3>2, <3>3
  <2> QED BY <1>1, <1>4, <2>1, <2>2, <2>4 DEF SettlePromise, clientVars, RemoteIInv, NetworkIssued
<1>5. CASE HostConnected(c)
  <2>1. UNCHANGED registryVars /\ UNCHANGED <<proxies, cache, pinned, netVars, clientLane>>
    BY <1>5 DEF HostConnected, clientVars
  <2>2. LanesOK'
    BY <1>5 DEF HostConnected, LanesOK, RemoteIInv, Lanes
  <2> QED BY <2>1, <2>2, Carried DEF netVars, RemoteIInv, NetworkIssued
<1> QED BY <1>2, <1>3, <1>4, <1>5 DEF HostNext

(***************************************************************************)
(* The theorems.                                                           *)
(***************************************************************************)
LEMMA RemoteInitIInv == RemoteInit => RegistryInit /\ RemoteIInv
<1> SUFFICES ASSUME RemoteInit PROVE RemoteIInv
  BY DEF RemoteInit
<1>1. RegistryIInv
  BY RegistryInitIInv DEF RemoteInit
<1>2. ClientIssued
  BY DEF RemoteInit, ClientIssued
<1>3. NetworkIssued
  BY DEF RemoteInit, NetworkIssued, Network
<1>4. LanesOK
  BY DEF RemoteInit, LanesOK, Lanes
<1> QED BY <1>1, <1>2, <1>3, <1>4 DEF RemoteIInv

LEMMA RemoteStepIInv ==
  RemoteIInv /\ [RemoteNext]_remoteVars => [RegistryNext]_registryVars /\ RemoteIInv'
<1> SUFFICES ASSUME RemoteIInv, [RemoteNext]_remoteVars
             PROVE  [RegistryNext]_registryVars /\ RemoteIInv'
  OBVIOUS
<1>1. CASE UNCHANGED remoteVars
  <2>1. UNCHANGED registryVars /\ UNCHANGED <<proxies, cache, pinned, netVars, laneVars>>
    BY <1>1 DEF remoteVars, clientVars
  <2> QED BY <2>1, Carried DEF netVars, laneVars, RemoteIInv, NetworkIssued, LanesOK
<1> QED BY <1>1, ClientStep, HostStep DEF RemoteNext

(* The remote protocol implements the registry's specification: whatever   *)
(* crosses, crashes or changes lanes, every call its handlers make is one  *)
(* the registry expects, so each theorem about RegistrySpec holds here.    *)
THEOREM RemoteImplementsRegistry == RemoteSpec => RegistrySpec
BY RemoteInitIInv, RemoteStepIInv, PTL DEF RemoteSpec, RegistrySpec

(* A proxy, however stale, never reaches another object than its own.      *)
THEOREM RemoteNeverAliases == RemoteSpec => []ProxyNeverAliases
<1>1. RemoteIInv => ProxyNeverAliases
  BY DEF RemoteIInv, ClientIssued, Issued, ProxyNeverAliases
<1> QED BY <1>1, RemoteInitIInv, RemoteStepIInv, PTL DEF RemoteSpec

(***************************************************************************)
(* The finalization callbacks of collected proxies.                        *)
(***************************************************************************)
FinalizersInv == finalizers \in [Contexts -> [1 .. MaxId -> Nat]] /\ ClearedIsFinalized

LEMMA FinalizersKept ==
  ASSUME FinalizersInv, finalizers' = finalizers,
         \A c \in Contexts : \A id : ClearedEntry(c, id)' => ClearedEntry(c, id)
  PROVE  FinalizersInv'
BY DEF FinalizersInv, ClearedIsFinalized, ClearedEntry, Cached

LEMMA MetaToValueClears ==
  ASSUME RemoteIInv, NEW c \in Contexts, NEW meta, MetaToValue(c, meta), NEW d \in Contexts, NEW id,
         ClearedEntry(d, id)'
  PROVE  ClearedEntry(d, id)
<1>1. CASE UNCHANGED <<proxies, cache>>
  BY <1>1 DEF ClearedEntry, Cached, Proxied
<1>2. CASE /\ proxies' = [proxies EXCEPT ![c] =
                [i \in DOMAIN @ \cup {meta.id} |-> IF i = meta.id THEN meta.object ELSE @[i]]]
           /\ cache' = [cache EXCEPT ![c] = @ \cup {meta.id}]
  <2>1. DOMAIN proxies = Contexts /\ DOMAIN cache = Contexts
    BY DEF RemoteIInv, ClientIssued
  <2>2. CASE d = c
    <3>1. DOMAIN proxies'[c] = DOMAIN proxies[c] \cup {meta.id} /\ cache'[c] = cache[c] \cup {meta.id}
      BY <1>2, <2>1
    <3> QED BY <2>2, <3>1 DEF ClearedEntry, Cached, Proxied
  <2>3. CASE d # c
    BY <1>2, <2>1, <2>3 DEF ClearedEntry, Cached, Proxied
  <2> QED BY <2>2, <2>3
<1> QED BY <1>1, <1>2 DEF MetaToValue

LEMMA FinalizersStep ==
  ASSUME RemoteIInv, FinalizersInv, [RemoteNext]_remoteVars
  PROVE  FinalizersInv'
<1>0. /\ DOMAIN proxies = Contexts /\ cache \in [Contexts -> SUBSET (1 .. MaxId)]
      /\ finalizers \in [Contexts -> [1 .. MaxId -> Nat]]
  <2>1. 1 .. nextId \subseteq 1 .. MaxId
    BY MaxIdAssumption DEF RemoteIInv, RegistryIInv, RegistryTypeOK
  <2> QED BY <2>1 DEF RemoteIInv, ClientIssued, FinalizersInv
<1>1. CASE UNCHANGED <<proxies, cache, finalizers>>
  BY <1>1, FinalizersKept DEF ClearedEntry, Cached, Proxied
<1>2. ASSUME NEW c \in Contexts, NEW id \in DOMAIN proxies[c], Collect(c, id)
      PROVE  FinalizersInv'
  <2>1. /\ proxies' = [proxies EXCEPT ![c] = [i \in DOMAIN @ \ {id} |-> @[i]]]
        /\ finalizers' = [finalizers EXCEPT ![c][id] = @ + 1] /\ cache' = cache
    BY <1>2 DEF Collect
  <2>0. id \in 1 .. MaxId /\ finalizers[c][id] \in Nat
    <3>1. id \in 1 .. MaxId
      BY MaxIdAssumption DEF RemoteIInv, ClientIssued, Issued, RegistryIInv, RegistryTypeOK
    <3> QED BY <1>0, <3>1
  <2>2. /\ finalizers' \in [Contexts -> [1 .. MaxId -> Nat]]
        /\ finalizers'[c][id] = finalizers[c][id] + 1
    <3>1. finalizers[c][id] + 1 \in Nat
      BY <2>0
    <3> QED BY <1>0, <2>0, <2>1, <3>1
  <2>3. ASSUME NEW d \in Contexts, NEW i \in cache[d], ClearedEntry(d, i)' PROVE finalizers'[d][i] > 0
    <3>1. i \in 1 .. MaxId
      BY <1>0
    <3>2. CASE d = c /\ i = id
      BY <2>0, <2>2, <3>2
    <3>3. CASE ~(d = c /\ i = id)
      <4>1. ClearedEntry(d, i)
        BY <1>0, <2>1, <2>3, <3>3 DEF ClearedEntry, Cached, Proxied
      <4>2. finalizers'[d][i] = finalizers[d][i]
        BY <1>0, <2>1, <3>1, <3>3
      <4> QED BY <4>1, <4>2 DEF FinalizersInv, ClearedIsFinalized
    <3> QED BY <3>2, <3>3
  <2> QED BY <2>1, <2>2, <2>3 DEF FinalizersInv, ClearedIsFinalized
<1>3. ASSUME NEW c \in Contexts, NEW id \in 1 .. MaxId, RunFinalizer(c, id)
      PROVE  FinalizersInv'
  <2>1. /\ finalizers[c][id] > 0 /\ proxies' = proxies
        /\ finalizers' = [finalizers EXCEPT ![c][id] = @ - 1]
        /\ IF ClearedEntry(c, id) THEN cache' = [cache EXCEPT ![c] = @ \ {id}] ELSE cache' = cache
    BY <1>3 DEF RunFinalizer, ReturnId
  <2>2. finalizers' \in [Contexts -> [1 .. MaxId -> Nat]]
    <3>1. finalizers[c][id] \in Nat
      BY <1>0
    <3>2. finalizers[c][id] - 1 \in Nat
      BY <2>1, <3>1
    <3> QED BY <1>0, <2>1, <3>2
  <2>3. ASSUME NEW d \in Contexts, NEW i \in cache'[d], ClearedEntry(d, i)' PROVE finalizers'[d][i] > 0
    <3>1. i \in cache[d] /\ i \in 1 .. MaxId
      BY <1>0, <2>1
    <3>2. ClearedEntry(d, i)
      BY <2>1, <2>3, <3>1 DEF ClearedEntry, Cached, Proxied
    <3>3. ~(d = c /\ i = id)
      BY <1>0, <2>1, <2>3, <3>2
    <3>4. finalizers'[d][i] = finalizers[d][i]
      BY <1>0, <2>1, <3>1, <3>3
    <3> QED BY <3>1, <3>2, <3>4 DEF FinalizersInv, ClearedIsFinalized
  <2> QED BY <2>2, <2>3 DEF FinalizersInv, ClearedIsFinalized
<1>4. ASSUME NEW c \in Contexts, DropHeap(c)
      PROVE  FinalizersInv'
  <2>1. /\ cache' = [cache EXCEPT ![c] = {}]
        /\ proxies' = [proxies EXCEPT ![c] = [id \in {} |-> NoObject]]
        /\ finalizers' = [finalizers EXCEPT ![c] = [id \in 1 .. MaxId |-> 0]]
    BY <1>4 DEF DropHeap
  <2>2. finalizers' \in [Contexts -> [1 .. MaxId -> Nat]]
    BY <1>0, <2>1
  <2>3. ASSUME NEW d \in Contexts, NEW i \in cache'[d], ClearedEntry(d, i)' PROVE finalizers'[d][i] > 0
    <3>1. d # c /\ i \in cache[d] /\ finalizers'[d] = finalizers[d] /\ proxies'[d] = proxies[d]
      BY <1>0, <2>1, <2>3
    <3> QED BY <2>3, <3>1 DEF FinalizersInv, ClearedIsFinalized, ClearedEntry, Cached, Proxied
  <2> QED BY <2>2, <2>3 DEF FinalizersInv, ClearedIsFinalized
<1>5. ASSUME NEW c \in Contexts, NEW meta, MetaToValue(c, meta), finalizers' = finalizers
      PROVE  FinalizersInv'
  BY <1>5, MetaToValueClears, FinalizersKept
<1>6. ASSUME NEW c \in Contexts, ClientNext(c) PROVE FinalizersInv'
  <2>1. CASE ReceiveReply(c)
    <3>1. MetaToValue(c, Head(replies[c])) \/ UNCHANGED <<proxies, cache>>
      BY <2>1 DEF ReceiveReply
    <3> QED BY <1>1, <1>5, <2>1, <3>1 DEF ReceiveReply
  <2>2. ASSUME NEW lane \in Lanes, ReceiveCallback(c, lane) PROVE FinalizersInv'
    BY <1>5, <2>2 DEF ReceiveCallback
  <2>3. CASE Require(c) \/ ClientConnected(c)
    BY <1>1, <2>3 DEF Require, ClientConnected, clientVars
  <2>4. ASSUME NEW id \in Nameable(c), CallSync(c, id) \/ CallAsync(c, id) \/ LoadFunctionProperties(c, id)
        PROVE  FinalizersInv'
    BY <1>1, <2>4 DEF CallSync, CallAsync, LoadFunctionProperties, clientVars
  <2>5. CASE Exit(c) \/ Crash(c)
    BY <1>4, <2>5 DEF Exit, Crash
  <2> QED BY <1>2, <1>3, <1>6, <2>1, <2>2, <2>3, <2>4, <2>5 DEF ClientNext
<1>7. ASSUME NEW c \in Contexts, HostNext(c) PROVE FinalizersInv'
  BY <1>1, <1>7 DEF HostNext, HostHandle, CollectEvent, SettlePromise, HostConnected, clientVars
<1>8. CASE UNCHANGED remoteVars
  BY <1>1, <1>8 DEF remoteVars, clientVars
<1> QED BY <1>6, <1>7, <1>8 DEF RemoteNext

(* Behind each cleared cache entry a finalization callback is to come, so  *)
(* that no id stays with the client after its last proxy.                  *)
THEOREM ClearedAreFinalized == RemoteSpec => []ClearedIsFinalized
<1>1. RemoteInit => FinalizersInv
  BY DEF RemoteInit, FinalizersInv, ClearedIsFinalized
<1>2. RemoteIInv /\ FinalizersInv /\ [RemoteNext]_remoteVars => FinalizersInv'
  BY FinalizersStep
<1>3. FinalizersInv => ClearedIsFinalized
  BY DEF FinalizersInv
<1> QED BY <1>1, <1>2, <1>3, RemoteInitIInv, RemoteStepIInv, PTL DEF RemoteSpec

(***************************************************************************)
(* Without optional behaviours: what the registry has of a context is, in  *)
(* each moment, in its cache, in its queue or in its reply.                *)
(***************************************************************************)
Queue(c) == toHost[c]["browser"]
Asks(m) == m.op \in {"Require", "Call"}
Goes(m) == m.op \in {"CallAsync", "Dereference"}
Gives(m) == m.op = "Dereference"
Calls(m) == m.op \in {"Call", "CallAsync"}

PlainShape ==
  /\ client \in [Contexts -> {"running", "waiting", "released"}]
  /\ clientLane = [c \in Contexts |-> "browser"]
  /\ \A c \in Contexts : toHost[c]["direct"] = <<>> /\ \A l \in Lanes : toClient[c][l] = <<>>
  /\ pinned = [c \in Contexts |-> {}]
  /\ pending = [c \in Contexts |-> 0]

(* A call that asks for a reply, and a release, are the last messages.     *)
Protocol(c) ==
  /\ \A i \in 1 .. Len(Queue(c)) :
       \/ Goes(Queue(c)[i])
       \/ i = Len(Queue(c)) /\ client[c] = "waiting" /\ Asks(Queue(c)[i])
       \/ i = Len(Queue(c)) /\ client[c] = "released" /\ Queue(c)[i].op = "ContextRelease"
  /\ replies[c] = <<>> \/ (client[c] = "waiting" /\ Queue(c) = <<>> /\ Len(replies[c]) = 1)
  /\ client[c] = "waiting" /\ replies[c] = <<>> =>
       Queue(c) # <<>> /\ Asks(Queue(c)[Len(Queue(c))])
  /\ client[c] = "released" =>
       \/ Queue(c) = <<>> /\ OwnedBy(c) = {}
       \/ Queue(c) # <<>> /\ Queue(c)[Len(Queue(c))].op = "ContextRelease"

(* Only what is owned is in use or on its way, and is given back once,     *)
(* after all calls on it; and no reference is lost.                        *)
GivenBackOnce(queue) ==
  \A i, j \in 1 .. Len(queue) :
    /\ Gives(queue[i]) /\ Gives(queue[j]) /\ queue[i].id = queue[j].id => i = j
    /\ Calls(queue[i]) /\ Gives(queue[j]) /\ queue[i].id = queue[j].id => i < j

InUse(c) ==
  /\ DOMAIN proxies[c] \subseteq cache[c] /\ cache[c] \subseteq OwnedBy(c)
  /\ client[c] = "released" => cache[c] = {}
  /\ \A i \in 1 .. Len(Queue(c)) :
       /\ Gives(Queue(c)[i]) => Queue(c)[i].id \in OwnedBy(c) \ cache[c]
       /\ Calls(Queue(c)[i]) => Queue(c)[i].id \in OwnedBy(c)
  /\ replies[c] # <<>> => replies[c][1].id \in OwnedBy(c) \cup {0}

Tracked(c) ==
  client[c] # "released" => \A id \in OwnedBy(c) :
    \/ id \in cache[c]
    \/ \E i \in 1 .. Len(Queue(c)) : Gives(Queue(c)[i]) /\ Queue(c)[i].id = id
    \/ replies[c] # <<>> /\ replies[c][1].id = id

References(c) == GivenBackOnce(Queue(c)) /\ InUse(c) /\ Tracked(c)

PlainInv ==
  /\ DisciplinedIInv
  /\ PlainShape
  /\ \A c \in Contexts : Protocol(c) /\ References(c)

(* What a step of one context leaves as it is of another.                  *)
Apart(d) ==
  /\ client'[d] = client[d] /\ DOMAIN proxies'[d] = DOMAIN proxies[d] /\ cache'[d] = cache[d]
  /\ toHost'[d] = toHost[d] /\ replies'[d] = replies[d] /\ OwnedBy(d)' = OwnedBy(d)

StepOK(c) ==
  /\ [DisciplinedNext]_registryVars
  /\ PlainShape' /\ Protocol(c)' /\ References(c)'
  /\ \A d \in Contexts \ {c} : Apart(d)

LEMMA ApartKept ==
  ASSUME NEW d \in Contexts, Protocol(d), References(d), Apart(d)
  PROVE  Protocol(d)' /\ References(d)'
<1>1. Queue(d)' = Queue(d)
  BY DEF Queue, Apart
<1>2. Protocol(d)'
  BY <1>1 DEF Protocol, Apart
<1>3. GivenBackOnce(Queue(d))'
  BY <1>1 DEF References, GivenBackOnce
<1>4. InUse(d)'
  BY <1>1 DEF References, InUse, Apart
<1>5. Tracked(d)'
  BY <1>1 DEF References, Tracked, Apart
<1> QED BY <1>2, <1>3, <1>4, <1>5 DEF References

(* Messages in a queue, when one is sent and when one is taken.            *)
LEMMA QueueMessages ==
  ASSUME RemoteIInv, NEW c \in Contexts
  PROVE  /\ Queue(c) \in Seq(IssuedMessages) /\ Len(Queue(c)) \in Nat
         /\ \A i \in 1 .. Len(Queue(c)) : Queue(c)[i] \in IssuedMessages
<1>1. Queue(c) \in Seq(IssuedMessages)
  BY DEF Queue, RemoteIInv, NetworkIssued, Network, Lanes
<1>2. Len(Queue(c)) \in Nat /\ \A i \in 1 .. Len(Queue(c)) : Queue(c)[i] \in IssuedMessages
  BY <1>1
<1> QED BY <1>1, <1>2

Sent(c, m) ==
  /\ Len(Queue(c)') = Len(Queue(c)) + 1 /\ Queue(c)' # <<>>
  /\ \A i \in 1 .. Len(Queue(c)) : Queue(c)'[i] = Queue(c)[i]
  /\ Queue(c)'[Len(Queue(c)) + 1] = m
  /\ \A i \in 1 .. Len(Queue(c)') : i \in 1 .. Len(Queue(c)) \/ i = Len(Queue(c)) + 1
  /\ toHost'[c]["direct"] = toHost[c]["direct"]
  /\ \A d \in Contexts \ {c} : toHost'[d] = toHost[d]

LEMMA SendSends ==
  ASSUME RemoteIInv, PlainShape, NEW c \in Contexts, NEW m \in IssuedMessages, Send(c, m)
  PROVE  Sent(c, m)
<1>1. toHost' = [toHost EXCEPT ![c]["browser"] = Append(@, m)]
  BY DEF Send, PlainShape
<1>2. toHost \in [Contexts -> [Lanes -> Seq(IssuedMessages)]]
  BY DEF RemoteIInv, NetworkIssued, Network
<1>3. /\ Queue(c)' = Append(Queue(c), m)
      /\ toHost'[c]["direct"] = toHost[c]["direct"]
      /\ \A d \in Contexts \ {c} : toHost'[d] = toHost[d]
  BY <1>1, <1>2 DEF Queue, Lanes
<1>4. /\ Len(Append(Queue(c), m)) = Len(Queue(c)) + 1
      /\ \A i \in 1 .. Len(Queue(c)) : Append(Queue(c), m)[i] = Queue(c)[i]
      /\ Append(Queue(c), m)[Len(Queue(c)) + 1] = m
      /\ Append(Queue(c), m) # <<>>
  BY QueueMessages
<1>5. Len(Queue(c)) \in Nat
  BY QueueMessages
<1> QED BY <1>3, <1>4, <1>5 DEF Sent

TakenOff(c) ==
  /\ Len(Queue(c)) \in Nat \ {0} /\ Len(Queue(c)') = Len(Queue(c)) - 1
  /\ \A i \in 1 .. Len(Queue(c)') : Queue(c)'[i] = Queue(c)[i + 1] /\ i + 1 \in 1 .. Len(Queue(c))
  /\ Head(Queue(c)) = Queue(c)[1] /\ Queue(c)[1] \in IssuedMessages /\ 1 \in 1 .. Len(Queue(c))
  /\ Len(Queue(c)) = 1 <=> Queue(c)' = <<>>
  /\ toHost'[c]["direct"] = toHost[c]["direct"]
  /\ \A d \in Contexts \ {c} : toHost'[d] = toHost[d]

LEMMA TakeOff ==
  ASSUME RemoteIInv, NEW c \in Contexts, Queue(c) # <<>>,
         toHost' = [toHost EXCEPT ![c]["browser"] = Tail(@)]
  PROVE  TakenOff(c)
<1>1. toHost \in [Contexts -> [Lanes -> Seq(IssuedMessages)]]
  BY DEF RemoteIInv, NetworkIssued, Network
<1>2. /\ Queue(c)' = Tail(Queue(c))
      /\ toHost'[c]["direct"] = toHost[c]["direct"]
      /\ \A d \in Contexts \ {c} : toHost'[d] = toHost[d]
  BY <1>1 DEF Queue, Lanes
<1>3. Queue(c) \in Seq(IssuedMessages)
  BY QueueMessages
<1>4. /\ Len(Queue(c)) \in Nat \ {0} /\ Len(Tail(Queue(c))) = Len(Queue(c)) - 1
      /\ Tail(Queue(c)) \in Seq(IssuedMessages)
      /\ Head(Queue(c)) = Queue(c)[1] /\ Queue(c)[1] \in IssuedMessages
      /\ \A i \in 1 .. Len(Tail(Queue(c))) : Tail(Queue(c))[i] = Queue(c)[i + 1]
  BY <1>3
<1>5. Len(Queue(c)) = 1 <=> Tail(Queue(c)) = <<>>
  BY <1>4
<1>6. /\ 1 \in 1 .. Len(Queue(c))
      /\ \A i \in 1 .. Len(Tail(Queue(c))) : i + 1 \in 1 .. Len(Queue(c))
  BY <1>4
<1> QED BY <1>2, <1>4, <1>5, <1>6 DEF TakenOff

(***************************************************************************)
(* The steps of a client.                                                  *)
(***************************************************************************)
LEMMA Running ==
  ASSUME NEW c \in Contexts, Protocol(c), client[c] = "running"
  PROVE  replies[c] = <<>> /\ \A i \in 1 .. Len(Queue(c)) : Goes(Queue(c)[i])
BY DEF Protocol

LEMMA SameOwned ==
  ASSUME UNCHANGED registryVars
  PROVE  [DisciplinedNext]_registryVars /\ \A c \in Contexts : OwnedBy(c)' = OwnedBy(c)
BY DEF registryVars, OwnedBy

(* A call, on nothing or on what is in the cache.                          *)
LEMMA CallKeeps ==
  ASSUME RemoteIInv, PlainInv, NEW c \in Contexts, client[c] = "running",
         NEW m \in IssuedMessages, Send(c, m), Calls(m) => m.id \in cache[c],
         UNCHANGED <<registryVars, proxies, cache, pinned, laneVars, toClient, replies, pending>>,
         \/ Asks(m) /\ client' = [client EXCEPT ![c] = "waiting"]
         \/ m.op = "CallAsync" /\ client' = client
  PROVE  StepOK(c)
<1>1. Sent(c, m)
  BY SendSends DEF PlainInv
<1>2. replies[c] = <<>> /\ \A i \in 1 .. Len(Queue(c)) : Goes(Queue(c)[i])
  BY Running DEF PlainInv
<1>3. [DisciplinedNext]_registryVars /\ \A d \in Contexts : OwnedBy(d)' = OwnedBy(d)
  BY SameOwned
<1>4. Len(Queue(c)) \in Nat /\ \A i \in 1 .. Len(Queue(c)) : Queue(c)[i] \in IssuedMessages
  BY QueueMessages
<1>5. client \in [Contexts -> {"running", "waiting", "released"}]
  BY DEF PlainInv, PlainShape
<1>6. /\ client'[c] \in {"running", "waiting"} /\ \A d \in Contexts \ {c} : client'[d] = client[d]
      /\ (Asks(m) /\ client'[c] = "waiting") \/ (m.op = "CallAsync" /\ client'[c] = "running")
      /\ client' \in [Contexts -> {"running", "waiting", "released"}]
  BY <1>5
<1>7. PlainShape'
  BY <1>1, <1>6 DEF PlainInv, PlainShape, Sent, laneVars
<1>8. Protocol(c)'
  <2>1. ASSUME NEW i \in 1 .. Len(Queue(c)')
        PROVE  \/ Goes(Queue(c)'[i])
               \/ i = Len(Queue(c)') /\ client'[c] = "waiting" /\ Asks(Queue(c)'[i])
    BY <1>1, <1>2, <1>6 DEF Sent, Goes
  <2>2. client'[c] = "waiting" => Asks(Queue(c)'[Len(Queue(c)')])
    BY <1>1, <1>6 DEF Sent
  <2> QED BY <1>1, <1>2, <1>6, <2>1, <2>2 DEF Protocol, Sent
<1>9. GivenBackOnce(Queue(c))'
  <2>1. ~Gives(m)
    BY <1>6 DEF Gives, Asks
  <2>2. \A j \in 1 .. Len(Queue(c)) : Gives(Queue(c)[j]) => Queue(c)[j].id \notin cache[c]
    BY DEF PlainInv, References, InUse
  <2>3. \A i, j \in 1 .. Len(Queue(c)) :
          /\ Gives(Queue(c)[i]) /\ Gives(Queue(c)[j]) /\ Queue(c)[i].id = Queue(c)[j].id => i = j
          /\ Calls(Queue(c)[i]) /\ Gives(Queue(c)[j]) /\ Queue(c)[i].id = Queue(c)[j].id => i < j
    BY DEF PlainInv, References, GivenBackOnce
  <2> SUFFICES ASSUME NEW i \in 1 .. Len(Queue(c)'), NEW j \in 1 .. Len(Queue(c)'),
                      Gives(Queue(c)'[j]), Queue(c)'[i].id = Queue(c)'[j].id
               PROVE  (Gives(Queue(c)'[i]) => i = j) /\ (Calls(Queue(c)'[i]) => i < j)
    BY DEF GivenBackOnce
  <2>4. j \in 1 .. Len(Queue(c)) /\ Queue(c)'[j] = Queue(c)[j]
    BY <1>1, <2>1 DEF Sent
  <2>5. CASE i \in 1 .. Len(Queue(c))
    BY <1>1, <2>3, <2>4, <2>5 DEF Sent
  <2>6. CASE i = Len(Queue(c)) + 1
    BY <1>1, <2>1, <2>2, <2>4, <2>6 DEF Sent
  <2> QED BY <1>1, <2>5, <2>6 DEF Sent
<1>10. InUse(c)'
  <2>1. m.id \in OwnedBy(c) \/ ~Calls(m)
    BY DEF PlainInv, References, InUse
  <2>2. ~Gives(m)
    BY <1>6 DEF Gives, Asks
  <2>3. \A i \in 1 .. Len(Queue(c)') :
          /\ Gives(Queue(c)'[i]) => Queue(c)'[i].id \in OwnedBy(c) \ cache[c]
          /\ Calls(Queue(c)'[i]) => Queue(c)'[i].id \in OwnedBy(c)
    BY <1>1, <2>1, <2>2 DEF PlainInv, References, InUse, Sent
  <2> QED BY <1>2, <1>3, <1>6, <2>3 DEF PlainInv, References, InUse
<1>11. Tracked(c)'
  <2>1. ASSUME NEW id \in OwnedBy(c)
        PROVE  \/ id \in cache[c]
               \/ \E i \in 1 .. Len(Queue(c)') : Gives(Queue(c)'[i]) /\ Queue(c)'[i].id = id
    <3>1. \/ id \in cache[c]
          \/ \E i \in 1 .. Len(Queue(c)) : Gives(Queue(c)[i]) /\ Queue(c)[i].id = id
      BY <1>2 DEF PlainInv, References, Tracked
    <3>2. \A i \in 1 .. Len(Queue(c)) : i \in 1 .. Len(Queue(c)') /\ Queue(c)'[i] = Queue(c)[i]
      BY <1>1, <1>4 DEF Sent
    <3> QED BY <3>1, <3>2
  <2> QED BY <1>3, <2>1 DEF Tracked
<1>12. \A d \in Contexts \ {c} : Apart(d)
  BY <1>1, <1>3, <1>6 DEF Apart, Sent
<1> QED BY <1>3, <1>7, <1>8, <1>9, <1>10, <1>11, <1>12 DEF StepOK, References

(* A collected proxy leaves its cache entry.                               *)
LEMMA CollectKeeps ==
  ASSUME RemoteIInv, PlainInv, NEW c \in Contexts, NEW id \in DOMAIN proxies[c], Collect(c, id)
  PROVE  StepOK(c)
<1>1. /\ proxies' = [proxies EXCEPT ![c] = [i \in DOMAIN @ \ {id} |-> @[i]]]
      /\ UNCHANGED <<registryVars, client, cache, pinned, laneVars, netVars>>
  BY DEF Collect
<1>2. /\ DOMAIN proxies'[c] \subseteq DOMAIN proxies[c]
      /\ \A d \in Contexts \ {c} : proxies'[d] = proxies[d]
  <2>1. DOMAIN proxies = Contexts
    BY DEF RemoteIInv, ClientIssued
  <2> QED BY <1>1, <2>1
<1>3. [DisciplinedNext]_registryVars /\ \A d \in Contexts : OwnedBy(d)' = OwnedBy(d)
  BY <1>1, SameOwned
<1>4. Queue(c)' = Queue(c) /\ replies' = replies /\ toHost' = toHost
  BY <1>1 DEF netVars, Queue
<1>5. PlainShape'
  BY <1>1 DEF PlainInv, PlainShape, netVars, laneVars
<1>6. Protocol(c)' /\ GivenBackOnce(Queue(c))'
  BY <1>1, <1>3, <1>4 DEF PlainInv, Protocol, References, GivenBackOnce
<1>7. InUse(c)' /\ Tracked(c)'
  BY <1>1, <1>2, <1>3, <1>4 DEF PlainInv, References, InUse, Tracked
<1>8. \A d \in Contexts \ {c} : Apart(d)
  BY <1>1, <1>2, <1>3, <1>4 DEF Apart
<1> QED BY <1>3, <1>5, <1>6, <1>7, <1>8 DEF StepOK, References

(* The heap goes, and the release is the last message.                     *)
LEMMA ExitKeeps ==
  ASSUME RemoteIInv, PlainInv, NEW c \in Contexts, Exit(c)
  PROVE  StepOK(c)
<1> DEFINE m == Message("ContextRelease", 0)
<1>1. /\ client[c] = "running" /\ Send(c, m) /\ client' = [client EXCEPT ![c] = "released"]
      /\ proxies' = [proxies EXCEPT ![c] = [id \in {} |-> NoObject]]
      /\ cache' = [cache EXCEPT ![c] = {}] /\ pinned' = [pinned EXCEPT ![c] = {}]
      /\ UNCHANGED <<registryVars, laneVars, toClient, replies, pending>>
  BY DEF Exit, DropHeap
<1>2. m \in IssuedMessages /\ m.op = "ContextRelease"
  BY DEF Message, IssuedMessages
<1> HIDE DEF m
<1>3. Sent(c, m)
  BY <1>1, <1>2, SendSends DEF PlainInv
<1>4. replies[c] = <<>> /\ \A i \in 1 .. Len(Queue(c)) : Goes(Queue(c)[i])
  BY <1>1, Running DEF PlainInv
<1>5. [DisciplinedNext]_registryVars /\ \A d \in Contexts : OwnedBy(d)' = OwnedBy(d)
  BY <1>1, SameOwned
<1>6. /\ DOMAIN proxies = Contexts /\ DOMAIN cache = Contexts /\ Len(Queue(c)) \in Nat
      /\ client \in [Contexts -> {"running", "waiting", "released"}]
  BY QueueMessages DEF RemoteIInv, ClientIssued, PlainInv, PlainShape
<1>7. /\ client'[c] = "released" /\ DOMAIN proxies'[c] = {} /\ cache'[c] = {}
      /\ \A d \in Contexts \ {c} :
           client'[d] = client[d] /\ proxies'[d] = proxies[d] /\ cache'[d] = cache[d]
      /\ client' \in [Contexts -> {"running", "waiting", "released"}]
  BY <1>1, <1>6
<1>8. PlainShape'
  <2>1. pinned' = [d \in Contexts |-> {}]
    BY <1>1 DEF PlainInv, PlainShape
  <2>2. \A d \in Contexts : toHost'[d]["direct"] = <<>>
    BY <1>3 DEF PlainInv, PlainShape, Sent
  <2> QED BY <1>1, <1>7, <2>1, <2>2 DEF PlainInv, PlainShape, laneVars
<1>9. Protocol(c)'
  BY <1>1, <1>2, <1>3, <1>4, <1>6, <1>7 DEF Protocol, Sent
<1>10. \A i \in 1 .. Len(Queue(c)') : Gives(Queue(c)'[i]) \/ Calls(Queue(c)'[i]) =>
         i \in 1 .. Len(Queue(c)) /\ Queue(c)'[i] = Queue(c)[i]
  BY <1>2, <1>3 DEF Sent, Gives, Calls
<1>11. GivenBackOnce(Queue(c))'
  BY <1>10 DEF PlainInv, References, GivenBackOnce
<1>12. InUse(c)'
  <2>1. \A i \in 1 .. Len(Queue(c)') :
          /\ Gives(Queue(c)'[i]) => Queue(c)'[i].id \in OwnedBy(c)
          /\ Calls(Queue(c)'[i]) => Queue(c)'[i].id \in OwnedBy(c)
    BY <1>10 DEF PlainInv, References, InUse
  <2> QED BY <1>1, <1>4, <1>5, <1>7, <2>1 DEF InUse
<1>13. Tracked(c)'
  BY <1>7 DEF Tracked
<1>14. \A d \in Contexts \ {c} : Apart(d)
  BY <1>1, <1>3, <1>5, <1>7 DEF Apart, Sent
<1> QED BY <1>5, <1>8, <1>9, <1>11, <1>12, <1>13, <1>14 DEF StepOK, References

(* A cleared entry becomes a message.                                      *)
LEMMA RunFinalizerKeeps ==
  ASSUME RemoteIInv, PlainInv, NEW c \in Contexts, NEW id \in 1 .. MaxId, RunFinalizer(c, id)
  PROVE  StepOK(c)
<1>1. /\ client[c] = "running"
      /\ UNCHANGED <<registryVars, client, proxies, pinned, laneVars, toClient, replies, pending>>
  BY DEF RunFinalizer
<1>2. [DisciplinedNext]_registryVars /\ \A d \in Contexts : OwnedBy(d)' = OwnedBy(d)
  BY <1>1, SameOwned
<1>3. CASE ~ClearedEntry(c, id)
  <2>1. UNCHANGED <<cache, toHost>>
    BY <1>3 DEF RunFinalizer, ReturnId
  <2>2. Apart(c) /\ \A d \in Contexts \ {c} : Apart(d)
    BY <1>1, <1>2, <2>1 DEF Apart
  <2>3. PlainShape'
    BY <1>1, <2>1 DEF PlainInv, PlainShape, laneVars
  <2> QED BY <1>2, <2>2, <2>3, ApartKept DEF StepOK, PlainInv
<1>4. CASE ClearedEntry(c, id)
  <2> DEFINE m == Message("Dereference", id)
  <2>1. Send(c, m) /\ cache' = [cache EXCEPT ![c] = @ \ {id}]
    BY <1>4 DEF RunFinalizer, ReturnId
  <2>2. id \in cache[c] /\ id \notin DOMAIN proxies[c]
    BY <1>4 DEF ClearedEntry, Cached, Proxied
  <2>3. cache \in [Contexts -> SUBSET (1 .. nextId)] /\ nextId \in Nat
    BY MaxIdAssumption DEF RemoteIInv, ClientIssued, RegistryIInv, RegistryTypeOK
  <2>4. m \in IssuedMessages /\ Gives(m) /\ m.id = id /\ Goes(m) /\ ~Calls(m)
    BY <2>2, <2>3 DEF Message, IssuedMessages, Gives, Goes, Calls
  <2> HIDE DEF m
  <2>5. Sent(c, m)
    BY <2>1, <2>4, SendSends DEF PlainInv
  <2>6. replies[c] = <<>> /\ \A i \in 1 .. Len(Queue(c)) : Goes(Queue(c)[i])
    BY <1>1, Running DEF PlainInv
  <2>7. Len(Queue(c)) \in Nat
    BY QueueMessages
  <2>8. cache'[c] = cache[c] \ {id} /\ \A d \in Contexts \ {c} : cache'[d] = cache[d]
    BY <2>1, <2>3
  <2>9. PlainShape'
    BY <1>1, <2>5 DEF PlainInv, PlainShape, Sent, laneVars
  <2>10. Protocol(c)'
    <3>1. \A i \in 1 .. Len(Queue(c)') : Goes(Queue(c)'[i])
      BY <2>4, <2>5, <2>6 DEF Sent
    <3> QED BY <1>1, <2>6, <3>1 DEF Protocol
  <2>11. InUse(c)'
    <3>1. id \in OwnedBy(c)
      BY <2>2 DEF PlainInv, References, InUse
    <3>2. \A i \in 1 .. Len(Queue(c)') :
            /\ Gives(Queue(c)'[i]) => Queue(c)'[i].id \in OwnedBy(c) \ cache'[c]
            /\ Calls(Queue(c)'[i]) => Queue(c)'[i].id \in OwnedBy(c)
      BY <2>4, <2>5, <2>8, <3>1 DEF PlainInv, References, InUse, Sent
    <3>3. DOMAIN proxies[c] \subseteq cache'[c] /\ cache'[c] \subseteq OwnedBy(c)
      BY <2>2, <2>8 DEF PlainInv, References, InUse
    <3> QED BY <1>1, <1>2, <2>6, <3>2, <3>3 DEF InUse
  <2>12. GivenBackOnce(Queue(c))'
    <3>1. \A i \in 1 .. Len(Queue(c)) : Gives(Queue(c)[i]) => Queue(c)[i].id # id
      BY <2>2 DEF PlainInv, References, InUse
    <3>2. \A i, j \in 1 .. Len(Queue(c)) :
            /\ Gives(Queue(c)[i]) /\ Gives(Queue(c)[j]) /\ Queue(c)[i].id = Queue(c)[j].id => i = j
            /\ Calls(Queue(c)[i]) /\ Gives(Queue(c)[j]) /\ Queue(c)[i].id = Queue(c)[j].id => i < j
      BY DEF PlainInv, References, GivenBackOnce
    <3> SUFFICES ASSUME NEW i \in 1 .. Len(Queue(c)'), NEW j \in 1 .. Len(Queue(c)'),
                        Gives(Queue(c)'[j]), Queue(c)'[i].id = Queue(c)'[j].id
                 PROVE  (Gives(Queue(c)'[i]) => i = j) /\ (Calls(Queue(c)'[i]) => i < j)
      BY DEF GivenBackOnce
    <3>3. CASE i \in 1 .. Len(Queue(c)) /\ j \in 1 .. Len(Queue(c))
      BY <2>5, <3>2, <3>3 DEF Sent
    <3>4. CASE i \in 1 .. Len(Queue(c)) /\ j = Len(Queue(c)) + 1
      BY <2>4, <2>5, <2>7, <3>1, <3>4 DEF Sent
    <3>5. CASE i = Len(Queue(c)) + 1 /\ j \in 1 .. Len(Queue(c))
      BY <2>4, <2>5, <3>1, <3>5 DEF Sent
    <3>6. CASE i = Len(Queue(c)) + 1 /\ j = i
      BY <2>4, <2>5, <3>6 DEF Sent
    <3> QED BY <2>5, <3>3, <3>4, <3>5, <3>6 DEF Sent
  <2>13. Tracked(c)'
    <3> SUFFICES ASSUME NEW x \in OwnedBy(c)
                 PROVE  \/ x \in cache'[c]
                        \/ \E i \in 1 .. Len(Queue(c)') : Gives(Queue(c)'[i]) /\ Queue(c)'[i].id = x
      BY <1>2 DEF Tracked
    <3>1. CASE x = id
      <4>1. Len(Queue(c)) + 1 \in 1 .. Len(Queue(c)')
        BY <2>5, <2>7 DEF Sent
      <4> QED BY <2>4, <2>5, <3>1, <4>1 DEF Sent
    <3>2. CASE x \in cache[c] /\ x # id
      BY <2>8, <3>2
    <3>3. CASE \E i \in 1 .. Len(Queue(c)) : Gives(Queue(c)[i]) /\ Queue(c)[i].id = x
      <4>1. \A i \in 1 .. Len(Queue(c)) : i \in 1 .. Len(Queue(c)') /\ Queue(c)'[i] = Queue(c)[i]
        BY <2>5, <2>7 DEF Sent
      <4> QED BY <3>3, <4>1
    <3> QED BY <1>1, <2>6, <3>1, <3>2, <3>3 DEF PlainInv, References, Tracked
  <2>14. \A d \in Contexts \ {c} : Apart(d)
    BY <1>1, <1>2, <2>5, <2>8 DEF Apart, Sent
  <2> QED BY <1>2, <2>9, <2>10, <2>11, <2>12, <2>13, <2>14 DEF StepOK, References
<1> QED BY <1>3, <1>4

LEMMA OneReply ==
  ASSUME NEW S, NEW s \in Seq(S), Len(s) = 1
  PROVE  Head(s) = s[1] /\ Head(s) \in S /\ Tail(s) = <<>>
<1>1. s # <<>>
  OBVIOUS
<1>2. Head(s) = s[1] /\ Head(s) \in S /\ Tail(s) \in Seq(S) /\ Len(Tail(s)) = 0
  BY <1>1
<1>3. \A t \in Seq(S) : Len(t) = 0 => t = <<>>
  OBVIOUS
<1> QED BY <1>2, <1>3

(* A reply: what it names enters the cache.                                *)
LEMMA ReceiveReplyKeeps ==
  ASSUME RemoteIInv, PlainInv, NEW c \in Contexts, ReceiveReply(c)
  PROVE  StepOK(c)
<1> DEFINE meta == Head(replies[c])
<1>1. /\ client[c] = "waiting" /\ replies[c] # <<>> /\ client' = [client EXCEPT ![c] = "running"]
      /\ replies' = [replies EXCEPT ![c] = Tail(@)] /\ MetaToValue(c, meta) /\ UNCHANGED pinned
      /\ UNCHANGED <<registryVars, laneVars, toHost, toClient, pending>>
  BY DEF ReceiveReply, PlainInv, PlainShape
<1>2. /\ replies \in [Contexts -> Seq(IssuedMetas)] /\ DOMAIN proxies = Contexts
      /\ DOMAIN cache = Contexts
  BY DEF RemoteIInv, NetworkIssued, ClientIssued
<1>3. Queue(c) = <<>> /\ Queue(c)' = <<>> /\ Len(replies[c]) = 1
  BY <1>1 DEF PlainInv, Protocol, Queue
<1>4. meta = replies[c][1] /\ meta \in IssuedMetas /\ Tail(replies[c]) = <<>>
  <2>1. replies[c] \in Seq(IssuedMetas)
    BY <1>2
  <2> QED BY <1>3, <2>1, OneReply
<1>5. replies'[c] = <<>> /\ \A d \in Contexts \ {c} : replies'[d] = replies[d]
  BY <1>1, <1>2, <1>4
<1>6. meta.id \in OwnedBy(c) \cup {0}
  BY <1>1, <1>4 DEF PlainInv, References, InUse
<1>7. meta = Plain => meta.id = 0
  BY DEF Plain
<1>8. 0 \notin OwnedBy(c) /\ (meta # Plain => meta.id # 0)
  <2>1. \A x \in OwnedBy(c) : x \in 1 .. nextId
    BY DEF OwnedBy, RemoteIInv, RegistryIInv, RegistryTypeOK
  <2> QED BY <1>4, <2>1 DEF IssuedMetas, Issued
<1>9. \A x \in OwnedBy(c) : x \in cache[c] \/ x = meta.id
  BY <1>1, <1>3, <1>4 DEF PlainInv, References, Tracked
<1>10. /\ DOMAIN proxies[c] \subseteq cache[c] /\ cache[c] \subseteq OwnedBy(c)
  BY DEF PlainInv, References, InUse
<1> HIDE DEF meta
<1>11. /\ DOMAIN proxies'[c] \subseteq cache'[c] /\ cache'[c] = OwnedBy(c)
       /\ \A d \in Contexts \ {c} :
            DOMAIN proxies'[d] = DOMAIN proxies[d] /\ cache'[d] = cache[d]
  <2>1. CASE meta = Plain \/ Live(c, meta.id)
    <3>1. UNCHANGED <<proxies, cache>>
      BY <1>1, <2>1 DEF MetaToValue
    <3>2. \A x \in OwnedBy(c) : x \in cache[c]
      BY <1>7, <1>8, <1>9, <2>1 DEF Live, Cached
    <3> QED BY <1>10, <3>1, <3>2
  <2>2. CASE ~(meta = Plain \/ Live(c, meta.id))
    <3>1. /\ proxies' = [proxies EXCEPT ![c] =
                [id \in DOMAIN @ \cup {meta.id} |-> IF id = meta.id THEN meta.object ELSE @[id]]]
          /\ cache' = [cache EXCEPT ![c] = @ \cup {meta.id}]
      BY <1>1, <2>2 DEF MetaToValue
    <3>2. /\ DOMAIN proxies'[c] = DOMAIN proxies[c] \cup {meta.id}
          /\ cache'[c] = cache[c] \cup {meta.id}
          /\ \A d \in Contexts \ {c} : proxies'[d] = proxies[d] /\ cache'[d] = cache[d]
      BY <1>2, <3>1
    <3>3. meta.id \in OwnedBy(c)
      BY <1>6, <1>8, <2>2
    <3> QED BY <1>9, <1>10, <3>2, <3>3
  <2> QED BY <2>1, <2>2
<1>12. [DisciplinedNext]_registryVars /\ \A d \in Contexts : OwnedBy(d)' = OwnedBy(d)
  BY <1>1, SameOwned
<1>13. /\ client'[c] = "running" /\ \A d \in Contexts \ {c} : client'[d] = client[d]
       /\ client' \in [Contexts -> {"running", "waiting", "released"}]
  BY <1>1 DEF PlainInv, PlainShape
<1>14. PlainShape'
  BY <1>1, <1>13 DEF PlainInv, PlainShape, laneVars
<1>15. Protocol(c)' /\ GivenBackOnce(Queue(c))'
  BY <1>3, <1>5, <1>13 DEF Protocol, GivenBackOnce
<1>16. InUse(c)' /\ Tracked(c)'
  BY <1>3, <1>5, <1>11, <1>12, <1>13 DEF InUse, Tracked
<1>17. \A d \in Contexts \ {c} : Apart(d)
  BY <1>1, <1>5, <1>11, <1>12, <1>13 DEF Apart
<1> QED BY <1>12, <1>14, <1>15, <1>16, <1>17 DEF StepOK, References

(***************************************************************************)
(* The steps of the host.                                                  *)
(***************************************************************************)
LEMMA TailProtocol ==
  ASSUME NEW c \in Contexts, Protocol(c), TakenOff(c), Goes(Queue(c)[1]),
         client'[c] = client[c], replies'[c] = replies[c]
  PROVE  Protocol(c)'
<1>1. Queue(c) # <<>> /\ replies[c] = <<>>
  BY DEF Protocol, TakenOff
<1>2. \A i \in 1 .. Len(Queue(c)') :
        \/ Goes(Queue(c)'[i])
        \/ i = Len(Queue(c)') /\ client[c] = "waiting" /\ Asks(Queue(c)'[i])
        \/ i = Len(Queue(c)') /\ client[c] = "released" /\ Queue(c)'[i].op = "ContextRelease"
  BY DEF Protocol, TakenOff
<1>3. ASSUME ~Goes(Queue(c)[Len(Queue(c))])
      PROVE  Queue(c)' # <<>> /\ Queue(c)'[Len(Queue(c)')] = Queue(c)[Len(Queue(c))]
  <2>1. Len(Queue(c)) # 1
    BY <1>3
  <2>2. Len(Queue(c)') \in 1 .. Len(Queue(c)') /\ Len(Queue(c)') + 1 = Len(Queue(c))
    BY <2>1 DEF TakenOff
  <2> QED BY <2>1, <2>2 DEF TakenOff
<1>4. \A m : Asks(m) \/ m.op = "ContextRelease" => ~Goes(m)
  BY DEF Asks, Goes
<1>5. client[c] = "waiting" => Queue(c)' # <<>> /\ Asks(Queue(c)'[Len(Queue(c)')])
  BY <1>1, <1>3, <1>4 DEF Protocol
<1>6. client[c] = "released" => Queue(c)' # <<>> /\ Queue(c)'[Len(Queue(c)')].op = "ContextRelease"
  BY <1>1, <1>3, <1>4 DEF Protocol
<1> QED BY <1>1, <1>2, <1>5, <1>6 DEF Protocol

LEMMA TailOnce ==
  ASSUME NEW c \in Contexts, GivenBackOnce(Queue(c)), TakenOff(c)
  PROVE  GivenBackOnce(Queue(c))'
<1> SUFFICES ASSUME NEW i \in 1 .. Len(Queue(c)'), NEW j \in 1 .. Len(Queue(c)'),
                    Gives(Queue(c)'[j]), Queue(c)'[i].id = Queue(c)'[j].id
             PROVE  (Gives(Queue(c)'[i]) => i = j) /\ (Calls(Queue(c)'[i]) => i < j)
  BY DEF GivenBackOnce
<1>1. /\ i + 1 \in 1 .. Len(Queue(c)) /\ Queue(c)'[i] = Queue(c)[i + 1]
      /\ j + 1 \in 1 .. Len(Queue(c)) /\ Queue(c)'[j] = Queue(c)[j + 1]
  BY DEF TakenOff
<1>2. (Gives(Queue(c)'[i]) => i + 1 = j + 1) /\ (Calls(Queue(c)'[i]) => i + 1 < j + 1)
  BY <1>1 DEF GivenBackOnce
<1> QED BY <1>2

LEMMA AddOwns ==
  ASSUME RemoteIInv, NEW c \in Contexts, NEW o \in Objects, Add(c, o)
  PROVE  /\ [DisciplinedNext]_registryVars
         /\ OwnedBy(c)' = OwnedBy(c) \cup {IdFor(o)}
         /\ \A d \in Contexts \ {c} : OwnedBy(d)' = OwnedBy(d)
<1>1. /\ DOMAIN owners' = DOMAIN owners \cup {c}
      /\ \A d \in DOMAIN owners : d # c => owners'[d] = owners[d]
      /\ owners'[c] = OwnedBy(c) \cup {IdFor(o)}
  BY AddEffect DEF RemoteIInv, RegistryIInv
<1> QED BY <1>1 DEF DisciplinedNext, OwnedBy

LEMMA RemoveOwns ==
  ASSUME RemoteIInv, NEW c \in Contexts, NEW id \in OwnedBy(c), Remove(c, id)
  PROVE  /\ [DisciplinedNext]_registryVars
         /\ OwnedBy(c)' = OwnedBy(c) \ {id}
         /\ \A d \in Contexts \ {c} : OwnedBy(d)' = OwnedBy(d)
<1>1. c \in DOMAIN owners /\ OwnedBy(c) = owners[c] /\ id \in owners[c]
  BY DEF OwnedBy
<1>2. owners' = [owners EXCEPT ![c] = @ \ {id}]
  BY <1>1 DEF Remove
<1>3. id \in 1 .. nextId
  BY <1>1 DEF RemoteIInv, RegistryIInv, RegistryTypeOK
<1>4. DisciplinedNext
  BY <1>1, <1>3 DEF DisciplinedNext, RemoveOwned
<1> QED BY <1>1, <1>2, <1>4 DEF OwnedBy

LEMMA ClearOwns ==
  ASSUME NEW c \in Contexts, Clear(c)
  PROVE  /\ [DisciplinedNext]_registryVars
         /\ OwnedBy(c)' = {}
         /\ \A d \in Contexts \ {c} : OwnedBy(d)' = OwnedBy(d)
<1>1. DisciplinedNext
  BY DEF DisciplinedNext
<1>2. CASE c \in DOMAIN owners
  BY <1>1, <1>2 DEF Clear, OwnedBy
<1>3. CASE c \notin DOMAIN owners
  BY <1>1, <1>3 DEF Clear, OwnedBy, registryVars
<1> QED BY <1>2, <1>3

(* A call that waits is the only message, and has its reply.               *)
LEMMA AnswerKeeps ==
  ASSUME Features = {}, RemoteIInv, PlainInv, NEW c \in Contexts, TakenOff(c), Asks(Queue(c)[1]),
         Invoke(c) \/ (Reply(c, Plain) /\ UNCHANGED registryVars),
         UNCHANGED <<clientVars, laneVars, toClient, pending>>
  PROVE  StepOK(c)
<1>1. Queue(c) # <<>> /\ client[c] = "waiting" /\ Len(Queue(c)) = 1 /\ replies[c] = <<>>
  BY DEF TakenOff, PlainInv, Protocol, Asks, Goes
<1>2. Queue(c)' = <<>> /\ ~Gives(Queue(c)[1])
  BY <1>1 DEF TakenOff, Asks, Gives
<1>3. PICK meta :
        /\ Reply(c, meta)
        /\ \/ UNCHANGED registryVars /\ meta = Plain
           \/ \E o \in Objects : Add(c, o) /\ meta = MetaOf(o)
  BY DEF Invoke
<1>4. replies \in [Contexts -> Seq(IssuedMetas)]
  BY DEF RemoteIInv, NetworkIssued
<1>5. replies' = [replies EXCEPT ![c] = Append(@, meta)]
  BY <1>1, <1>3 DEF Reply, Gone
<1>6. replies'[c] = <<meta>> /\ \A d \in Contexts \ {c} : replies'[d] = replies[d]
  BY <1>1, <1>4, <1>5
<1>7. replies'[c] # <<>> /\ Len(replies'[c]) = 1 /\ replies'[c][1] = meta
  BY <1>6
<1>8. /\ [DisciplinedNext]_registryVars
      /\ OwnedBy(c) \subseteq OwnedBy(c)' /\ OwnedBy(c)' \subseteq OwnedBy(c) \cup {meta.id}
      /\ meta.id \in OwnedBy(c)' \cup {0}
      /\ \A d \in Contexts \ {c} : OwnedBy(d)' = OwnedBy(d)
  <2>1. CASE UNCHANGED registryVars /\ meta = Plain
    BY <2>1, SameOwned DEF Plain
  <2>2. ASSUME NEW o \in Objects, Add(c, o), meta = MetaOf(o)
        PROVE  /\ [DisciplinedNext]_registryVars
               /\ OwnedBy(c) \subseteq OwnedBy(c)' /\ OwnedBy(c)' \subseteq OwnedBy(c) \cup {meta.id}
               /\ meta.id \in OwnedBy(c)'
               /\ \A d \in Contexts \ {c} : OwnedBy(d)' = OwnedBy(d)
    BY <2>2, AddOwns DEF MetaOf
  <2> QED BY <1>3, <2>1, <2>2
<1>9. client' = client /\ proxies' = proxies /\ cache' = cache /\ pinned' = pinned
  BY DEF clientVars
<1>10. PlainShape'
  <2>1. \A d \in Contexts : toHost'[d]["direct"] = <<>>
    BY DEF TakenOff, PlainInv, PlainShape
  <2> QED BY <1>9, <2>1 DEF PlainInv, PlainShape, laneVars
<1>11. Protocol(c)' /\ GivenBackOnce(Queue(c))'
  BY <1>1, <1>2, <1>7, <1>9 DEF Protocol, GivenBackOnce
<1>12. InUse(c)'
  BY <1>1, <1>2, <1>7, <1>8, <1>9 DEF InUse, PlainInv, References
<1>13. Tracked(c)'
  <2>1. \A id \in OwnedBy(c) : id \in cache[c]
    BY <1>1, <1>2 DEF PlainInv, References, Tracked
  <2> QED BY <1>7, <1>8, <1>9, <2>1 DEF Tracked
<1>14. \A d \in Contexts \ {c} : Apart(d)
  BY <1>6, <1>8, <1>9 DEF Apart, TakenOff
<1> QED BY <1>8, <1>10, <1>11, <1>12, <1>13, <1>14 DEF StepOK, References

(* An asynchronous call changes nothing that is counted.                   *)
LEMMA AsyncKeeps ==
  ASSUME RemoteIInv, PlainInv, NEW c \in Contexts, TakenOff(c), Queue(c)[1].op = "CallAsync",
         UNCHANGED <<registryVars, clientVars, laneVars, toClient, replies, pending>>
  PROVE  StepOK(c)
<1>1. [DisciplinedNext]_registryVars /\ \A d \in Contexts : OwnedBy(d)' = OwnedBy(d)
  BY SameOwned
<1>2. client' = client /\ proxies' = proxies /\ cache' = cache /\ pinned' = pinned
  BY DEF clientVars
<1>3. PlainShape'
  <2>1. \A d \in Contexts : toHost'[d]["direct"] = <<>>
    BY DEF TakenOff, PlainInv, PlainShape
  <2> QED BY <1>2, <2>1 DEF PlainInv, PlainShape, laneVars
<1>4. Protocol(c)' /\ GivenBackOnce(Queue(c))'
  BY <1>2, TailProtocol, TailOnce DEF PlainInv, References, Goes
<1>5. InUse(c)'
  BY <1>1, <1>2 DEF InUse, PlainInv, References, TakenOff
<1>6. Tracked(c)'
  <2> SUFFICES ASSUME NEW id \in OwnedBy(c), NEW i \in 1 .. Len(Queue(c)),
                      Gives(Queue(c)[i]), Queue(c)[i].id = id
               PROVE  \E j \in 1 .. Len(Queue(c)') : Gives(Queue(c)'[j]) /\ Queue(c)'[j].id = id
    BY <1>1, <1>2 DEF PlainInv, References, Tracked
  <2>1. i # 1 /\ i - 1 \in 1 .. Len(Queue(c)') /\ (i - 1) + 1 = i
    BY DEF TakenOff, Gives
  <2> QED BY <2>1 DEF TakenOff
<1>7. \A d \in Contexts \ {c} : Apart(d)
  BY <1>1, <1>2 DEF Apart, TakenOff
<1> QED BY <1>1, <1>3, <1>4, <1>5, <1>6, <1>7 DEF StepOK, References

(* A dereference gives back what the context owns and has no more use for. *)
LEMMA DereferenceKeeps ==
  ASSUME RemoteIInv, PlainInv, NEW c \in Contexts, TakenOff(c), Gives(Queue(c)[1]),
         Remove(c, Queue(c)[1].id),
         UNCHANGED <<clientVars, laneVars, toClient, replies, pending>>
  PROVE  StepOK(c)
<1> DEFINE id == Queue(c)[1].id
<1>1. id \in OwnedBy(c) \ cache[c] /\ 1 \in 1 .. Len(Queue(c))
  BY DEF PlainInv, References, InUse, TakenOff
<1>2. /\ [DisciplinedNext]_registryVars
      /\ OwnedBy(c)' = OwnedBy(c) \ {id}
      /\ \A d \in Contexts \ {c} : OwnedBy(d)' = OwnedBy(d)
  BY <1>1, RemoveOwns
<1>3. \A i \in 1 .. Len(Queue(c)') :
        Gives(Queue(c)'[i]) \/ Calls(Queue(c)'[i]) => Queue(c)'[i].id # id
  <2> SUFFICES ASSUME NEW i \in 1 .. Len(Queue(c)'), Queue(c)'[i].id = id,
                      Gives(Queue(c)'[i]) \/ Calls(Queue(c)'[i])
               PROVE  FALSE
    OBVIOUS
  <2>1. i + 1 \in 1 .. Len(Queue(c)) /\ Queue(c)'[i] = Queue(c)[i + 1]
    BY DEF TakenOff
  <2>2. i + 1 = 1 \/ i + 1 < 1
    BY <1>1, <2>1 DEF PlainInv, References, GivenBackOnce
  <2> QED BY <2>2
<1>4. client' = client /\ proxies' = proxies /\ cache' = cache /\ pinned' = pinned
  BY DEF clientVars
<1>5. PlainShape'
  <2>1. \A d \in Contexts : toHost'[d]["direct"] = <<>>
    BY DEF TakenOff, PlainInv, PlainShape
  <2> QED BY <1>4, <2>1 DEF PlainInv, PlainShape, laneVars
<1>6. Protocol(c)' /\ GivenBackOnce(Queue(c))'
  BY <1>4, TailProtocol, TailOnce DEF PlainInv, References, Goes, Gives
<1>7. replies[c] = <<>>
  BY DEF PlainInv, Protocol, TakenOff
<1> HIDE DEF id
<1>8. InUse(c)'
  <2>1. \A i \in 1 .. Len(Queue(c)') :
          /\ Gives(Queue(c)'[i]) => Queue(c)'[i].id \in OwnedBy(c)' \ cache[c]
          /\ Calls(Queue(c)'[i]) => Queue(c)'[i].id \in OwnedBy(c)'
    <3> SUFFICES ASSUME NEW i \in 1 .. Len(Queue(c)')
                 PROVE  /\ Gives(Queue(c)'[i]) => Queue(c)'[i].id \in OwnedBy(c)' \ cache[c]
                        /\ Calls(Queue(c)'[i]) => Queue(c)'[i].id \in OwnedBy(c)'
      OBVIOUS
    <3>1. i + 1 \in 1 .. Len(Queue(c)) /\ Queue(c)'[i] = Queue(c)[i + 1]
      BY DEF TakenOff
    <3>2. /\ Gives(Queue(c)[i + 1]) => Queue(c)[i + 1].id \in OwnedBy(c) \ cache[c]
          /\ Calls(Queue(c)[i + 1]) => Queue(c)[i + 1].id \in OwnedBy(c)
      BY <3>1 DEF PlainInv, References, InUse
    <3> QED BY <1>2, <1>3, <3>1, <3>2
  <2>2. /\ DOMAIN proxies[c] \subseteq cache[c] /\ cache[c] \subseteq OwnedBy(c)'
        /\ client[c] = "released" => cache[c] = {}
    BY <1>1, <1>2 DEF PlainInv, References, InUse
  <2> QED BY <1>4, <1>7, <2>1, <2>2 DEF InUse
<1>9. Tracked(c)'
  <2> SUFFICES ASSUME NEW x \in OwnedBy(c), x # id, NEW i \in 1 .. Len(Queue(c)),
                      Gives(Queue(c)[i]), Queue(c)[i].id = x
               PROVE  \E j \in 1 .. Len(Queue(c)') : Gives(Queue(c)'[j]) /\ Queue(c)'[j].id = x
    BY <1>2, <1>4, <1>7 DEF PlainInv, References, Tracked
  <2>1. i # 1
    BY DEF id
  <2>2. i - 1 \in 1 .. Len(Queue(c)') /\ (i - 1) + 1 = i
    BY <2>1 DEF TakenOff
  <2> QED BY <2>2 DEF TakenOff
<1>10. \A d \in Contexts \ {c} : Apart(d)
  BY <1>2, <1>4 DEF Apart, TakenOff
<1> QED BY <1>2, <1>5, <1>6, <1>8, <1>9, <1>10 DEF StepOK, References

(* The release is the last message of its context.                         *)
LEMMA ReleaseKeeps ==
  ASSUME RemoteIInv, PlainInv, NEW c \in Contexts, TakenOff(c), Queue(c)[1].op = "ContextRelease",
         Clear(c), UNCHANGED <<clientVars, laneVars, toClient, replies, pending>>
  PROVE  StepOK(c)
<1>1. Len(Queue(c)) = 1 /\ client[c] = "released" /\ replies[c] = <<>>
  BY DEF TakenOff, PlainInv, Protocol, Goes, Asks
<1>2. Queue(c)' = <<>>
  BY <1>1 DEF TakenOff
<1>3. /\ [DisciplinedNext]_registryVars /\ OwnedBy(c)' = {}
      /\ \A d \in Contexts \ {c} : OwnedBy(d)' = OwnedBy(d)
  BY ClearOwns
<1>4. client' = client /\ proxies' = proxies /\ cache' = cache /\ pinned' = pinned
  BY DEF clientVars
<1>5. PlainShape'
  <2>1. \A d \in Contexts : toHost'[d]["direct"] = <<>>
    BY DEF TakenOff, PlainInv, PlainShape
  <2> QED BY <1>4, <2>1 DEF PlainInv, PlainShape, laneVars
<1>6. Protocol(c)' /\ GivenBackOnce(Queue(c))' /\ InUse(c)' /\ Tracked(c)'
  BY <1>1, <1>2, <1>3, <1>4 DEF Protocol, GivenBackOnce, InUse, Tracked, PlainInv, References
<1>7. \A d \in Contexts \ {c} : Apart(d)
  BY <1>3, <1>4 DEF Apart, TakenOff
<1> QED BY <1>3, <1>5, <1>6, <1>7 DEF StepOK, References

LEMMA PlainHostStep ==
  ASSUME Features = {}, RemoteIInv, PlainInv, NEW c \in Contexts, HostNext(c)
  PROVE  StepOK(c)
<1>1. ASSUME NEW lane \in Lanes, HostHandle(c, lane) PROVE StepOK(c)
  <2>1. lane = "browser"
    BY <1>1 DEF HostHandle, PlainInv, PlainShape, Lanes
  <2>2. /\ Queue(c) # <<>> /\ toHost' = [toHost EXCEPT ![c]["browser"] = Tail(@)]
        /\ UNCHANGED <<clientVars, laneVars, toClient>>
    BY <1>1, <2>1 DEF HostHandle, Queue
  <2>3. TakenOff(c) /\ Head(toHost[c][lane]) = Queue(c)[1]
    BY <2>1, <2>2, TakeOff DEF TakenOff, Queue
  <2>4. CASE Queue(c)[1].op = "Require" /\ HandleRequire(c)
    BY <2>2, <2>3, <2>4, AnswerKeeps DEF HandleRequire, Asks
  <2>5. CASE Queue(c)[1].op = "Call" /\ HandleCall(c, Queue(c)[1].id)
    BY <2>2, <2>3, <2>5, AnswerKeeps DEF HandleCall, Asks
  <2>6. CASE Queue(c)[1].op = "CallAsync" /\ HandleCallAsync(c, Queue(c)[1].id)
    BY <2>2, <2>3, <2>6, AsyncKeeps DEF HandleCallAsync
  <2>7. CASE Queue(c)[1].op = "Dereference" /\ HandleDereference(c, Queue(c)[1].id)
    BY <2>2, <2>3, <2>7, DereferenceKeeps DEF HandleDereference, Gives
  <2>8. CASE Queue(c)[1].op = "ContextRelease" /\ HandleContextRelease(c)
    BY <2>2, <2>3, <2>8, ReleaseKeeps DEF HandleContextRelease
  <2> QED BY <1>1, <2>3, <2>4, <2>5, <2>6, <2>7, <2>8 DEF HostHandle
<1>2. ~CollectEvent(c)
  <2> SUFFICES ASSUME Unanswered(c) PROVE FALSE
    BY DEF CollectEvent
  <2>1. client[c] = "waiting" /\ replies[c] = <<>>
    BY DEF Unanswered, PlainInv, PlainShape
  <2>2. Queue(c) # <<>> /\ Asks(Queue(c)[Len(Queue(c))])
    BY <2>1 DEF PlainInv, Protocol
  <2>3. Len(Queue(c)) \in 1 .. Len(Queue(c))
    BY <2>2, QueueMessages
  <2>4. Queue(c)[Len(Queue(c))] \in InFlight(c)
    BY <2>3 DEF InFlight, Queue, Lanes
  <2> QED BY <2>2, <2>4 DEF Unanswered, Asks
<1>3. ~SettlePromise(c)
  BY DEF SettlePromise, PlainInv, PlainShape
<1>4. ~HostConnected(c)
  BY DEF HostConnected
<1> QED BY <1>1, <1>2, <1>3, <1>4 DEF HostNext

LEMMA PlainClientStep ==
  ASSUME Features = {}, RemoteIInv, PlainInv, NEW c \in Contexts, ClientNext(c)
  PROVE  StepOK(c)
<1>1. CASE Require(c)
  <2>1. Message("Require", 0) \in IssuedMessages /\ Asks(Message("Require", 0)) /\ ~Calls(Message("Require", 0))
    BY DEF Message, IssuedMessages, Asks, Calls
  <2> QED BY <1>1, <2>1, CallKeeps DEF Require
<1>2. ASSUME NEW id \in Nameable(c),
             CallSync(c, id) \/ CallAsync(c, id) \/ LoadFunctionProperties(c, id)
      PROVE  StepOK(c)
  <2>1. id \in cache[c]
    BY DEF Nameable, PlainInv, PlainShape, References, InUse
  <2>2. id \in Nat
    BY <2>1, MaxIdAssumption DEF RemoteIInv, ClientIssued, RegistryIInv, RegistryTypeOK
  <2>3. ASSUME NEW op \in {"Call", "CallAsync"}
        PROVE  /\ Message(op, id) \in IssuedMessages /\ Message(op, id).id = id
               /\ Message(op, id).op = op
    BY <2>2 DEF Message, IssuedMessages
  <2>4. CASE CallSync(c, id)
    BY <2>1, <2>3, <2>4, CallKeeps DEF CallSync, Asks
  <2>5. CASE CallAsync(c, id)
    BY <2>1, <2>3, <2>5, CallKeeps DEF CallAsync, clientVars
  <2> QED BY <1>2, <2>4, <2>5 DEF LoadFunctionProperties
<1>3. CASE ReceiveReply(c)
  BY <1>3, ReceiveReplyKeeps
<1>4. \A lane \in Lanes : ~ReceiveCallback(c, lane)
  BY DEF ReceiveCallback, PlainInv, PlainShape
<1>5. ASSUME NEW id \in DOMAIN proxies[c], Collect(c, id) PROVE StepOK(c)
  BY <1>5, CollectKeeps
<1>6. ASSUME NEW id \in 1 .. MaxId, RunFinalizer(c, id) PROVE StepOK(c)
  BY <1>6, RunFinalizerKeeps
<1>7. CASE Exit(c)
  BY <1>7, ExitKeeps
<1>8. ~Crash(c) /\ ~ClientConnected(c)
  BY DEF Crash, ClientConnected
<1> QED BY <1>1, <1>2, <1>3, <1>4, <1>5, <1>6, <1>7, <1>8 DEF ClientNext

LEMMA PlainInitInv == RemoteInit => PlainInv
<1> SUFFICES ASSUME RemoteInit PROVE PlainInv
  OBVIOUS
<1>1. DisciplinedIInv
  BY DisciplinedInit DEF RemoteInit
<1>2. PlainShape
  BY DEF RemoteInit, PlainShape, Lanes
<1>3. ASSUME NEW c \in Contexts PROVE Protocol(c) /\ References(c)
  <2>1. /\ Queue(c) = <<>> /\ replies[c] = <<>> /\ client[c] = "running"
        /\ DOMAIN proxies[c] = {} /\ cache[c] = {}
    BY DEF RemoteInit, Queue, Lanes
  <2>2. OwnedBy(c) = {}
    BY DEF RemoteInit, RegistryInit, OwnedBy
  <2> QED BY <2>1, <2>2 DEF Protocol, References, GivenBackOnce, InUse, Tracked
<1> QED BY <1>1, <1>2, <1>3 DEF PlainInv

LEMMA PlainStep ==
  ASSUME Features = {}, RemoteIInv, PlainInv, [RemoteNext]_remoteVars
  PROVE  [DisciplinedNext]_registryVars /\ PlainInv'
<1>1. ASSUME NEW c \in Contexts, StepOK(c)
      PROVE  [DisciplinedNext]_registryVars /\ PlainInv'
  <2>1. DisciplinedIInv'
    BY <1>1, DisciplinedStep DEF StepOK, PlainInv
  <2>2. \A d \in Contexts \ {c} : Protocol(d)' /\ References(d)'
    BY <1>1, ApartKept DEF StepOK, PlainInv
  <2> QED BY <1>1, <2>1, <2>2 DEF StepOK, PlainInv
<1>2. CASE UNCHANGED remoteVars
  <2>1. UNCHANGED registryVars /\ UNCHANGED <<clientVars, laneVars, netVars>>
    BY <1>2 DEF remoteVars
  <2>2. [DisciplinedNext]_registryVars /\ \A d \in Contexts : OwnedBy(d)' = OwnedBy(d)
    BY <2>1, SameOwned
  <2>3. DisciplinedIInv'
    BY <2>2, DisciplinedStep DEF PlainInv
  <2>4. PlainShape'
    BY <2>1 DEF PlainInv, PlainShape, clientVars, laneVars, netVars
  <2>5. \A d \in Contexts : Apart(d)
    BY <2>1, <2>2 DEF Apart, clientVars, netVars
  <2> QED BY <2>2, <2>3, <2>4, <2>5, ApartKept DEF PlainInv
<1> QED BY <1>1, <1>2, PlainClientStep, PlainHostStep DEF RemoteNext

LEMMA PlainInvariant ==
  ASSUME Features = {}
  PROVE  RemoteSpec => [](RemoteIInv /\ PlainInv)
<1>1. RemoteIInv /\ PlainInv /\ [RemoteNext]_remoteVars => PlainInv'
  BY PlainStep
<1> QED BY <1>1, PlainInitInv, RemoteInitIInv, RemoteStepIInv, PTL DEF RemoteSpec

(* As long as the application keeps to synchronous calls and results that  *)
(* are no promises, clients give back what they hold, each reference once: *)
(* the theorems about DisciplinedSpec hold of the whole system.            *)
THEOREM RemoteIsDisciplined ==
  ASSUME Features = {}
  PROVE  RemoteSpec => DisciplinedSpec
<1>1. RemoteIInv /\ PlainInv /\ [RemoteNext]_remoteVars => [DisciplinedNext]_registryVars
  BY PlainStep
<1> QED BY <1>1, RemoteInitIInv, PlainInvariant, PTL DEF RemoteSpec, DisciplinedSpec

(* Then every proxy a client can use, and every call on its way, finds its *)
(* object, though proxies are collected and made anew while calls and      *)
(* dereferences of the same id are in flight.                              *)
THEOREM UsableAreBacked ==
  ASSUME Features = {}
  PROVE  RemoteSpec => []UsableIsBacked
<1>1. ASSUME RemoteIInv, PlainInv PROVE UsableIsBacked
  <2>1. \A c \in Contexts : \A id \in OwnedBy(c) : Stored(id)
    BY <1>1 DEF OwnedBy, PlainInv, DisciplinedIInv, OwnedIdsAreStored, Stored
  <2>2. HeldProxyIsOwned
    <3> SUFFICES ASSUME NEW c \in Contexts, NEW id \in DOMAIN proxies[c]
                 PROVE  id \in OwnedBy(c) /\ Stored(id) /\ storage[id].object = proxies[c][id]
      BY DEF HeldProxyIsOwned
    <3>1. id \in OwnedBy(c) /\ Stored(id)
      BY <1>1, <2>1 DEF PlainInv, References, InUse
    <3> QED BY <1>1, <3>1 DEF RemoteIInv, ClientIssued, Issued
  <2>3. CallsFindTheirObject
    <3> SUFFICES ASSUME NEW c \in Contexts, NEW l \in Lanes, toHost[c][l] # <<>>,
                        Head(toHost[c][l]).op \in {"Call", "CallAsync"}
                 PROVE  Stored(Head(toHost[c][l]).id)
      BY DEF CallsFindTheirObject
    <3>1. l = "browser"
      BY <1>1 DEF PlainInv, PlainShape, Lanes
    <3>2. 1 \in 1 .. Len(Queue(c)) /\ Head(toHost[c][l]) = Queue(c)[1]
      BY <1>1, <3>1, QueueMessages DEF Queue
    <3> QED BY <1>1, <2>1, <3>2 DEF PlainInv, References, InUse, Calls
  <2> QED BY <2>2, <2>3 DEF UsableIsBacked
<1>2. RemoteIInv /\ PlainInv => UsableIsBacked
  BY <1>1
<1> QED BY <1>2, PlainInvariant, PTL

(* And no reference is lost: each comes back from its client, or with the  *)
(* client's exit.                                                          *)
THEOREM ReferencesAllComeBack ==
  ASSUME Features = {}
  PROVE  RemoteSpec => []ReferencesComeBack
<1>1. ASSUME RemoteIInv, PlainInv PROVE ReferencesComeBack
  <2>1. OwnedIsTracked
    <3> SUFFICES ASSUME NEW c \in Contexts, client[c] \in {"running", "waiting", "loading"},
                        NEW id \in OwnedBy(c)
                 PROVE  Cached(c, id) \/ Returning(c, id) \/ Arriving(c, id)
      BY DEF OwnedIsTracked
    <3>1. CASE id \in cache[c]
      BY <3>1 DEF Cached
    <3>2. ASSUME NEW i \in 1 .. Len(Queue(c)), Gives(Queue(c)[i]), Queue(c)[i].id = id
          PROVE  Returning(c, id)
      <4>1. Queue(c)[i] = Message("Dereference", id)
        BY <1>1, <3>2, QueueMessages DEF IssuedMessages, Gives, Message
      <4> QED BY <3>2, <4>1 DEF Returning, InFlight, Queue, Lanes
    <3>3. CASE replies[c] # <<>> /\ replies[c][1].id = id
      <4>1. 1 \in 1 .. Len(replies[c])
        BY <1>1, <3>3 DEF PlainInv, Protocol
      <4> QED BY <3>3, <4>1 DEF Arriving
    <3> QED BY <1>1, <3>1, <3>2, <3>3 DEF PlainInv, References, Tracked
  <2>2. ReleasedOwnsNothing
    BY <1>1 DEF ReleasedOwnsNothing, PlainInv, Protocol, Queue, Lanes
  <2> QED BY <2>1, <2>2 DEF ReferencesComeBack
<1>2. RemoteIInv /\ PlainInv => ReferencesComeBack
  BY <1>1
<1> QED BY <1>2, PlainInvariant, PTL

(***************************************************************************)
(* What the abstract registry promises, for the one of this system.        *)
(***************************************************************************)

(* An id is not given to another object while clients may remember it,     *)
(* whatever clients do, crash or reload between registrations.             *)
THEOREM RemoteNeverReusesIds == RemoteSpec => IdsAreNeverReused
BY RemoteImplementsRegistry, RegistryNeverReusesIds

(* Where clients only make and collect proxies, the counts are exactly the *)
(* references the owners hold, what an owner holds is stored, and a step   *)
(* frees an object only if it leaves nobody who holds it.                  *)
THEOREM RemoteCountsExact ==
  ASSUME Features = {}
  PROVE  RemoteSpec => [](CountsAreExact /\ OwnedIdsAreStored) /\ FreedWhenUnheld
BY RemoteIsDisciplined, DisciplinedCountsExact, DisciplinedOwnedStored, DisciplinedFreesUnheld, PTL
=============================================================================
