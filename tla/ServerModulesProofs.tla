------------------------ MODULE ServerModulesProofs ------------------------
(***************************************************************************)
(* Proofs about ServerModules for every configuration of modules, every    *)
(* number of server lives and of commands: the types, that the two keys of *)
(* a module agree with the modules that are alive, that no module is       *)
(* deleted twice and ~CogServer deletes those it has collected, and that   *)
(* the registry never leads a command to the factory of a deleted module.  *)
(***************************************************************************)
EXTENDS ServerModules, TLAPS

(* A factory in the registry is one that its module registers.              *)
FactoriesRegistered ==
  \A n \in Names : factories[n] # 0 => n \in Registers(objects[factories[n]].file)

(* A module object is deleted at most once.                                 *)
NotTwice == \A o \in Objects : objects[o].deleted \in {0, 1}

(* What loading and unloading keep, whatever the server is doing.           *)
LoadedInv ==
  /\ LoadedOK
  /\ MapMatchesModules
  /\ FactoriesRegistered
  /\ RequestFactoriesAlive
  /\ NotTwice

(* Who may touch the modules when: the main loop's thread lives between     *)
(* start_server and the join, and there is a server while it does.          *)
Phases ==
  /\ loop # "none" => srvr # 0 /\ scheme \in {"idle", "joining"}
  /\ scheme \in {"loading", "joining", "unloading"} => srvr # 0

(* ~CogServer still has the file name of every collected module that is     *)
(* alive before it, under a key that was collected too; none of them is     *)
(* alive without a server.                                                  *)
Collected == {moduleKeys[k] : k \in Keys} \ {0}

LeftToUnload ==
  /\ scheme = "unloading" =>
       /\ todo \in Seq(Keys)
       /\ \A o \in Collected : Alive(o) =>
            /\ o \notin left
            /\ moduleKeys[objects[o].file] # 0
            /\ \E i \in DOMAIN todo : todo[i] = objects[o].file
  /\ srvr = 0 => \A o \in Collected : ~Alive(o)

ModulesInv == LifecycleOK /\ QueueOK /\ LoadedInv /\ Phases /\ LeftToUnload

----------------------------------------------------------------------------
(* The module files.                                                        *)

\* An id is a key, and no file name is an id.
LEMMA IdFacts ==
  ASSUME NEW f \in Files
  PROVE  /\ IdOf(f) \in Ids
         /\ f \in Keys
         /\ IdOf(f) \in Keys
         /\ f \notin Ids
<1>1. IdOf(f) \in Ids
  BY DEF IdOf, Ids, Files
<1>2. f \notin Ids
  BY DEF Ids, Files
<1> QED
  BY <1>1, <1>2 DEF Keys

\* What a module registers has a name, and a module takes its commands out
\* of the registry again, whatever it leaves there of its agents.
LEMMA RegisterFacts ==
  ASSUME NEW f \in Files
  PROVE  /\ Registers(f) \subseteq Names
         /\ \A n \in Registers(f) : n[1] = "request" => n \in Unregisters(f)
<1>1. Registers(f) \subseteq Names
  BY DEF Names
<1>2. \A n \in Registers(f) : n[1] = "request" => n \in Unregisters(f)
  <2>1. CASE f = "libbuiltinreqs.so"
    BY <2>1 DEF Registers, Unregisters, IdOf
  <2>2. CASE f \in {"libattention.so", "copy.so"}
    BY <2>2 DEF Registers, Unregisters, IdOf
  <2>3. CASE f = "libscheme-shell.so"
    BY <2>3 DEF Registers, Unregisters, IdOf
  <2> QED
    BY <2>1, <2>2, <2>3 DEF Files
<1> QED
  BY <1>1, <1>2

\* The keys are walked through in an order that has every file name.
LEMMA KeyOrderFacts ==
  /\ KeyOrder \in Seq(Keys)
  /\ \A f \in Files : \E i \in DOMAIN KeyOrder : KeyOrder[i] = f
<1>1. KeyOrder \in Seq(Keys)
  BY DEF KeyOrder, Keys, Files, Ids
<1>2. DOMAIN KeyOrder = 1 .. 7
  BY DEF KeyOrder
<1>3. /\ KeyOrder[1] = "copy.so" /\ KeyOrder[2] = "libattention.so"
      /\ KeyOrder[3] = "libbuiltinreqs.so" /\ KeyOrder[4] = "libscheme-shell.so"
  BY DEF KeyOrder
<1>4. {1, 2, 3, 4} \subseteq DOMAIN KeyOrder
  BY <1>2
<1> QED
  BY <1>1, <1>3, <1>4 DEF Files

\* Every command is the name of a request in the registry.
LEMMA CommandFacts ==
  ASSUME NEW c \in Commands
  PROVE  <<"request", c>> \in Names
<1>1. PICK n \in Names : n[1] = "request" /\ c = n[2]
  BY DEF Commands
<1>2. PICK f \in Files : n \in Registers(f)
  BY <1>1 DEF Names
<1>3. n = <<n[1], n[2]>>
  <2>1. CASE f = "libbuiltinreqs.so"
    BY <2>1, <1>2 DEF Registers, IdOf
  <2>2. CASE f \in {"libattention.so", "copy.so"}
    BY <2>2, <1>2 DEF Registers, IdOf
  <2>3. CASE f = "libscheme-shell.so"
    BY <2>3, <1>2 DEF Registers, IdOf
  <2> QED
    BY <2>1, <2>2, <2>3 DEF Files
<1> QED
  BY <1>1, <1>3

\* What comes first in a sequence or in its tail is all there is in it.
LEMMA HeadOrTail ==
  ASSUME NEW S, NEW s \in Seq(S), s # <<>>
  PROVE  /\ Head(s) \in S
         /\ Tail(s) \in Seq(S)
         /\ \A i \in DOMAIN s : s[i] = Head(s) \/ \E j \in DOMAIN Tail(s) : Tail(s)[j] = s[i]
<1>1. Head(s) \in S /\ Tail(s) \in Seq(S) /\ Len(s) \in Nat /\ Head(s) = s[1]
  OBVIOUS
<1>2. ASSUME NEW i \in DOMAIN s, i # 1
      PROVE  i - 1 \in DOMAIN Tail(s) /\ Tail(s)[i - 1] = s[i]
  BY <1>2
<1> QED
  BY <1>1, <1>2

\* What is in a sequence over S is in S.
LEMMA ElementOf ==
  ASSUME NEW S, NEW s \in Seq(S), NEW i \in DOMAIN s
  PROVE  s[i] \in S
  OBVIOUS

\* Every module object was made from a file.
LEMMA ObjectFile ==
  ASSUME LoadedOK, NEW p \in Objects
  PROVE  objects[p].file \in Files /\ objects[p].deleted \in Nat
<1>1. objects \in Seq([file : Files, deleted : Nat]) /\ p \in DOMAIN objects
  BY DEF LoadedOK, Objects
<1>2. objects[p] \in [file : Files, deleted : Nat]
  BY <1>1, ElementOf
<1> QED
  BY <1>2

----------------------------------------------------------------------------
(* Loading a module.                                                        *)

\* The object o is alive in the next state.
AliveNext(o) == o \in Objects' /\ objects'[o].deleted = 0

\* What loadModule leaves of the four maps when a module is made.
Loads(f) ==
  LET o == Len(objects) + 1 IN
  /\ f \in Files
  /\ modules[f] = 0
  /\ modules' = [modules EXCEPT ![IdOf(f)] = o, ![f] = o]
  /\ objects' = Append(objects, [file |-> f, deleted |-> 0])
  /\ libraries' = [libraries EXCEPT ![f] = @ + 1]
  /\ factories' = register(factories, Registers(f), o)

\* A library without the symbols of a module stays open, and that is all.
OpensOnly ==
  /\ libraries' = [libraries EXCEPT ![Broken] = @ + 1]
  /\ UNCHANGED <<modules, objects, factories>>

\* loadModule makes a module, or opens a library, or does nothing.
LEMMA LoadEffect ==
  ASSUME NEW f, Becomes(loadModule(State, f))
  PROVE  UNCHANGED loaded \/ OpensOnly \/ Loads(f)
<1> DEFINE m == modules
           ob == objects
           l == libraries
           fa == factories
<1>1. State = [modules |-> m, objects |-> ob, libraries |-> l, factories |-> fa]
  BY DEF State
<1>2. /\ m = modules /\ ob = objects /\ l = libraries /\ fa = factories
  OBVIOUS
<1> HIDE DEF m, ob, l, fa
<1>3. CASE f \in Keys /\ m[f] # 0
  <2>1. f # Broken /\ ~(f \in Files /\ m[f] = 0)
    BY <1>3, ConfiguredAssumption
  <2>2. loadModule(State, f) = State
    BY <1>1, <1>3, <2>1 DEF loadModule
  <2> QED
    BY <1>1, <1>2, <2>2 DEF Becomes, loaded
<1>4. CASE f = Broken
  <2>1. f \notin Keys /\ f \notin Files
    BY <1>4, ConfiguredAssumption DEF Keys
  <2>2. loadModule(State, f) = [State EXCEPT !.libraries[f] = @ + 1]
    BY <1>1, <1>4, <2>1 DEF loadModule
  <2>3. /\ modules' = m /\ objects' = ob /\ factories' = fa
        /\ libraries' = [l EXCEPT ![f] = @ + 1]
    BY <1>1, <2>2 DEF Becomes
  <2> QED
    BY <1>2, <1>4, <2>3 DEF OpensOnly
<1>5. CASE f \in Files /\ m[f] = 0
  <2>1. f # Broken /\ ~(f \in Keys /\ m[f] # 0)
    BY <1>5, ConfiguredAssumption DEF Keys
  <2>2. loadModule(State, f) =
         [modules |-> [m EXCEPT ![IdOf(f)] = Len(ob) + 1, ![f] = Len(ob) + 1],
          objects |-> Append(ob, [file |-> f, deleted |-> 0]),
          libraries |-> [l EXCEPT ![f] = @ + 1],
          factories |-> register(fa, Registers(f), Len(ob) + 1)]
    BY <1>1, <1>5, <2>1 DEF loadModule
  <2>3. /\ modules' = [m EXCEPT ![IdOf(f)] = Len(ob) + 1, ![f] = Len(ob) + 1]
        /\ objects' = Append(ob, [file |-> f, deleted |-> 0])
        /\ libraries' = [l EXCEPT ![f] = @ + 1]
        /\ factories' = register(fa, Registers(f), Len(ob) + 1)
    BY <2>2 DEF Becomes
  <2> QED
    BY <1>2, <1>5, <2>3 DEF Loads
<1>6. CASE /\ ~(f \in Keys /\ m[f] # 0)
           /\ f # Broken
           /\ ~(f \in Files /\ m[f] = 0)
  <2>1. loadModule(State, f) = State
    BY <1>1, <1>6 DEF loadModule
  <2> QED
    BY <1>1, <1>2, <2>1 DEF Becomes, loaded
<1> QED
  BY <1>3, <1>4, <1>5, <1>6

\* The module objects that were there stay as they are and the new one is
\* alive.
LEMMA LoadsObjects ==
  ASSUME LoadedOK, NEW f, Loads(f)
  PROVE  LET o == Len(objects) + 1 IN
         /\ o \in Nat /\ o # 0 /\ o \notin Objects
         /\ Len(objects)' = o
         /\ Objects' = Objects \cup {o}
         /\ objects'[o] = [file |-> f, deleted |-> 0]
         /\ \A p \in Objects : objects'[p] = objects[p] /\ p # 0
         /\ \A p \in Objects : AliveNext(p) <=> Alive(p)
         /\ AliveNext(o)
         /\ objects' \in Seq([file : Files, deleted : Nat])
<1> DEFINE o == Len(objects) + 1
<1>1. objects \in Seq([file : Files, deleted : Nat]) /\ f \in Files
  BY DEF LoadedOK, Loads
<1>2. objects' = Append(objects, [file |-> f, deleted |-> 0])
  BY DEF Loads
<1>3. [file |-> f, deleted |-> 0] \in [file : Files, deleted : Nat]
  BY <1>1
<1>4. /\ o \in Nat /\ o # 0 /\ o \notin Objects
      /\ Len(objects)' = o
      /\ Objects' = Objects \cup {o}
      /\ objects'[o] = [file |-> f, deleted |-> 0]
      /\ \A p \in Objects : objects'[p] = objects[p] /\ p # 0
      /\ objects' \in Seq([file : Files, deleted : Nat])
  BY <1>1, <1>2, <1>3 DEF Objects
<1> QED
  BY <1>4 DEF Alive, AliveNext

\* Loading keeps the maps in agreement: the id may have led to another
\* module, whose file name still leads to it.
LEMMA LoadsKeeps ==
  ASSUME LoadedInv, NEW f, Loads(f), UNCHANGED <<moduleKeys, left>>
  PROVE  LoadedInv'
<1> DEFINE o == Len(objects) + 1
<1>1. f \in Files /\ modules[f] = 0 /\ IdOf(f) \in Keys /\ f \in Keys /\ IdOf(f) # f /\ IdOf(f) \in Ids
  BY IdFacts DEF Loads
<1>2. LoadedOK /\ modules \in [Keys -> 0 .. Len(objects)]
      /\ libraries \in [Files \cup {Broken} -> Nat] /\ factories \in [Names -> 0 .. Len(objects)]
      /\ moduleKeys \in [Keys -> 0 .. Len(objects)] /\ left \subseteq Objects
  BY DEF LoadedInv, LoadedOK
<1>3. /\ o \in Nat /\ o # 0 /\ o \notin Objects
      /\ Len(objects)' = o
      /\ Objects' = Objects \cup {o}
      /\ objects'[o] = [file |-> f, deleted |-> 0]
      /\ \A p \in Objects : objects'[p] = objects[p] /\ p # 0
      /\ \A p \in Objects : AliveNext(p) <=> Alive(p)
      /\ AliveNext(o)
      /\ objects' \in Seq([file : Files, deleted : Nat])
  BY <1>2, LoadsObjects
<1>4. Len(objects) \in Nat /\ Objects = 1 .. Len(objects)
  BY DEF LoadedInv, LoadedOK, Objects
<1>5. objects'[o].file = f /\ objects'[o].deleted = 0
  BY <1>3
<1> HIDE DEF o
<1>6. /\ modules' \in [Keys -> 0 .. o]
      /\ modules'[f] = o /\ modules'[IdOf(f)] = o
      /\ \A k \in Keys : k # f /\ k # IdOf(f) => modules'[k] = modules[k]
  <2>1. modules' = [modules EXCEPT ![IdOf(f)] = o, ![f] = o]
    BY DEF Loads, o
  <2>2. 0 .. Len(objects) \subseteq 0 .. o /\ o \in 0 .. o
    BY <1>3, <1>4 DEF o
  <2> QED
    BY <2>1, <2>2, <1>1, <1>2
<1>7. /\ libraries' \in [Files \cup {Broken} -> Nat]
      /\ libraries'[f] > 0
      /\ \A g \in Files : g # f => libraries'[g] = libraries[g]
  <2>1. libraries' = [libraries EXCEPT ![f] = @ + 1]
    BY DEF Loads
  <2> QED
    BY <2>1, <1>1, <1>2
<1>8. /\ factories' \in [Names -> 0 .. o]
      /\ \A n \in Names : factories'[n] = factories[n] \/ (n \in Registers(f) /\ factories'[n] = o)
  <2>1. factories' = [n \in Names |-> IF n \in Registers(f) /\ factories[n] = 0 THEN o ELSE factories[n]]
    BY DEF Loads, register, o
  <2>2. 0 .. Len(objects) \subseteq 0 .. o /\ o \in 0 .. o
    BY <1>3, <1>4 DEF o
  <2> QED
    BY <2>1, <2>2, <1>2
<1>9. LoadedOK'
  <2>1. moduleKeys' \in [Keys -> 0 .. o] /\ left' \subseteq Objects'
    BY <1>2, <1>3, <1>4 DEF o
  <2> QED
    BY <2>1, <1>3, <1>6, <1>7, <1>8 DEF LoadedOK
<1>10. MapMatchesModules'
  <2>1. ASSUME NEW k \in Keys, modules'[k] # 0
        PROVE  AliveNext(modules'[k]) /\ modules'[k] \notin left' /\ k \in {objects'[modules'[k]].file, IdOf(objects'[modules'[k]].file)}
    <3>1. CASE k = f \/ k = IdOf(f)
      BY <3>1, <1>2, <1>3, <1>5, <1>6
    <3>2. CASE k # f /\ k # IdOf(f)
      <4>1. modules'[k] = modules[k]
        BY <3>2, <1>6
      <4>2. modules[k] \in Objects
        BY <4>1, <2>1, <1>2, <1>4
      <4>3. Alive(modules[k]) /\ modules[k] \notin left /\ k \in {objects[modules[k]].file, IdOf(objects[modules[k]].file)}
        BY <4>1, <2>1 DEF LoadedInv, MapMatchesModules
      <4> QED
        BY <4>1, <4>2, <4>3, <1>3
    <3> QED
      BY <3>1, <3>2
  <2>2. ASSUME NEW p \in (Objects \ left)', AliveNext(p)
        PROVE  modules'[objects'[p].file] = p /\ libraries'[objects'[p].file] > 0
    <3>1. CASE p = o
      BY <3>1, <1>5, <1>6, <1>7
    <3>2. CASE p \in Objects \ left
      <4>1. Alive(p) /\ objects'[p] = objects[p] /\ p # 0
        BY <3>2, <2>2, <1>3
      <4>2. modules[objects[p].file] = p /\ libraries[objects[p].file] > 0
        BY <4>1, <3>2 DEF LoadedInv, MapMatchesModules
      <4>3. objects[p].file \in Files
        BY <3>2, <1>2, ObjectFile
      <4>4. objects[p].file # f /\ objects[p].file # IdOf(f) /\ objects[p].file \in Keys
        BY <4>1, <4>2, <4>3, <1>1, IdFacts
      <4> QED
        BY <4>1, <4>2, <4>3, <4>4, <1>6, <1>7
    <3> QED
      BY <3>1, <3>2, <1>3
  <2> QED
    BY <2>1, <2>2 DEF MapMatchesModules, Alive, AliveNext
<1>11. FactoriesRegistered' /\ RequestFactoriesAlive'
  <2>1. ASSUME NEW n \in Names, factories'[n] # 0
        PROVE  /\ n \in Registers(objects'[factories'[n]].file)
               /\ n[1] = "request" => AliveNext(factories'[n])
    <3>1. CASE n \in Registers(f) /\ factories'[n] = o
      BY <3>1, <1>3, <1>5
    <3>2. CASE factories'[n] = factories[n]
      <4>1. factories[n] \in Objects
        BY <3>2, <2>1, <1>2, <1>4
      <4>2. n \in Registers(objects[factories[n]].file) /\ (n[1] = "request" => Alive(factories[n]))
        BY <3>2, <2>1 DEF LoadedInv, FactoriesRegistered, RequestFactoriesAlive
      <4> QED
        BY <3>2, <4>1, <4>2, <1>3
    <3> QED
      BY <3>1, <3>2, <1>8
  <2> QED
    BY <2>1 DEF FactoriesRegistered, RequestFactoriesAlive, Alive, AliveNext
<1>12. NotTwice'
  <2>1. \A p \in Objects : objects[p].deleted \in {0, 1}
    BY DEF LoadedInv, NotTwice
  <2>2. \A p \in Objects' : objects'[p].deleted \in {0, 1}
    BY <2>1, <1>3, <1>5
  <2> QED
    BY <2>2 DEF NotTwice
<1> QED
  BY <1>9, <1>10, <1>11, <1>12 DEF LoadedInv

----------------------------------------------------------------------------
(* Deleting a module.                                                       *)

\* What is left of the four maps when the module o that k leads to, made
\* from f, is deleted, with its library closed or not.
Deletes(k, o, f) ==
  /\ k \in Keys
  /\ o = modules[k]
  /\ o # 0
  /\ f = objects[o].file
  /\ modules' = [modules EXCEPT ![f] = 0, ![IdOf(f)] = 0]
  /\ objects' = [objects EXCEPT ![o].deleted = @ + 1]
  /\ factories' = unregister(factories, Unregisters(f))
  /\ libraries' = libraries \/ libraries' = [libraries EXCEPT ![f] = @ - 1]

\* The state s = [modules |-> m, objects |-> ob, factories |-> fa, ...]
\* without the module o made from f.
Without(s, m, ob, fa, o, f) ==
  [s EXCEPT !.modules = EraseEntries(m, f), !.objects = [ob EXCEPT ![o].deleted = @ + 1],
            !.factories = unregister(fa, Unregisters(f))]

\* Delete replaces three of the four fields.
LEMMA DeleteFields ==
  ASSUME NEW k
  PROVE  Delete(State, k) =
           Without(State, modules, objects, factories, modules[k], objects[modules[k]].file)
<1> DEFINE m == modules
           ob == objects
           fa == factories
           o == modules[k]
           f == objects[o].file
<1>1. State = [modules |-> m, objects |-> ob, libraries |-> libraries, factories |-> fa]
  BY DEF State
<1>2. o = m[k] /\ f = ob[o].file
  OBVIOUS
<1> HIDE DEF m, ob, fa, o, f
<1>3. State.modules = m /\ State.objects = ob /\ State.factories = fa
  BY <1>1
<1>4. State.objects[State.modules[k]].file = f /\ State.modules[k] = o
  BY <1>2, <1>3
<1>5. Delete(State, k) = [State EXCEPT !.modules = EraseEntries(@, f), !.objects[o].deleted = @ + 1,
                               !.factories = unregister(@, Unregisters(f))]
  BY <1>4, Zenon DEF Delete
<1>6. Delete(State, k) = Without(State, m, ob, fa, o, f)
  BY <1>1, <1>3, <1>5 DEF Without
<1> QED
  BY <1>6 DEF m, ob, fa, o, f

\* ~CogServer deletes the module of a key without closing its library.
LEMMA DeleteEffect ==
  ASSUME NEW k \in Keys, modules[k] # 0, Becomes(Delete(State, k))
  PROVE  \E o, f : Deletes(k, o, f)
<1> DEFINE m == modules
           ob == objects
           l == libraries
           fa == factories
           o == modules[k]
           f == objects[o].file
<1>1. State = [modules |-> m, objects |-> ob, libraries |-> l, factories |-> fa]
  BY DEF State
<1>2. m = modules /\ ob = objects /\ l = libraries /\ fa = factories /\ o = m[k] /\ f = ob[o].file
  OBVIOUS
<1> HIDE DEF m, ob, l, fa, o, f
<1>3. Delete(State, k) = Without(State, m, ob, fa, o, f)
  BY DeleteFields DEF m, ob, fa, o, f
<1>4. /\ modules' = EraseEntries(m, f)
      /\ objects' = [ob EXCEPT ![o].deleted = @ + 1]
      /\ libraries' = l
      /\ factories' = unregister(fa, Unregisters(f))
  <2> DEFINE m2 == EraseEntries(m, f)
             ob2 == [ob EXCEPT ![o].deleted = @ + 1]
             fa2 == unregister(fa, Unregisters(f))
  <2>1. Delete(State, k) = [State EXCEPT !.modules = m2, !.objects = ob2, !.factories = fa2]
    BY <1>3 DEF Without
  <2> HIDE DEF m2, ob2, fa2
  <2>2. modules' = m2 /\ objects' = ob2 /\ libraries' = l /\ factories' = fa2
    BY <1>1, <2>1 DEF Becomes
  <2> QED
    BY <2>2 DEF m2, ob2, fa2
<1>5. Deletes(k, o, f)
  BY <1>2, <1>4 DEF Deletes, EraseEntries
<1> QED
  BY <1>5

\* unloadModule does so too and closes the library, or finds no module.
LEMMA UnloadEffect ==
  ASSUME NEW k, Becomes(unloadModule(State, k))
  PROVE  UNCHANGED loaded \/ \E o, f : Deletes(k, o, f)
<1> DEFINE m == modules
           ob == objects
           l == libraries
           fa == factories
           o == modules[k]
           f == objects[o].file
<1>1. State = [modules |-> m, objects |-> ob, libraries |-> l, factories |-> fa]
  BY DEF State
<1>2. m = modules /\ ob = objects /\ l = libraries /\ fa = factories /\ o = m[k] /\ f = ob[o].file
  OBVIOUS
<1> HIDE DEF m, ob, l, fa, o, f
<1>3. CASE k \notin Keys \/ m[k] = 0
  <2>1. unloadModule(State, k) = State
    BY <1>1, <1>3 DEF unloadModule
  <2> QED
    BY <1>1, <1>2, <2>1 DEF Becomes, loaded
<1>4. CASE k \in Keys /\ m[k] # 0
  <2> DEFINE m2 == EraseEntries(m, f)
             ob2 == [ob EXCEPT ![o].deleted = @ + 1]
             fa2 == unregister(fa, Unregisters(f))
             l2 == [l EXCEPT ![f] = @ - 1]
  <2>1. Delete(State, k) = [State EXCEPT !.modules = m2, !.objects = ob2, !.factories = fa2]
    <3>1. Delete(State, k) = Without(State, m, ob, fa, o, f)
      BY DeleteFields DEF m, ob, fa, o, f
    <3> QED
      BY <3>1 DEF Without
  <2>2. unloadModule(State, k) = [Delete(State, k) EXCEPT !.libraries[f] = @ - 1]
    BY <1>1, <1>2, <1>4 DEF unloadModule
  <2> HIDE DEF m2, ob2, fa2
  <2>3. modules' = m2 /\ objects' = ob2 /\ libraries' = l2 /\ factories' = fa2
    BY <1>1, <2>1, <2>2 DEF Becomes
  <2>4. /\ modules' = EraseEntries(m, f)
        /\ objects' = [ob EXCEPT ![o].deleted = @ + 1]
        /\ libraries' = [l EXCEPT ![f] = @ - 1]
        /\ factories' = unregister(fa, Unregisters(f))
    BY <2>3 DEF m2, ob2, fa2
  <2>5. Deletes(k, o, f)
    BY <1>2, <1>4, <2>4 DEF Deletes, EraseEntries
  <2> QED
    BY <2>5
<1> QED
  BY <1>3, <1>4

\* One module that was alive is deleted, and it is the one that its file
\* name leads to; the other module objects stay as they are.
LEMMA DeletesObjects ==
  ASSUME LoadedInv, NEW k, NEW o, NEW f, Deletes(k, o, f)
  PROVE  /\ o \in Objects /\ Alive(o) /\ f \in Files /\ modules[f] = o /\ libraries[f] > 0
         /\ k \in {f, IdOf(f)}
         /\ Objects' = Objects
         /\ Len(objects)' = Len(objects)
         /\ \A p \in Objects : objects'[p].file = objects[p].file /\ p # 0
         /\ \A p \in Objects : AliveNext(p) <=> (Alive(p) /\ p # o)
         /\ \A p \in Objects : p # o => objects'[p] = objects[p]
         /\ objects'[o].deleted = 1
         /\ objects' \in Seq([file : Files, deleted : Nat])
<1>1. LoadedOK /\ objects \in Seq([file : Files, deleted : Nat])
      /\ modules \in [Keys -> 0 .. Len(objects)] /\ Len(objects) \in Nat /\ Objects = 1 .. Len(objects)
  BY DEF LoadedInv, LoadedOK, Objects
<1>2. k \in Keys /\ o = modules[k] /\ o # 0 /\ f = objects[o].file
  BY DEF Deletes
<1>3. Alive(o) /\ o \notin left /\ k \in {f, IdOf(f)}
  BY <1>2 DEF LoadedInv, MapMatchesModules
<1>4. o \in Objects /\ objects[o].deleted = 0
  BY <1>3 DEF Alive
<1>5. f \in Files
  BY <1>1, <1>2, <1>4, ObjectFile
<1>6. modules[f] = o /\ libraries[f] > 0
  BY <1>2, <1>3, <1>4 DEF LoadedInv, MapMatchesModules
<1>7. objects' = [objects EXCEPT ![o].deleted = @ + 1]
  BY DEF Deletes
<1>8. objects[o] \in [file : Files, deleted : Nat]
  BY <1>1, <1>4, ElementOf DEF Objects
<1>9. [objects[o] EXCEPT !.deleted = @ + 1] \in [file : Files, deleted : Nat]
  BY <1>8
<1>10. objects' = [objects EXCEPT ![o] = [objects[o] EXCEPT !.deleted = @ + 1]]
  BY <1>7
<1>11. /\ Objects' = Objects
       /\ Len(objects)' = Len(objects)
       /\ objects'[o] = [objects[o] EXCEPT !.deleted = @ + 1]
       /\ \A p \in Objects : p # o => objects'[p] = objects[p]
       /\ objects' \in Seq([file : Files, deleted : Nat])
  <2> DEFINE x == [objects[o] EXCEPT !.deleted = @ + 1]
  <2>1. x \in [file : Files, deleted : Nat] /\ objects' = [objects EXCEPT ![o] = x]
    BY <1>9, <1>10
  <2> HIDE DEF x
  <2>2. /\ Objects' = Objects
        /\ Len(objects)' = Len(objects)
        /\ objects'[o] = x
        /\ \A p \in Objects : p # o => objects'[p] = objects[p]
        /\ objects' \in Seq([file : Files, deleted : Nat])
    BY <2>1, <1>1, <1>4 DEF Objects
  <2> QED
    BY <2>2 DEF x
<1>12. objects'[o].file = objects[o].file /\ objects'[o].deleted = 1
  BY <1>11, <1>8, <1>4
<1>13. \A p \in Objects : objects'[p].file = objects[p].file /\ p # 0
  <2> TAKE p \in Objects
  <2>1. p # 0
    BY <1>1
  <2>2. objects'[p].file = objects[p].file
    <3>1. CASE p = o
      BY <3>1, <1>12
    <3>2. CASE p # o
      BY <3>2, <1>11
    <3> QED
      BY <3>1, <3>2
  <2> QED
    BY <2>1, <2>2
<1>14. \A p \in Objects : AliveNext(p) <=> (Alive(p) /\ p # o)
  <2> TAKE p \in Objects
  <2>1. CASE p = o
    BY <2>1, <1>12 DEF AliveNext
  <2>2. CASE p # o
    BY <2>2, <1>11 DEF Alive, AliveNext
  <2> QED
    BY <2>1, <2>2
<1> QED
  BY <1>3, <1>4, <1>5, <1>6, <1>11, <1>12, <1>13, <1>14

\* Deleting keeps the maps in agreement: the entry under the id that goes
\* too may be the one of another module, which its file name still leads to.
LEMMA DeletesKeeps ==
  ASSUME LoadedInv, NEW k, NEW o, NEW f, Deletes(k, o, f), UNCHANGED <<moduleKeys, left>>
  PROVE  LoadedInv'
<1>1. /\ o \in Objects /\ Alive(o) /\ f \in Files /\ modules[f] = o /\ libraries[f] > 0
      /\ k \in {f, IdOf(f)}
      /\ Objects' = Objects
      /\ Len(objects)' = Len(objects)
      /\ \A p \in Objects : objects'[p].file = objects[p].file /\ p # 0
      /\ \A p \in Objects : AliveNext(p) <=> (Alive(p) /\ p # o)
      /\ \A p \in Objects : p # o => objects'[p] = objects[p]
      /\ objects'[o].deleted = 1
      /\ objects' \in Seq([file : Files, deleted : Nat])
  BY DeletesObjects
<1>2. LoadedOK /\ modules \in [Keys -> 0 .. Len(objects)]
      /\ libraries \in [Files \cup {Broken} -> Nat] /\ factories \in [Names -> 0 .. Len(objects)]
      /\ moduleKeys \in [Keys -> 0 .. Len(objects)] /\ left \subseteq Objects
  BY DEF LoadedInv, LoadedOK
<1>3. Len(objects) \in Nat /\ Objects = 1 .. Len(objects) /\ o # 0
  BY <1>1 DEF LoadedInv, LoadedOK, Objects
<1>4. f \in Keys /\ IdOf(f) \in Keys /\ IdOf(f) \in Ids /\ f = objects[o].file /\ o = modules[k]
  BY <1>1, IdFacts DEF Deletes
<1>5. /\ modules' \in [Keys -> 0 .. Len(objects)]
      /\ modules'[f] = 0 /\ modules'[IdOf(f)] = 0
      /\ \A j \in Keys : j # f /\ j # IdOf(f) => modules'[j] = modules[j]
  <2>1. modules' = [modules EXCEPT ![f] = 0, ![IdOf(f)] = 0]
    BY DEF Deletes
  <2>2. modules \in [Keys -> 0 .. Len(objects)] /\ 0 \in 0 .. Len(objects)
    BY <1>2, <1>3
  <2>3. f \in Keys /\ IdOf(f) \in Keys
    BY <1>4
  <2> QED
    BY <2>1, <2>2, <2>3
<1>6. /\ libraries' \in [Files \cup {Broken} -> Nat]
      /\ \A g \in Files : g # f => libraries'[g] = libraries[g]
  <2>1. CASE libraries' = libraries
    BY <2>1, <1>2
  <2>2. CASE libraries' = [libraries EXCEPT ![f] = @ - 1]
    BY <2>2, <1>1, <1>2
  <2> QED
    BY <2>1, <2>2 DEF Deletes
<1>7. /\ factories' \in [Names -> 0 .. Len(objects)]
      /\ \A n \in Names : factories'[n] # 0 => factories'[n] = factories[n] /\ n \notin Unregisters(f)
  <2>1. factories' = [n \in Names |-> IF n \in Unregisters(f) THEN 0 ELSE factories[n]]
    BY DEF Deletes, unregister
  <2> QED
    BY <2>1, <1>2, <1>3
<1>8. LoadedOK'
  BY <1>1, <1>2, <1>5, <1>6, <1>7 DEF LoadedOK
<1>9. MapMatchesModules'
  <2>1. ASSUME NEW j \in Keys, modules'[j] # 0
        PROVE  AliveNext(modules'[j]) /\ modules'[j] \notin left' /\ j \in {objects'[modules'[j]].file, IdOf(objects'[modules'[j]].file)}
    <3>1. j # f /\ j # IdOf(f) /\ modules'[j] = modules[j]
      BY <2>1, <1>5
    <3>2. Alive(modules[j]) /\ modules[j] \notin left /\ j \in {objects[modules[j]].file, IdOf(objects[modules[j]].file)}
      BY <3>1, <2>1 DEF LoadedInv, MapMatchesModules
    <3>3. modules[j] \in Objects
      BY <3>2 DEF Alive
    <3>4. modules[j] # o
      BY <3>1, <3>2, <1>4
    <3> QED
      BY <3>1, <3>2, <3>3, <3>4, <1>1
  <2>2. ASSUME NEW p \in (Objects \ left)', AliveNext(p)
        PROVE  modules'[objects'[p].file] = p /\ libraries'[objects'[p].file] > 0
    <3>1. p \in Objects \ left /\ Alive(p) /\ p # o /\ objects'[p].file = objects[p].file
      BY <2>2, <1>1
    <3>2. modules[objects[p].file] = p /\ libraries[objects[p].file] > 0
      BY <3>1 DEF LoadedInv, MapMatchesModules
    <3>3. objects[p].file \in Files
      BY <3>1, <1>2, ObjectFile
    <3>4. objects[p].file # f /\ objects[p].file # IdOf(f) /\ objects[p].file \in Keys
      BY <3>1, <3>2, <3>3, <1>1, <1>4, IdFacts
    <3> QED
      BY <3>1, <3>2, <3>3, <3>4, <1>5, <1>6
  <2> QED
    BY <2>1, <2>2 DEF MapMatchesModules, Alive, AliveNext
<1>10. FactoriesRegistered' /\ RequestFactoriesAlive'
  <2>1. ASSUME NEW n \in Names, factories'[n] # 0
        PROVE  /\ n \in Registers(objects'[factories'[n]].file)
               /\ n[1] = "request" => AliveNext(factories'[n])
    <3>1. factories'[n] = factories[n] /\ n \notin Unregisters(f) /\ factories[n] # 0
      BY <2>1, <1>7
    <3>2. factories[n] \in Objects
      BY <3>1, <1>2, <1>3
    <3>3. n \in Registers(objects[factories[n]].file) /\ (n[1] = "request" => Alive(factories[n]))
      BY <3>1 DEF LoadedInv, FactoriesRegistered, RequestFactoriesAlive
    <3>4. n[1] = "request" => factories[n] # o
      BY <3>1, <3>3, <1>1, <1>4, RegisterFacts
    <3> QED
      BY <3>1, <3>2, <3>3, <3>4, <1>1
  <2> QED
    BY <2>1 DEF FactoriesRegistered, RequestFactoriesAlive, Alive, AliveNext
<1>11. NotTwice'
  <2>1. \A p \in Objects : objects[p].deleted \in {0, 1}
    BY DEF LoadedInv, NotTwice
  <2>2. \A p \in Objects' : objects'[p].deleted \in {0, 1}
    BY <2>1, <1>1
  <2> QED
    BY <2>2 DEF NotTwice
<1> QED
  BY <1>8, <1>9, <1>10, <1>11 DEF LoadedInv

----------------------------------------------------------------------------
(* The steps.                                                               *)

\* A step that leaves the modules alone keeps what is said of them.
LEMMA LoadedSame ==
  ASSUME LoadedInv, UNCHANGED <<loaded, moduleKeys, left>>
  PROVE  LoadedInv' /\ Objects' = Objects /\ (\A o \in Objects : AliveNext(o) <=> Alive(o))
<1>1. UNCHANGED <<modules, objects, libraries, factories, moduleKeys, left>>
  BY DEF loaded
<1> QED
  BY <1>1 DEF LoadedInv, LoadedOK, MapMatchesModules, FactoriesRegistered, RequestFactoriesAlive,
              NotTwice, Objects, Alive, AliveNext

\* What every step leaves alone: the module objects stay, made from the
\* same file, and one that was deleted stays so.
Grows ==
  /\ Objects \subseteq Objects'
  /\ \A o \in Objects : objects'[o].file = objects[o].file
  /\ \A o \in Objects : AliveNext(o) => Alive(o)

\* loadModule keeps the maps in agreement and every module object.
LEMMA LoadKeeps ==
  ASSUME LoadedInv, NEW f, Becomes(loadModule(State, f)), UNCHANGED <<moduleKeys, left>>
  PROVE  LoadedInv' /\ Grows
<1>1. CASE UNCHANGED loaded
  BY <1>1, LoadedSame DEF Grows, loaded
<1>2. CASE OpensOnly
  <2>1. UNCHANGED <<modules, objects, factories>> /\ libraries' = [libraries EXCEPT ![Broken] = @ + 1]
    BY <1>2 DEF OpensOnly
  <2>2. Broken \notin Files /\ libraries \in [Files \cup {Broken} -> Nat]
    BY ConfiguredAssumption DEF Keys, LoadedInv, LoadedOK
  <2>3. libraries' \in [Files \cup {Broken} -> Nat] /\ \A g \in Files : libraries'[g] = libraries[g]
    BY <2>1, <2>2
  <2>4. LoadedOK' /\ Objects' = Objects
    BY <2>1, <2>3 DEF LoadedInv, LoadedOK, Objects
  <2>5. MapMatchesModules'
    <3>1. \A o \in Objects : objects[o].file \in Files
      BY ObjectFile DEF LoadedInv
    <3> QED
      BY <2>1, <2>3, <3>1 DEF LoadedInv, MapMatchesModules, Objects, Alive
  <2>6. FactoriesRegistered' /\ RequestFactoriesAlive' /\ NotTwice'
    BY <2>1 DEF LoadedInv, FactoriesRegistered, RequestFactoriesAlive, NotTwice, Objects, Alive
  <2>7. Grows
    BY <2>1, <2>4 DEF Grows, Alive, AliveNext
  <2> QED
    BY <2>4, <2>5, <2>6, <2>7 DEF LoadedInv
<1>3. CASE Loads(f)
  <2>1. Grows
    BY <1>3, LoadsObjects DEF LoadedInv, Grows
  <2> QED
    BY <1>3, <2>1, LoadsKeeps
<1> QED
  BY <1>1, <1>2, <1>3, LoadEffect

\* unloadModule does so too.
LEMMA UnloadKeeps ==
  ASSUME LoadedInv, NEW k, Becomes(unloadModule(State, k)), UNCHANGED <<moduleKeys, left>>
  PROVE  LoadedInv' /\ Grows
<1>1. CASE UNCHANGED loaded
  BY <1>1, LoadedSame DEF Grows, loaded
<1>2. CASE \E o, f : Deletes(k, o, f)
  <2>1. PICK o, f : Deletes(k, o, f)
    BY <1>2
  <2>2. Grows
    BY <2>1, DeletesObjects DEF Grows
  <2> QED
    BY <2>1, <2>2, DeletesKeeps
<1> QED
  BY <1>1, <1>2, UnloadEffect

\* The requests of the next state are at least those of this one.
LEMMA RequestsGrow ==
  ASSUME Objects \subseteq Objects'
  PROVE  Requests \subseteq Requests'
  BY DEF Requests

\* A queued request's module object stays a module object.
LEMMA QueueSame ==
  ASSUME QueueOK, Objects \subseteq Objects', UNCHANGED consoles
  PROVE  QueueOK'
<1>1. Requests \subseteq Requests'
  BY RequestsGrow
<1>2. /\ requestQueue \in Seq(Requests) /\ found \in [Consoles -> Seq(Requests)]
      /\ UNCHANGED <<requestQueue, found, draining, lines>>
  BY DEF QueueOK, consoles
<1>3. Seq(Requests) \subseteq Seq(Requests')
  BY <1>1
<1>4. requestQueue' \in Seq(Requests') /\ found' \in [Consoles -> Seq(Requests')]
  BY <1>2, <1>3
<1> QED
  BY <1>2, <1>4 DEF QueueOK

\* A step that deletes no server and takes no key in hand keeps the
\* collected modules before ~CogServer.
LEMMA LeftSame ==
  ASSUME LoadedInv, LeftToUnload, Grows, UNCHANGED <<moduleKeys, left>>,
         \/ UNCHANGED <<srvr, scheme, todo>>
         \/ srvr' # 0 /\ scheme' # "unloading"
  PROVE  LeftToUnload'
<1>1. Collected' = Collected
  BY DEF Collected
<1>2. Collected \subseteq Objects
  BY DEF Collected, LoadedInv, LoadedOK, Objects
<1>3. \A o \in Collected : Alive(o)' => Alive(o) /\ objects'[o].file = objects[o].file
  BY <1>2 DEF Grows, AliveNext, Alive
<1> QED
  BY <1>1, <1>2, <1>3 DEF LeftToUnload

\* The initial state, without server and modules, satisfies the invariant.
LEMMA InitModules == Init => ModulesInv
<1> SUFFICES ASSUME Init PROVE ModulesInv
  OBVIOUS
<1>1. objects = <<>> /\ Objects = {} /\ Len(objects) = 0
  BY DEF Init, Objects
<1>2. LifecycleOK
  <2>1. todo \in Seq(FileNames)
    BY DEF Init
  <2>2. MaxStarts \in Nat
    BY ModulesAssumption
  <2>3. srvr \in 0 .. starts /\ starts \in 0 .. MaxStarts
    BY <2>2 DEF Init
  <2> QED
    BY <2>1, <2>3 DEF Init, LifecycleOK
<1>3. QueueOK
  <2>1. <<>> \in Seq(Requests)
    OBVIOUS
  <2> QED
    BY <2>1, ModulesAssumption DEF Init, QueueOK
<1>4. LoadedOK
  <2>1. objects \in Seq([file : Files, deleted : Nat])
    BY <1>1
  <2> QED
    BY <1>1, <2>1 DEF Init, LoadedOK
<1>5. MapMatchesModules /\ FactoriesRegistered /\ RequestFactoriesAlive /\ NotTwice
  BY <1>1 DEF Init, MapMatchesModules, FactoriesRegistered, RequestFactoriesAlive, NotTwice
<1>6. Phases /\ LeftToUnload
  BY <1>1 DEF Init, Phases, LeftToUnload, Alive
<1> QED
  BY <1>2, <1>3, <1>4, <1>5, <1>6 DEF ModulesInv, LoadedInv

\* start_server and stop_server, from the call to the return.
LEMMA SchemeStep ==
  ASSUME ModulesInv, start_server \/ stop_server \/ LoadNext \/ StartLoop
  PROVE  ModulesInv'
<1>0. LoadedInv /\ QueueOK /\ LifecycleOK /\ Phases /\ LeftToUnload
  BY DEF ModulesInv
<1>1. UNCHANGED <<moduleKeys, left>> /\ UNCHANGED consoles
  BY DEF start_server, stop_server, LoadNext, StartLoop
<1>2. LoadedInv' /\ Grows
  <2>1. CASE start_server \/ stop_server \/ StartLoop
    <3>1. UNCHANGED loaded
      BY <2>1 DEF start_server, stop_server, StartLoop
    <3> QED
      BY <3>1, <1>0, <1>1, LoadedSame DEF Grows, loaded
  <2>2. CASE LoadNext
    BY <2>2, <1>0, <1>1, LoadKeeps DEF LoadNext
  <2> QED
    BY <2>1, <2>2
<1>3. QueueOK'
  BY <1>0, <1>1, <1>2, QueueSame DEF Grows
<1>4. LifecycleOK' /\ srvr' # 0 /\ scheme' # "unloading" /\ Phases'
  <2>1. CASE start_server
    <3>1. todo' \in Seq(FileNames)
      BY <2>1, ConfiguredAssumption DEF start_server
    <3>2. MaxStarts \in Nat
      BY ModulesAssumption
    <3>3. srvr' \in 0 .. starts' /\ starts' \in 0 .. MaxStarts /\ srvr' # 0
      BY <1>0, <2>1, <3>2 DEF LifecycleOK, start_server
    <3>4. scheme' = "loading" /\ loop' = loop /\ loop = "none" /\ running' = FALSE
      BY <1>0, <2>1 DEF Phases, start_server
    <3> QED
      BY <1>0, <3>1, <3>3, <3>4 DEF LifecycleOK, Phases
  <2>2. CASE stop_server
    BY <1>0, <2>2 DEF LifecycleOK, Phases, stop_server
  <2>3. CASE LoadNext
    <3>1. todo' \in Seq(FileNames)
      BY <1>0, <2>3, HeadOrTail DEF LifecycleOK, LoadNext
    <3> QED
      BY <1>0, <2>3, <3>1 DEF LifecycleOK, Phases, LoadNext
  <2>4. CASE StartLoop
    BY <1>0, <2>4 DEF LifecycleOK, Phases, StartLoop
  <2> QED
    BY <2>1, <2>2, <2>3, <2>4
<1>5. LeftToUnload'
  BY <1>0, <1>1, <1>2, <1>4, LeftSame
<1> QED
  BY <1>2, <1>3, <1>4, <1>5 DEF ModulesInv

\* ~CogServer collects the keys: every module of this server is among them,
\* under its file name.
LEMMA CollectStep ==
  ASSUME ModulesInv, JoinAndDelete
  PROVE  ModulesInv'
<1>0. LoadedInv /\ LoadedOK /\ MapMatchesModules /\ QueueOK /\ LifecycleOK /\ Phases
  BY DEF ModulesInv, LoadedInv
<1>1. /\ UNCHANGED <<modules, objects, libraries, factories, left, srvr, starts, running>>
      /\ UNCHANGED consoles
      /\ moduleKeys' = modules /\ todo' = KeyOrder /\ scheme' = "unloading" /\ loop' = "none"
      /\ srvr # 0
  BY <1>0 DEF JoinAndDelete, loaded, Phases
<1>2. Objects' = Objects /\ \A o \in Objects : AliveNext(o) <=> Alive(o)
  BY <1>1 DEF Objects, Alive, AliveNext
<1>3. LoadedInv'
  BY <1>0, <1>1 DEF LoadedInv, LoadedOK, MapMatchesModules, FactoriesRegistered,
                    RequestFactoriesAlive, NotTwice, Objects, Alive
<1>4. QueueOK'
  BY <1>0, <1>1, <1>2, QueueSame
<1>5. KeyOrder \in Seq(FileNames)
  <2>1. Keys \subseteq FileNames
    BY DEF FileNames
  <2> QED
    BY <2>1, KeyOrderFacts
<1>6. LifecycleOK' /\ Phases'
  BY <1>0, <1>1, <1>5 DEF LifecycleOK, Phases
<1>7. LeftToUnload'
  <2>1. ASSUME NEW o \in Collected', Alive(o)'
        PROVE  /\ o \notin left
               /\ modules[objects[o].file] # 0
               /\ \E i \in DOMAIN KeyOrder : KeyOrder[i] = objects[o].file
    <3>1. PICK k \in Keys : o = modules[k] /\ o # 0
      BY <1>1 DEF Collected
    <3>2. o \in Objects /\ Alive(o) /\ o \notin left
      BY <3>1, <1>0 DEF MapMatchesModules, Alive
    <3>3. modules[objects[o].file] = o
      BY <3>2, <1>0 DEF MapMatchesModules
    <3>4. objects[o].file \in Files
      BY <3>2, <1>0, ObjectFile
    <3> QED
      BY <3>1, <3>2, <3>3, <3>4, KeyOrderFacts
  <2> QED
    BY <2>1, <1>1, KeyOrderFacts DEF LeftToUnload
<1> QED
  BY <1>3, <1>4, <1>6, <1>7 DEF ModulesInv

\* The key at hand takes its module, if it was collected and there is one
\* yet, so that each collected module that is left has its file name among
\* the keys to come.
LEMMA UnloadStep ==
  ASSUME ModulesInv, UnloadNext
  PROVE  ModulesInv'
<1>0. LoadedInv /\ LoadedOK /\ MapMatchesModules /\ QueueOK /\ LifecycleOK /\ Phases /\ LeftToUnload
  BY DEF ModulesInv, LoadedInv
<1> DEFINE k == Head(todo)
<1>1. /\ scheme = "unloading" /\ todo # <<>> /\ todo' = Tail(todo) /\ todo \in Seq(Keys)
      /\ UNCHANGED <<srvr, starts, scheme, moduleKeys, loop, running, left>> /\ UNCHANGED consoles
      /\ srvr # 0
  BY <1>0 DEF UnloadNext, LeftToUnload, Phases
<1>2. k \in Keys /\ Tail(todo) \in Seq(Keys)
      /\ \A i \in DOMAIN todo : todo[i] = k \/ \E j \in DOMAIN Tail(todo) : Tail(todo)[j] = todo[i]
  BY <1>1, HeadOrTail
<1>3. Becomes(IF moduleKeys[k] # 0 /\ modules[k] # 0 THEN Delete(State, k) ELSE State)
  BY DEF UnloadNext
<1> HIDE DEF k
<1>4. Collected \subseteq Objects
  BY <1>0 DEF Collected, LoadedOK, Objects
<1>5. \A o \in Collected : Alive(o) => modules[objects[o].file] = o /\ moduleKeys[objects[o].file] # 0
  BY <1>0, <1>1, <1>4 DEF LeftToUnload, MapMatchesModules
<1>6. /\ LoadedInv' /\ Grows
      /\ \A o \in Collected : AliveNext(o) => Alive(o) /\ objects[o].file # k
  <2>1. CASE moduleKeys[k] = 0 \/ modules[k] = 0
    <3>1. UNCHANGED loaded
      BY <2>1, <1>3 DEF Becomes, State, loaded
    <3>2. LoadedInv' /\ Grows /\ \A o \in Objects : AliveNext(o) <=> Alive(o)
      BY <3>1, <1>0, <1>1, LoadedSame DEF Grows, loaded
    <3>3. \A o \in Collected : o # 0
      BY DEF Collected
    <3> QED
      BY <2>1, <3>2, <3>3, <1>4, <1>5
  <2>2. CASE moduleKeys[k] # 0 /\ modules[k] # 0
    <3>1. Becomes(Delete(State, k))
      BY <2>2, <1>3
    <3>2. PICK o, f : Deletes(k, o, f)
      BY <3>1, <2>2, <1>2, DeleteEffect
    <3>3. /\ Objects' = Objects
          /\ \A p \in Objects : objects'[p].file = objects[p].file
          /\ \A p \in Objects : AliveNext(p) <=> (Alive(p) /\ p # o)
      BY <3>2, <1>0, DeletesObjects
    <3>4. LoadedInv'
      BY <3>2, <1>0, <1>1, DeletesKeeps
    <3>5. o = modules[k]
      BY <3>2 DEF Deletes
    <3> QED
      BY <3>3, <3>4, <3>5, <1>4, <1>5 DEF Grows
  <2> QED
    BY <2>1, <2>2
<1>7. QueueOK'
  BY <1>0, <1>1, <1>6, QueueSame DEF Grows
<1>8. Tail(todo) \in Seq(FileNames)
  BY <1>0, <1>1, HeadOrTail DEF LifecycleOK
<1>9. LifecycleOK' /\ Phases'
  BY <1>0, <1>1, <1>8 DEF LifecycleOK, Phases
<1>10. LeftToUnload'
  <2>1. ASSUME NEW o \in Collected, AliveNext(o)
        PROVE  /\ o \notin left
               /\ moduleKeys[objects[o].file] # 0
               /\ objects'[o].file = objects[o].file
               /\ \E j \in DOMAIN todo' : todo'[j] = objects[o].file
    <3>1. Alive(o) /\ objects[o].file # k /\ objects'[o].file = objects[o].file
      BY <2>1, <1>4, <1>6 DEF Grows
    <3>2. o \notin left /\ moduleKeys[objects[o].file] # 0
      BY <3>1, <1>0, <1>1 DEF LeftToUnload
    <3>3. PICK i \in DOMAIN todo : todo[i] = objects[o].file
      BY <1>0, <1>1, <3>1 DEF LeftToUnload
    <3> QED
      BY <1>1, <1>2, <3>1, <3>2, <3>3
  <2>2. Collected' = Collected
    BY <1>1 DEF Collected
  <2> QED
    BY <2>1, <2>2, <1>1, <1>2 DEF LeftToUnload, Alive, AliveNext
<1> QED
  BY <1>6, <1>7, <1>9, <1>10 DEF ModulesInv

\* With the last key gone no collected module is alive; one that was loaded
\* later goes to those that are left.
LEMMA DeleteServerStep ==
  ASSUME ModulesInv, DeleteServer
  PROVE  ModulesInv'
<1>0. LoadedInv /\ LoadedOK /\ QueueOK /\ LifecycleOK /\ Phases /\ LeftToUnload
  BY DEF ModulesInv, LoadedInv
<1>1. /\ scheme = "unloading" /\ todo = <<>> /\ srvr' = 0 /\ scheme' = "idle"
      /\ UNCHANGED <<starts, todo, moduleKeys, loop, running, objects, libraries, lines>>
      /\ modules' = [k \in Keys |-> 0]
      /\ factories' = [n \in Names |-> 0] /\ requestQueue' = <<>>
      /\ found' = [k \in Consoles |-> <<>>] /\ draining' = {}
      /\ left' = left \cup {o \in Objects : Alive(o)}
  BY DEF DeleteServer, Objects, Alive
<1>2. \A o \in Collected : ~Alive(o)
  BY <1>0, <1>1 DEF LeftToUnload
<1>3. Objects' = Objects /\ Collected' = Collected /\ Len(objects) \in Nat
  BY <1>0, <1>1 DEF Objects, Collected, LoadedOK
<1>4. LoadedOK'
  <2>1. /\ factories' \in [Names -> 0 .. Len(objects)]
        /\ modules' \in [Keys -> 0 .. Len(objects)]
    BY <1>1, <1>3
  <2>2. left' \subseteq Objects'
    BY <1>0, <1>1, <1>3 DEF LoadedOK
  <2> QED
    BY <1>0, <1>1, <2>1, <2>2 DEF LoadedOK
<1>5. MapMatchesModules'
  <2>1. \A k \in Keys : modules'[k] = 0
    BY <1>1
  <2>2. \A o \in (Objects \ left)' : ~Alive(o)'
    BY <1>1, <1>3 DEF Alive
  <2> QED
    BY <2>1, <2>2 DEF MapMatchesModules
<1>6. FactoriesRegistered' /\ RequestFactoriesAlive' /\ NotTwice'
  BY <1>0, <1>1, <1>3 DEF FactoriesRegistered, RequestFactoriesAlive, NotTwice, LoadedInv
<1>7. QueueOK' /\ LifecycleOK'
  <2>1. <<>> \in Seq(Requests')
    OBVIOUS
  <2>2. found' \in [Consoles -> Seq(Requests')] /\ requestQueue' \in Seq(Requests')
    BY <1>1, <2>1
  <2>3. QueueOK'
    BY <1>0, <1>1, <2>2 DEF QueueOK
  <2>4. 0 \in 0 .. starts'
    BY <1>0, <1>1 DEF LifecycleOK
  <2>5. LifecycleOK'
    BY <1>0, <1>1, <2>4 DEF LifecycleOK
  <2> QED
    BY <2>3, <2>5
<1>8. Phases' /\ LeftToUnload'
  <2>1. loop' = "none"
    BY <1>0, <1>1 DEF Phases
  <2>2. \A o \in Collected' : ~Alive(o)'
    BY <1>1, <1>2, <1>3 DEF Alive
  <2> QED
    BY <1>1, <2>1, <2>2 DEF Phases, LeftToUnload
<1> QED
  BY <1>4, <1>5, <1>6, <1>7, <1>8 DEF ModulesInv, LoadedInv

\* A connection finds the factory of a command: what it holds is the module
\* object the factory is in.  It makes and queues the request, or comes back
\* from the queue.
LEMMA LineStep ==
  ASSUME ModulesInv, NEW k \in Consoles,
         \/ \E c \in Commands : \E arg \in Args(c) : OnLine(k, c, arg)
         \/ CreateRequest(k)
         \/ ConsoleReturns(k)
  PROVE  ModulesInv'
<1>1. /\ UNCHANGED <<srvr, starts, scheme, todo, moduleKeys, loop, running, left>>
      /\ UNCHANGED loaded
  BY DEF OnLine, CreateRequest, ConsoleReturns, lifecycle
<1>2. /\ LoadedInv' /\ Objects' = Objects /\ Grows /\ Requests' = Requests
  <2>1. LoadedInv' /\ Objects' = Objects /\ \A o \in Objects : AliveNext(o) <=> Alive(o)
    BY <1>1, LoadedSame DEF ModulesInv
  <2> QED
    BY <2>1, <1>1 DEF Grows, Requests, loaded
<1>3. LifecycleOK' /\ Phases' /\ LeftToUnload'
  BY <1>1, <1>2, LeftSame DEF ModulesInv, LifecycleOK, Phases
<1>4. /\ requestQueue \in Seq(Requests) /\ found \in [Consoles -> Seq(Requests)]
      /\ draining \subseteq Consoles /\ lines \in 0 .. MaxLines /\ MaxLines \in Nat
  BY ModulesAssumption DEF ModulesInv, QueueOK
<1>5. QueueOK'
  <2>1. ASSUME NEW c \in Commands, NEW arg \in Args(c), OnLine(k, c, arg)
        PROVE  QueueOK'
    <3> DEFINE r == [command |-> c, arg |-> arg, object |-> factories[<<"request", c>>]]
    <3>1. arg \in Keys \cup {Broken, "none"}
      BY DEF Args
    <3>2. factories \in [Names -> 0 .. Len(objects)] /\ Len(objects) \in Nat /\ Objects = 1 .. Len(objects)
      BY DEF ModulesInv, LoadedInv, LoadedOK, Objects
    <3>3. <<"request", c>> \in Names /\ factories[<<"request", c>>] # 0
      BY <2>1, CommandFacts DEF OnLine
    <3>4. r \in Requests
      BY <3>1, <3>2, <3>3 DEF Requests
    <3>5. /\ found' = [found EXCEPT ![k] = <<r>>]
          /\ lines' = lines + 1 /\ lines < MaxLines /\ UNCHANGED <<requestQueue, draining>>
      BY <2>1 DEF OnLine
    <3> HIDE DEF r
    <3>6. <<r>> \in Seq(Requests)
      BY <3>4
    <3>7. found' \in [Consoles -> Seq(Requests)] /\ lines' \in 0 .. MaxLines
      BY <3>5, <3>6, <1>4
    <3> QED
      BY <3>5, <3>7, <1>2, <1>4 DEF QueueOK
  <2>2. CASE CreateRequest(k)
    <3>1. /\ found' = [found EXCEPT ![k] = <<>>] /\ requestQueue' = requestQueue \o found[k]
          /\ draining' \subseteq draining \cup {k} /\ lines' = lines
      BY <2>2 DEF CreateRequest
    <3>2. found[k] \in Seq(Requests) /\ <<>> \in Seq(Requests)
      BY <1>4
    <3>3. requestQueue' \in Seq(Requests) /\ found' \in [Consoles -> Seq(Requests)]
      BY <3>1, <3>2, <1>4
    <3> QED
      BY <3>1, <3>3, <1>2, <1>4 DEF QueueOK
  <2>3. CASE ConsoleReturns(k)
    BY <2>3, <1>2, <1>4 DEF QueueOK, ConsoleReturns
  <2> QED
    BY <2>1, <2>2, <2>3
<1> QED
  BY <1>2, <1>3, <1>5 DEF ModulesInv

\* A request is executed, by the main loop or by a connection, at any time
\* of the server's life, the destructor's walk included.
LEMMA ExecuteStep ==
  ASSUME ModulesInv, Execute
  PROVE  ModulesInv'
<1>0. LoadedInv /\ QueueOK /\ LifecycleOK /\ Phases /\ LeftToUnload
  BY DEF ModulesInv
<1> DEFINE r == Head(requestQueue)
<1>1. /\ requestQueue # <<>> /\ requestQueue' = Tail(requestQueue)
      /\ UNCHANGED <<srvr, starts, scheme, todo, moduleKeys, loop, found, draining, lines, left>>
  BY DEF Execute
<1>2. LoadedInv' /\ Grows /\ running' \in BOOLEAN
  <2>1. CASE r.command = "loadmodule"
    <3>1. Becomes(loadModule(State, r.arg)) /\ UNCHANGED running
      BY <2>1 DEF Execute
    <3> QED
      BY <3>1, <1>0, <1>1, LoadKeeps DEF LifecycleOK
  <2>2. CASE r.command = "unloadmodule"
    <3>1. Becomes(unloadModule(State, r.arg)) /\ UNCHANGED running
      BY <2>2 DEF Execute
    <3> QED
      BY <3>1, <1>0, <1>1, UnloadKeeps DEF LifecycleOK
  <2>3. CASE r.command \notin {"loadmodule", "unloadmodule"}
    <3>1. running' \in BOOLEAN /\ UNCHANGED loaded
      <4>1. CASE r.command = "shutdown"
        BY <4>1 DEF Execute
      <4>2. CASE r.command # "shutdown"
        BY <4>2, <2>3, <1>0 DEF Execute, LifecycleOK
      <4> QED
        BY <4>1, <4>2
    <3> QED
      BY <3>1, <1>0, <1>1, LoadedSame DEF Grows, loaded
  <2> QED
    BY <2>1, <2>2, <2>3
<1>3. QueueOK'
  <2>1. Requests \subseteq Requests'
    BY <1>2, RequestsGrow DEF Grows
  <2>2. Seq(Requests) \subseteq Seq(Requests')
    BY <2>1
  <2>3. requestQueue \in Seq(Requests) /\ found \in [Consoles -> Seq(Requests)]
    BY <1>0 DEF QueueOK
  <2>4. Tail(requestQueue) \in Seq(Requests)
    BY <1>1, <2>3, HeadOrTail
  <2>5. requestQueue' \in Seq(Requests') /\ found' \in [Consoles -> Seq(Requests')]
    BY <1>1, <2>2, <2>3, <2>4
  <2> QED
    BY <1>0, <1>1, <2>5 DEF QueueOK
<1>4. LifecycleOK' /\ Phases'
  BY <1>0, <1>1, <1>2 DEF LifecycleOK, Phases
<1>5. LeftToUnload'
  BY <1>0, <1>1, <1>2, LeftSame
<1> QED
  BY <1>2, <1>3, <1>4, <1>5 DEF ModulesInv

\* The main loop between its requests.
LEMMA LoopStep ==
  ASSUME ModulesInv, EnterLoop \/ LoopTest \/ EndStep
  PROVE  ModulesInv'
<1>0. LoadedInv /\ QueueOK /\ LifecycleOK /\ Phases /\ LeftToUnload
  BY DEF ModulesInv
<1>1. UNCHANGED <<srvr, starts, scheme, todo, moduleKeys, left>> /\ UNCHANGED loaded /\ UNCHANGED consoles
  BY DEF EnterLoop, LoopTest, EndStep
<1>2. LoadedInv' /\ Grows
  BY <1>0, <1>1, LoadedSame DEF Grows, loaded
<1>3. QueueOK'
  BY <1>0, <1>1, <1>2, QueueSame DEF Grows
<1>4. loop # "none" /\ loop' \in {"test", "step", "ended"} /\ running' \in BOOLEAN
  BY <1>0 DEF EnterLoop, LoopTest, EndStep, LifecycleOK
<1>5. LifecycleOK' /\ Phases'
  BY <1>0, <1>1, <1>4 DEF LifecycleOK, Phases
<1>6. LeftToUnload'
  BY <1>0, <1>1, <1>2, LeftSame
<1> QED
  BY <1>2, <1>3, <1>5, <1>6 DEF ModulesInv

----------------------------------------------------------------------------
(* The theorems.                                                            *)

\* Loading, unloading, the two calls from scheme, ~CogServer and the
\* connections beside them keep the invariant, for every configuration and
\* every number of server lives, connections and commands.
THEOREM ModulesInvariant == Spec => []ModulesInv
<1>1. Init => ModulesInv
  BY InitModules
<1>2. ModulesInv /\ [Next]_vars => ModulesInv'
  <2> SUFFICES ASSUME ModulesInv, [Next]_vars PROVE ModulesInv'
    OBVIOUS
  <2>1. CASE Next
    <3>1. CASE start_server \/ stop_server
      BY <3>1, SchemeStep
    <3>2. CASE SchemeRunsOn
      BY <3>2, SchemeStep, CollectStep, UnloadStep, DeleteServerStep DEF SchemeRunsOn
    <3>3. CASE \E k \in Consoles : Console(k)
      BY <3>3, LineStep, ExecuteStep DEF Console, ConsoleExecutes
    <3>4. CASE MainLoop
      BY <3>4, LoopStep, ExecuteStep DEF MainLoop, ExecuteRequest
    <3> QED
      BY <2>1, <3>1, <3>2, <3>3, <3>4 DEF Next
  <2>2. CASE UNCHANGED vars
    <3>1. /\ UNCHANGED <<srvr, starts, scheme, todo, moduleKeys, loop, running, left>>
          /\ UNCHANGED loaded /\ UNCHANGED consoles
      BY <2>2 DEF vars, lifecycle
    <3>2. LoadedInv' /\ Grows
      BY <3>1, LoadedSame DEF ModulesInv, Grows, loaded
    <3>3. QueueOK'
      BY <3>1, <3>2, QueueSame DEF ModulesInv, Grows
    <3>4. LifecycleOK' /\ Phases' /\ LeftToUnload'
      BY <3>1, <3>2, LeftSame DEF ModulesInv, LifecycleOK, Phases
    <3> QED
      BY <3>2, <3>3, <3>4 DEF ModulesInv
  <2> QED
    BY <2>1, <2>2
<1> QED
  BY <1>1, <1>2, PTL DEF Spec

\* The registries, the module map and the queue keep their types, and no
\* library is closed more often than it was opened.
THEOREM TypeCorrect == Spec => []TypeOK
<1>1. ModulesInv => TypeOK
  BY DEF ModulesInv, LoadedInv, TypeOK
<1> QED
  BY <1>1, ModulesInvariant, PTL

\* The two keys loadModule and unloadModule keep by hand agree with the
\* modules of the server that are alive, also when two files have the same
\* id and when commands come in between the steps of ~CogServer.
THEOREM MapSafety == Spec => []MapMatchesModules
<1>1. ModulesInv => MapMatchesModules
  BY DEF ModulesInv, LoadedInv
<1> QED
  BY <1>1, ModulesInvariant, PTL

\* No module is deleted twice, and ~CogServer, which walks the keys it has
\* collected and looks each one up again, leaves none of the modules that
\* were loaded when it collected them, whatever connections load and unload
\* meanwhile.
THEOREM DeletedOnceSafety == Spec => []DeletedOnce
<1>1. ModulesInv => DeletedOnce
  <2> SUFFICES ASSUME ModulesInv PROVE DeletedOnce
    OBVIOUS
  <2>1. \A o \in Objects : objects[o].deleted \in {0, 1}
    BY DEF ModulesInv, LoadedInv, NotTwice
  <2>2. ASSUME srvr = 0, NEW k \in Keys, moduleKeys[k] # 0
        PROVE  objects[moduleKeys[k]].deleted = 1
    <3>1. moduleKeys[k] \in Collected /\ moduleKeys[k] \in Objects
      BY <2>2 DEF Collected, ModulesInv, LoadedInv, LoadedOK, Objects
    <3>2. ~Alive(moduleKeys[k])
      BY <2>2, <3>1 DEF ModulesInv, LeftToUnload
    <3> QED
      BY <3>1, <3>2, <2>1 DEF Alive
  <2> QED
    BY <2>1, <2>2 DEF DeletedOnce
<1> QED
  BY <1>1, ModulesInvariant, PTL

\* The registry never leads a command to the factory of a deleted module,
\* whatever was loaded and unloaded and in whichever order.  What a thread
\* does with a factory it has found before is not claimed.
THEOREM FactoriesSafety == Spec => []RequestFactoriesAlive
<1>1. ModulesInv => RequestFactoriesAlive
  BY DEF ModulesInv, LoadedInv
<1> QED
  BY <1>1, ModulesInvariant, PTL
=============================================================================
