----------------------------- MODULE TimeServer -----------------------------
(***************************************************************************)
(* The TimeServer (spacetime/TimeServer.cc): a TemporalTable for each time *)
(* domain, and the AtTimeLinks of the AtomSpace it is meant to agree with. *)
(*                                                                         *)
(* A TimeServer is called by several threads; each access to a table is    *)
(* one critical section of ts_mutex, but addTimeInfo and removeTimeInfo    *)
(* take several.  The AtomSpace is external: adding a link that is new and *)
(* removing one are steps of its own, and the signal that calls atomAdded  *)
(* or atomRemoved follows in the calling thread.  An AtTimeLink is its     *)
(* timed atom, its time and its domain; a TimeNode's name stands for the   *)
(* time.                                                                   *)
(*                                                                         *)
(* removeTimeInfo keeps pointers to the Temporals of the table.  What it   *)
(* reads through one that was deleted is any time of the model or none.    *)
(*                                                                         *)
(* TimeServer.h allows two ways to use it, and a behaviour here is one of  *)
(* them: "for a very large data set" without AtTimeLinks, by add, remove   *)
(* and clear, or with AtTimeLinks, by the time infos.                      *)
(***************************************************************************)
EXTENDS TemporalTable

CONSTANTS
  Domains,
  DEFAULT_TIMEDOMAIN,
  Threads,
  TimedPairs,   \* bound: the pairs of a handle and a time that are ever added
  TableDomains, \* bound: the domains that are filled without AtTimeLinks
  MaxCalls      \* bound: calls and changes of the AtomSpace, with AtTimeLinks

ASSUME ServerAssumption ==
  /\ DEFAULT_TIMEDOMAIN \in Domains
  /\ TimedPairs \subseteq Handles \X Temporals
  /\ TableDomains \subseteq Domains
  /\ MaxCalls \in Nat

VARIABLES
  temporalTableMap,  \* domain -> its table; one that is not there is empty
  latestTimestamp,
  atTimeLinks,       \* the AtTimeLinks of the AtomSpace: <<h, t, domain>>
  call,              \* thread -> the rest of what it does
  usage,             \* "tables" or "links": which way it is used
  calls,             \* how many calls were made, with AtTimeLinks
  raced              \* links that changed while the signal of an earlier change was due

vars == <<temporalTableMap, latestTimestamp, atTimeLinks, call, usage, calls, raced>>
server == <<temporalTableMap, latestTimestamp>>

(* The link addTimeInfo is to add, the entries removeTimeInfo has got and   *)
(* those of them whose Temporal was deleted since, and the signal that is   *)
(* due for a link.                                                          *)
NoCall == [links |-> {}, entries |-> {}, freed |-> {}, signal |-> {}]

Init ==
  /\ temporalTableMap = [d \in Domains |-> EmptyTable]
  /\ latestTimestamp = 0
  /\ atTimeLinks = {}
  /\ call = [k \in Threads |-> NoCall]
  /\ usage \in {"tables", "links"}
  /\ calls = 0
  /\ raced = {}

(* Nothing is said of a table after a deleted entry of it was read.         *)
Defined == \A d \in Domains : ~temporalTableMap[d].undefined

CalledDirectly == Defined /\ usage = "tables" /\ UNCHANGED <<atTimeLinks, call, usage, calls, raced>>

Called == Defined /\ usage = "links" /\ calls < MaxCalls /\ calls' = calls + 1 /\ UNCHANGED usage

Idle(k) == call[k] = NoCall

----------------------------------------------------------------------------
(* The critical sections.                                                   *)

addEntry(h, t, d) ==
  /\ \E later \in BOOLEAN : temporalTableMap' = [temporalTableMap EXCEPT ![d] = add(@, h, t, later)]
  /\ latestTimestamp' = IF t.upper > latestTimestamp THEN t.upper ELSE latestTimestamp

removeEntries(h, t, c, d) ==
  /\ temporalTableMap' = [temporalTableMap EXCEPT ![d] = remove(@, h, t, c)]
  /\ UNCHANGED latestTimestamp

(* atomRemoved: for a link with a domain it tests the type of the time node *)
(* instead of the domain node's, and returns.                               *)
atomRemoved(l) ==
  IF l[3] = DEFAULT_TIMEDOMAIN THEN removeEntries(l[1], l[2], "EXACT", l[3]) ELSE UNCHANGED server

(* Mutant: the signal of an added link is not handled. *)
atomAddedNot(l) == UNCHANGED server

atomAdded(l) == addEntry(l[1], l[2], l[3])

----------------------------------------------------------------------------
(* The AtomSpace.                                                           *)

SignalDue(l) == \E k \in Threads : \E what \in {"added", "removed"} : <<what, l>> \in call[k].signal

Changes(l) == raced' = IF SignalDue(l) THEN raced \cup {l} ELSE raced

(* add_link: a link that is new is signalled.                               *)
AddLink(k, l) ==
  /\ atTimeLinks' = atTimeLinks \cup {l}
  /\ call' = [call EXCEPT ![k] = [call[k] EXCEPT !.links = {}, !.signal = IF l \in atTimeLinks THEN {} ELSE {<<"added", l>>}]]
  /\ IF l \in atTimeLinks THEN UNCHANGED raced ELSE Changes(l)

(* remove_atom, with the entries that are left for removeTimeInfo.          *)
RemoveLink(k, l, left) ==
  /\ atTimeLinks' = atTimeLinks \ {l}
  /\ call' = [call EXCEPT ![k] = [call[k] EXCEPT !.entries = left, !.freed = @ \cap left, !.signal = {<<"removed", l>>}]]
  /\ Changes(l)

(* A Temporal is deleted with its last entry.                               *)
Freed(c) == c.freed \cup {e \in c.entries : temporalTableMap'[e[3]].temporalMap[e[2]] = {}}

Signalled(k) ==
  /\ Defined
  /\ \E l \in Handles \X Temporals \X Domains :
       \/ <<"added", l>> \in call[k].signal /\ atomAdded(l)
       \/ <<"removed", l>> \in call[k].signal /\ atomRemoved(l)
  /\ call' = [j \in Threads |-> [call[j] EXCEPT !.freed = Freed(call[j]), !.signal = IF j = k THEN {} ELSE @]]
  /\ UNCHANGED <<atTimeLinks, usage, calls, raced>>

----------------------------------------------------------------------------
(* The calls without AtTimeLinks.                                           *)

Add(h, t, d) == CalledDirectly /\ addEntry(h, t, d)

RemoveMatching(h, t, c, d) == CalledDirectly /\ removeEntries(h, t, c, d)

clear ==
  /\ CalledDirectly
  /\ temporalTableMap' = [d \in Domains |-> EmptyTable]
  /\ latestTimestamp' = 0

----------------------------------------------------------------------------
(* The calls with AtTimeLinks.                                              *)

(* addTimeInfo(Handle, Temporal): the entry first, then the link.  With a   *)
(* timestamp or a name there is only the second step.                       *)
addTimeInfo(k, h, t, d) ==
  /\ Called
  /\ Idle(k)
  /\ addEntry(h, t, d)
  /\ call' = [call EXCEPT ![k].links = {<<h, t, d>>}]
  /\ UNCHANGED <<atTimeLinks, raced>>

AddTimeInfoLink(k) ==
  /\ Defined
  /\ \E l \in call[k].links : AddLink(k, l)
  /\ UNCHANGED <<server, usage, calls>>

(* removeTimeInfo: the entries that match are got, then the AtTimeLink of   *)
(* each is removed, if there is one.                                        *)
removeTimeInfo(k, h, t, c, d) ==
  LET got == get(temporalTableMap[d], h, t, c) IN
  /\ Called
  /\ Idle(k)
  /\ got # {}
  /\ call' = [call EXCEPT ![k].entries = {<<e[1], e[2], d>> : e \in got}]
  /\ UNCHANGED <<server, atTimeLinks, raced>>

TimesRead(k, e) == IF e \in call[k].freed THEN Temporals \cup {UNDEFINED} ELSE {e[2]}

RemoveTimeInfoLink(k) ==
  /\ Defined
  /\ call[k].signal = {}
  /\ \E e \in call[k].entries : \E t \in TimesRead(k, e) :
       LET l == <<e[1], t, e[3]>>
           left == call[k].entries \ {e}
       IN
       \/ l \in atTimeLinks /\ RemoveLink(k, l, left)
       \/ /\ l \notin atTimeLinks
          /\ call' = [call EXCEPT ![k] = [call[k] EXCEPT !.entries = left, !.freed = @ \cap left]]
          /\ UNCHANGED <<atTimeLinks, raced>>
  /\ UNCHANGED <<server, usage, calls>>

(* A thread of another part of the system adds or removes an AtTimeLink.    *)
AtomSpaceAdds(k, l) == Called /\ Idle(k) /\ AddLink(k, l) /\ UNCHANGED server

AtomSpaceRemoves(k, l) == Called /\ Idle(k) /\ l \in atTimeLinks /\ RemoveLink(k, l, {}) /\ UNCHANGED server

ThreadStep(k) ==
  \/ \E p \in TimedPairs, d \in Domains : addTimeInfo(k, p[1], p[2], d)
  \/ AddTimeInfoLink(k)
  \/ \E h \in Handles, t \in Temporals \cup {UNDEFINED}, c \in Criteria, d \in Domains : removeTimeInfo(k, h, t, c, d)
  \/ RemoveTimeInfoLink(k)
  \/ Signalled(k)
  \/ \E p \in TimedPairs, d \in Domains :
       AtomSpaceAdds(k, <<p[1], p[2], d>>) \/ AtomSpaceRemoves(k, <<p[1], p[2], d>>)

Next ==
  \/ \E k \in Threads : ThreadStep(k)
  \/ \E p \in TimedPairs, d \in TableDomains : Add(p[1], p[2], d)
  \/ \E h \in Handles \cup {UNDEFINED}, t \in Temporals \cup {UNDEFINED}, c \in Criteria, d \in TableDomains :
       RemoveMatching(h, t, c, d)
  \/ clear

Spec == Init /\ [][Next]_vars

----------------------------------------------------------------------------
(* Properties. *)

EntriesOf(T) == {p \in Handles \X Temporals : p[1] \in T.temporalMap[p[2]]}
Entries(d) == EntriesOf(temporalTableMap[d])

Sorted(list) == \A i, j \in DOMAIN list : i < j => Less(list[i], list[j])

(* The variables keep the shapes TemporalTable.h and TimeServer.h declare.  *)
TypeOK ==
  /\ \A d \in Domains : LET T == temporalTableMap[d] IN
       /\ T.sortedTemporalList \in Seq(Temporals)
       /\ T.temporalIndexTable \in Seq(Temporals)
       /\ T.indexTableSize \in Nat /\ T.pendingUpdateCount \in Nat
       /\ T.handleMap \in [Handles -> Seq(Temporals)]
       /\ T.tailHandleMap \in [Handles -> Temporals \cup {NoTail, Dangling}]
       /\ T.temporalMap \in [Temporals -> SUBSET Handles]
  /\ latestTimestamp \in Nat
  /\ atTimeLinks \subseteq Handles \X Temporals \X Domains

(* The index may lag behind the sorted list, and still the binary search    *)
(* needs it in order, without a deleted entry, within its array, and not    *)
(* empty when the list is not (getTemporalIndexTablePos reads an entry      *)
(* before it tests anything).                                               *)
IndexUsable ==
  \A d \in Domains : LET T == temporalTableMap[d] IN
    /\ \A i, j \in DOMAIN T.temporalIndexTable : i < j => ~Less(T.temporalIndexTable[j], T.temporalIndexTable[i])
    /\ Range(T.temporalIndexTable) \subseteq Range(T.sortedTemporalList)
    /\ Len(T.temporalIndexTable) <= T.indexTableSize
    /\ T.temporalIndexTable = <<>> => T.sortedTemporalList = <<>>

(* The three views of the pairs agree, until a deleted entry is read: the   *)
(* list has the times of the map, in order, and each handle's list its own; *)
(* a tail that is not dangling is the last entry.                           *)
ViewsAgree ==
  \A d \in Domains : LET T == temporalTableMap[d] IN
    /\ Sorted(T.sortedTemporalList)
    /\ Range(T.sortedTemporalList) = {t \in Temporals : T.temporalMap[t] # {}}
    /\ ~T.undefined => \A h \in Handles :
         /\ Sorted(T.handleMap[h])
         /\ Range(T.handleMap[h]) = {t \in Temporals : h \in T.temporalMap[t]}
         /\ T.tailHandleMap[h] \in Temporals => T.tailHandleMap[h] = Last(T.handleMap[h])

(* What TemporalTable.h says of the criteria: "T <R> T'", for a time T of   *)
(* the table and the argument T' = t.                                       *)
Related(T, t, c) ==
  CASE c = "EXACT" -> T = t
    [] c \in {"STARTS_BEFORE", "PREVIOUS_BEFORE_START_OF"} -> T.lower < t.lower
    [] c = "STARTS_WITHIN" -> t.lower <= T.lower /\ T.lower <= t.upper
    [] c \in {"STARTS_AFTER", "NEXT_AFTER_END_OF"} -> T.lower > t.upper
    [] c = "ENDS_BEFORE" -> T.upper < t.lower
    [] c = "ENDS_WITHIN" -> t.lower <= T.upper /\ T.upper <= t.upper
    [] c = "ENDS_AFTER" -> T.upper > t.upper
    [] c = "OVERLAPS" -> t.lower <= T.upper /\ T.lower <= t.upper
    [] c = "INCLUDES" -> T.lower <= t.lower /\ T.upper >= t.upper
    [] c = "NEXT_AFTER_START_OF" -> T.lower > t.lower
    [] c = "PREVIOUS_BEFORE_END_OF" -> T.lower < t.upper

Nearest(times, c) ==
  CASE c \in NextAfter -> {T \in times : ~\E S \in times : Less(S, T)}
    [] c \in Previous -> {T \in times : ~\E S \in times : Less(T, S)}
    [] OTHER -> times

(* The pairs a criterion stands for.  NEXT_ and PREVIOUS_: those of one     *)
(* time, among the times of the handle if one is given.                     *)
Matching(table, h, t, c) ==
  LET own == {p \in table : h = UNDEFINED \/ p[1] = h}
      near == Nearest({T \in {p[2] : p \in own} : Related(T, t, c)}, c)
  IN IF t = UNDEFINED THEN own ELSE {p \in own : p[2] \in near}

(* The walks that stop early, the binary search in an index that lags and   *)
(* the maps give and remove for every criterion exactly the pairs that      *)
(* TemporalTable.h defines: in every state that a table gets into without   *)
(* AtTimeLinks, which has them all.                                         *)
OperationsMatch ==
  usage = "tables" => \A d \in TableDomains : LET T == temporalTableMap[d] IN ~T.undefined =>
    \A h \in Handles \cup {UNDEFINED}, t \in Temporals \cup {UNDEFINED}, c \in Criteria :
      LET wanted == Matching(EntriesOf(T), h, t, c) IN
      /\ get(T, h, t, c) = wanted
      /\ EntriesOf(remove(T, h, t, c)) = EntriesOf(T) \ wanted

LinksOf(d) == {<<l[1], l[2]>> : l \in {m \in atTimeLinks : m[3] = d}}

UnderWay(l) == SignalDue(l) \/ \E k \in Threads : l \in call[k].links

(* With all changes made through time infos and links, a pair has an entry  *)
(* in the default domain exactly when it has an AtTimeLink, whatever the    *)
(* order of the threads' steps.  Two cases are left out: while addTimeInfo  *)
(* or a signal for the link is under way, and for good once a thread        *)
(* changed the link between the change of another and its signal.           *)
DefaultDomainAgrees ==
  usage = "links" /\ Defined => \A p \in Handles \X Temporals :
    LET l == <<p[1], p[2], DEFAULT_TIMEDOMAIN>> IN
    l \notin raced /\ ~UnderWay(l) => (p \in Entries(DEFAULT_TIMEDOMAIN) <=> l \in atTimeLinks)

(* TimeServer.h: "All information added to this object should also be       *)
(* present in the corresponding AtomSpace hypergraph", when no call is      *)
(* under way.                                                               *)
EntriesHaveLinks ==
  usage = "links" /\ Defined /\ (\A k \in Threads : Idle(k)) => \A d \in Domains : Entries(d) \subseteq LinksOf(d)

(* TemporalTable.h says of add: "Adds into this TemporalTable an entry      *)
(* composed by the given Atom Handle and Temporal object."  A pair the      *)
(* table has is found by its handle.                                        *)
AddedIsFound ==
  \A d \in Domains : \A p \in Entries(d) : p[2] \in Range(temporalTableMap[d].handleMap[p[1]])
=============================================================================
