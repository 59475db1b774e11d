--------------------------- MODULE TemporalTable ---------------------------
(***************************************************************************)
(* One table of the TimeServer (spacetime/TemporalTable.cc and             *)
(* TemporalEntry.cc): pairs of an atom's handle and a Temporal.            *)
(*                                                                         *)
(* The table keeps the times in a sorted linked list, with an array of     *)
(* pointers into it for binary search that may lag behind the list, and    *)
(* for each handle a sorted list of its own and a pointer to the tail of   *)
(* it.  A time occurs once in a list, so an entry of a list is its time    *)
(* and a pointer to it too; a pointer to an entry that was deleted is      *)
(* Dangling.  The operations are functions of the table: TimeServer calls  *)
(* them under its lock.                                                    *)
(***************************************************************************)
EXTENDS Integers, Sequences, FiniteSets, SequencesExt

CONSTANTS
  Handles,
  Temporals,   \* a set of [lower, upper, normal]
  UNDEFINED,   \* Handle::UNDEFINED, and UNDEFINED_TEMPORAL
  NoTail,      \* no entry in tailHandleMap
  Dangling,    \* a pointer to a deleted TemporalEntry
  PENDING_UPDATE_RATE_THRESHOLD  \* 8 in the code

ASSUME TableAssumption ==
  /\ PENDING_UPDATE_RATE_THRESHOLD \in Nat \ {0, 1}
  /\ UNDEFINED \notin Handles \cup Temporals
  /\ Temporals \subseteq [lower : Nat, upper : Nat, normal : BOOLEAN]
  /\ \A t \in Temporals : t.lower <= t.upper
  /\ NoTail # Dangling /\ NoTail \notin Temporals /\ Dangling \notin Temporals

(* Temporal::compareTo(t1, t2) < 0 *)
Less(t1, t2) ==
  \/ t1.lower < t2.lower
  \/ t1.lower = t2.lower /\ t1.upper < t2.upper
  \/ t1.lower = t2.lower /\ t1.upper = t2.upper /\ t1.normal /\ ~t2.normal

EmptyTable ==
  [sortedTemporalList |-> <<>>,
   temporalIndexTable |-> <<>>,   \* its first indexTableCount positions
   indexTableSize |-> 1,
   pendingUpdateCount |-> 0,
   handleMap |-> [h \in Handles |-> <<>>],
   tailHandleMap |-> [h \in Handles |-> NoTail],
   temporalMap |-> [t \in Temporals |-> {}],
   undefined |-> FALSE]           \* a deleted entry has been read

getCount(T) == Cardinality({t \in Temporals : T.temporalMap[t] # {}})

----------------------------------------------------------------------------
(* Lists.                                                                   *)

(* TemporalEntry::add, from the entry at position p on.  From an entry that *)
(* is later than t nothing would be linked in.                              *)
AddFrom(list, p, t) ==
  LET later == {i \in p .. Len(list) : ~Less(list[i], t)}
      i == IF later = {} THEN Len(list) + 1 ELSE Min(later)
  IN CASE i <= Len(list) /\ list[i] = t -> list
       [] i > 1 /\ i = p /\ i <= Len(list) -> list
       [] OTHER -> InsertAt(list, i, t)

PositionOf(list, t) == CHOOSE i \in DOMAIN list : list[i] = t

(* TemporalEntry::remove: the entry of t is unlinked.                       *)
Unlink(list, t) == RemoveAt(list, PositionOf(list, t))

----------------------------------------------------------------------------
(* The index table.                                                         *)

(* getTemporalIndexTablePos: positions count from 0, the table has entries. *)
getTemporalIndexTablePos(index, t) ==
  LET n == Len(index)
      search[r \in (0 .. n) \X (-1 .. n - 1)] ==
        LET pos == (r[1] + r[2]) \div 2
            e == index[pos + 1]
            s == IF Less(t, e) THEN <<r[1], pos - 1>> ELSE <<pos + 1, r[2]>>
        IN IF e = t THEN pos ELSE IF s[1] <= s[2] THEN search[s] ELSE s[2]
  IN search[<<0, n - 1>>]

(* getPreviousTemporalEntry: the entry's position in the list, 0 for NULL.  *)
getPreviousTemporalEntry(T, t) ==
  LET found == getTemporalIndexTablePos(T.temporalIndexTable, t)
      pos == IF found >= 0 /\ T.temporalIndexTable[found + 1] = t THEN found - 1 ELSE found
  IN IF pos < 0 THEN 0 ELSE PositionOf(T.sortedTemporalList, T.temporalIndexTable[pos + 1])

updateIndexTable(T, numEntries) ==
  [T EXCEPT !.temporalIndexTable = SubSeq(T.sortedTemporalList, 1,
              IF numEntries < Len(T.sortedTemporalList) THEN numEntries ELSE Len(T.sortedTemporalList)),
            !.indexTableSize = IF numEntries > @ \/ numEntries < @ \div 4 THEN numEntries * 2 ELSE @,
            !.pendingUpdateCount = 0]

(* An update the index does not show: it is rebuilt when there are many.    *)
PendingUpdate(T) ==
  LET U == [T EXCEPT !.pendingUpdateCount = @ + 1] IN
  IF getCount(T) \div U.pendingUpdateCount < PENDING_UPDATE_RATE_THRESHOLD
    THEN updateIndexTable(U, getCount(T)) ELSE U

(* The position in the index, from 1, of the last entry before that of t,   *)
(* given what the search for t found; 0 if there is none.                   *)
Before(index, t, pos) ==
  LET others == {i \in 1 .. pos + 1 : index[i] # t} IN IF others = {} THEN 0 ELSE Max(others)

(* Mutant: a pointer to the last entry is not cut off. *)
DropFromIndexButLast(T, t, pos) ==
  LET index == T.temporalIndexTable
      list == T.sortedTemporalList
  IN IF Before(index, t, pos) = pos + 1 \/ Last(list) = t THEN index
     ELSE [i \in DOMAIN index |-> IF index[i] = t THEN list[PositionOf(list, t) + 1] ELSE index[i]]

(* The pointers to the entry of t, if the search found one at pos, before   *)
(* it is deleted: they come to point to the next entry, those around pos    *)
(* too (replaceIndexTablePosition), or if there is none are cut off.        *)
DropFromIndex(T, t, pos) ==
  LET index == T.temporalIndexTable
      list == T.sortedTemporalList
      before == Before(index, t, pos)
      next == list[PositionOf(list, t) + 1]
  IN IF before = pos + 1 THEN index
     ELSE IF Last(list) # t THEN [i \in DOMAIN index |-> IF index[i] = t THEN next ELSE index[i]]
          ELSE SubSeq(index, 1, before)

(* removeFromSortedEntries: the search in the list starts at the entry      *)
(* before t in the index.  By then no position of the index is the entry of *)
(* t, so the removal is always a pending update.                            *)
removeFromSortedEntries(T, t) ==
  LET index == T.temporalIndexTable
      list == T.sortedTemporalList
      pos == getTemporalIndexTablePos(index, t)
      before == Before(index, t, pos)
      start == IF before = 0 THEN 0 ELSE PositionOf(list, index[before])
      found == \E i \in start + 1 .. Len(list) : list[i] = t
      U == [T EXCEPT !.temporalIndexTable = DropFromIndex(T, t, pos)]
  IN IF found THEN PendingUpdate([U EXCEPT !.sortedTemporalList = Unlink(@, t)]) ELSE U

----------------------------------------------------------------------------
(* add                                                                      *)

(* Mutant: a time is appended to the tail without a comparison. *)
addToMapsUnsorted(T, h, t, later) ==
  [T EXCEPT !.handleMap[h] = IF t \in Range(@) THEN @ ELSE Append(@, t),
            !.tailHandleMap[h] = t,
            !.temporalMap[t] = @ \cup {h}]

(* addToMaps.  A tail is the last entry of the handle's list, so a later    *)
(* time is appended to it.  later: what the comparison with a deleted entry *)
(* yields; if it says that t is later, t is appended to that entry and is   *)
(* not in the handle's list.                                                *)
addToMaps(T, h, t, later) ==
  LET list == T.handleMap[h]
      tail == T.tailHandleMap[h]
      added == CASE tail = Dangling /\ later -> list
                 [] tail \in Temporals /\ Less(tail, t) -> AddFrom(list, PositionOf(list, tail), t)
                 [] OTHER -> AddFrom(list, 1, t)
  IN [T EXCEPT !.handleMap[h] = added,
               !.tailHandleMap[h] = CASE tail = Dangling -> Dangling
                                      [] tail \in Temporals /\ ~Less(tail, t) -> tail
                                      [] OTHER -> Last(added),
               !.temporalMap[t] = @ \cup {h},
               !.undefined = @ \/ tail = Dangling]

(* A new last time goes to the end of the index when there is room.         *)
add(T, h, t, later) ==
  LET indexed == T.temporalIndexTable # <<>>
      previous == IF indexed THEN getPreviousTemporalEntry(T, t) ELSE 0
      start == IF previous = 0 THEN 1 ELSE previous
      U == addToMaps([T EXCEPT !.sortedTemporalList = AddFrom(@, start, t)], h, t, later)
      room == indexed /\ Len(T.temporalIndexTable) < T.indexTableSize /\ Less(Last(T.temporalIndexTable), t)
  IN IF getCount(U) = getCount(T) THEN U
     ELSE IF room THEN [U EXCEPT !.temporalIndexTable = Append(@, t)]
     ELSE PendingUpdate(U)

----------------------------------------------------------------------------
(* The criteria.                                                            *)

Criteria == {"EXACT", "STARTS_BEFORE", "STARTS_WITHIN", "STARTS_AFTER", "ENDS_BEFORE", "ENDS_WITHIN",
             "ENDS_AFTER", "OVERLAPS", "INCLUDES", "NEXT_AFTER_START_OF", "NEXT_AFTER_END_OF",
             "PREVIOUS_BEFORE_START_OF", "PREVIOUS_BEFORE_END_OF"}

Previous == {"PREVIOUS_BEFORE_START_OF", "PREVIOUS_BEFORE_END_OF"}
NextAfter == {"NEXT_AFTER_START_OF", "NEXT_AFTER_END_OF"}

(* matchesTimeCriterion(time, t, criterion): whether the time matches ...   *)
Matches(time, t, c) ==
  CASE c = "EXACT" -> time = t
    [] c = "OVERLAPS" -> t.lower <= time.upper /\ t.upper >= time.lower
    [] c = "INCLUDES" -> time.lower <= t.lower /\ time.upper >= t.upper
    [] c \in {"STARTS_BEFORE", "PREVIOUS_BEFORE_START_OF"} -> time.lower < t.lower
    [] c = "STARTS_WITHIN" -> time.lower >= t.lower /\ time.lower <= t.upper
    [] c \in {"STARTS_AFTER", "NEXT_AFTER_END_OF"} -> time.lower > t.upper
    [] c = "ENDS_BEFORE" -> time.upper < t.lower
    [] c = "ENDS_WITHIN" -> time.upper >= t.lower /\ time.upper <= t.upper
    [] c = "ENDS_AFTER" -> time.upper > t.upper
    [] c = "NEXT_AFTER_START_OF" -> time.lower > t.lower
    [] c = "PREVIOUS_BEFORE_END_OF" -> time.lower < t.upper

(* Mutant: the search stops at a time that starts as late as t ends. *)
SearchFinishedEarly(time, t, c) ==
  CASE c \in {"EXACT"} \cup NextAfter -> Matches(time, t, c)
    [] c \in {"STARTS_AFTER", "ENDS_AFTER"} -> FALSE
    [] c \in Previous \cup {"STARTS_BEFORE"} -> ~Matches(time, t, c)
    [] c = "INCLUDES" -> ~Matches(time, t, c) /\ time.lower >= t.lower
    [] OTHER -> ~Matches(time, t, c) /\ time.lower >= t.lower

(* ... and whether it ends the search, the times being sorted.              *)
SearchFinished(time, t, c) ==
  CASE c \in {"EXACT"} \cup NextAfter -> Matches(time, t, c)
    [] c \in {"STARTS_AFTER", "ENDS_AFTER"} -> FALSE
    [] c \in Previous \cup {"STARTS_BEFORE"} -> ~Matches(time, t, c)
    [] c = "ENDS_BEFORE" -> ~Matches(time, t, c) /\ time.lower >= t.lower
    [] c = "INCLUDES" -> ~Matches(time, t, c) /\ time.lower > t.lower
    [] c \in {"OVERLAPS", "STARTS_WITHIN", "ENDS_WITHIN"} -> ~Matches(time, t, c) /\ time.lower > t.upper

(* The walk along a list: the times it takes, of the previous ones the last.*)
Walk(list, t, c) ==
  LET ends == {i \in DOMAIN list : SearchFinished(list[i], t, c)}
      last == IF ends = {} THEN Len(list) ELSE Min(ends)
      taken == {i \in 1 .. last : Matches(list[i], t, c)}
  IN CASE t = UNDEFINED -> Range(list)
       [] t # UNDEFINED /\ c \in Previous -> {list[i] : i \in {j \in taken : \A k \in taken : k <= j}}
       [] OTHER -> {list[i] : i \in taken}

(* OVERLAPS without a handle: the index gives an entry to start from, the   *)
(* walk goes to the upper limit, and the list is taken up to there.         *)
Overlapping(T, t) ==
  LET list == T.sortedTemporalList
      previous == getPreviousTemporalEntry(T, t)
      beyond == {i \in (IF previous = 0 THEN 1 ELSE previous) .. Len(list) : list[i].lower > t.upper}
      upperLimit == IF beyond = {} THEN Len(list) + 1 ELSE Min(beyond)
  IN {list[i] : i \in {j \in 1 .. upperLimit - 1 : list[j].upper >= t.lower}}

(* The times that get(t, c) and remove(t, c) choose.                        *)
Chosen(T, t, c) ==
  CASE t # UNDEFINED /\ c = "EXACT" -> IF T.temporalMap[t] = {} THEN {} ELSE {t}
    [] t # UNDEFINED /\ c = "OVERLAPS" -> IF T.sortedTemporalList = <<>> THEN {} ELSE Overlapping(T, t)
    [] OTHER -> Walk(T.sortedTemporalList, t, c)

get(T, h, t, c) ==
  IF h = UNDEFINED
    THEN UNION {T.temporalMap[time] \X {time} : time \in Chosen(T, t, c)}
    ELSE {h} \X Walk(T.handleMap[h], t, c)

----------------------------------------------------------------------------
(* remove                                                                   *)

(* One entry of a handle.  The tail's own entry is forgotten with it, but   *)
(* not by PREVIOUS_..., which removes after the walk.                       *)
RemovePair(T, h, time, c) ==
  LET U == [T EXCEPT !.temporalMap[time] = @ \ {h}]
      V == IF U.temporalMap[time] = {} THEN removeFromSortedEntries(U, time) ELSE U
  IN [V EXCEPT !.handleMap[h] = Unlink(@, time),
               !.tailHandleMap[h] = IF @ # time THEN @ ELSE IF c \in Previous THEN Dangling ELSE NoTail]

(* remove(t, EXACT): the tail of a handle is compared with the head of its  *)
(* list, so it is forgotten only when that was its only entry.              *)
RemoveTime(T, time) ==
  LET gone(h) == h \in T.temporalMap[time]
      tail(h) == CASE ~gone(h) \/ T.tailHandleMap[h] \notin Temporals -> T.tailHandleMap[h]
                   [] gone(h) /\ T.tailHandleMap[h] = Head(T.handleMap[h]) -> NoTail
                   [] gone(h) /\ T.tailHandleMap[h] = time -> Dangling
                   [] OTHER -> T.tailHandleMap[h]
  IN removeFromSortedEntries(
       [T EXCEPT !.temporalMap[time] = {},
                 !.handleMap = [h \in Handles |-> IF gone(h) THEN Unlink(T.handleMap[h], time) ELSE T.handleMap[h]],
                 !.tailHandleMap = [h \in Handles |-> tail(h)]], time)

(* The chosen times of a list, one after the other.                         *)
RemoveHandle(T, h, times, c) ==
  LET list == T.handleMap[h]
      upTo[i \in 0 .. Len(list)] ==
        IF i = 0 THEN T
        ELSE IF list[i] \in times THEN RemovePair(upTo[i - 1], h, list[i], c) ELSE upTo[i - 1]
  IN upTo[Len(list)]

RemoveTimes(T, times) ==
  LET list == T.sortedTemporalList
      upTo[i \in 0 .. Len(list)] ==
        IF i = 0 THEN T
        ELSE IF list[i] \in times THEN RemoveTime(upTo[i - 1], list[i]) ELSE upTo[i - 1]
  IN upTo[Len(list)]

remove(T, h, t, c) ==
  CASE h # UNDEFINED -> RemoveHandle(T, h, Walk(T.handleMap[h], t, c), IF t = UNDEFINED THEN "EXACT" ELSE c)
    [] h = UNDEFINED /\ t # UNDEFINED /\ c = "EXACT" -> IF T.temporalMap[t] = {} THEN T ELSE RemoveTime(T, t)
    [] OTHER -> RemoveTimes(T, Chosen(T, t, c))
=============================================================================
