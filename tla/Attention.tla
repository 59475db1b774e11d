---- MODULE Attention ----
(***************************************************************************)
(* The economy of short-term importance (STI): the two agents that spread  *)
(* it (ImportanceDiffusionBase.cc and its subclasses) and the two that     *)
(* collect rent (RentCollectionBaseAgent.cc and its subclasses).           *)
(*                                                                         *)
(* start-ecan gives each agent a thread of its own (AttentionModule.cc),   *)
(* agents-start may also leave them to the main loop, which runs them one  *)
(* after the other.  Every get_sti and set_sti of the bank is one step, so *)
(* in the first mode the read-modify-writes interleave.                    *)
(*                                                                         *)
(* The bank, the atoms and the attentional focus live in the AtomSpace     *)
(* library.  sti_t is a floating-point number: STI and funds are counted   *)
(* here in parts of 1/Unit.  Long-term importance, which rent treats in    *)
(* the same way, is left out.                                              *)
(***************************************************************************)
EXTENDS Integers, Sequences, FiniteSets, SequencesExt

CONSTANTS
    Unit,           \* how many parts make one STI
    Atoms,          \* handles of nodes and links
    HandleOrder,    \* atom -> the place of its handle in the order of the handles
    HebbianLinks,   \* the ones that are Hebbian links
    Incident,       \* atom -> its incoming set followed by its outgoing set
    Conductance,    \* atom -> (Hebbian neighbour -> strength * confidence, percent)
    StartSTI,       \* atom -> its STI at first
    maxSpreadPercentage,             \* MAX_SPREAD_PERCENTAGE, percent
    hebbianMaxAllocationPercentage,  \* HEBBIAN_MAX_ALLOCATION_PERCENTAGE, percent
    tournamentSize,                  \* DIFFUSION_TOURNAMENT_SIZE, percent
    Estimates,      \* what the diffusion estimate of a WA atom may be
    AFSize,         \* how many atoms the attentional focus holds
    STIAtomRent, targetSTI, stiFundsBuffer,  \* rent parameters
    StartFunds,     \* the bank's STI funds at first
    UpdateCycles,   \* bound: update cycles between two collections of the AF rent;
                    \* 20 and more with the shipped AF_RENT_FREQUENCY of 0.05
    ElapsedTimes,   \* bound: time since an atom was last charged by the WA collector
    MaxRuns,        \* bound: runs of all agents
    StartChoices,   \* sets of agents that may be started
    SerialModes     \* TRUE: one main loop runs them; FALSE: a thread each

Spreaders == {"AFImportanceDiffusion", "WAImportanceDiffusion"}
Collectors == {"AFRentCollection", "WARentCollection"}
Agents == Spreaders \cup Collectors

Total(f) == FoldFunction(+, 0, f)

ASSUME GraphAssumption ==
    /\ IsFiniteSet(Atoms)
    /\ HandleOrder \in [Atoms -> Nat]
    /\ \A a, b \in Atoms : HandleOrder[a] = HandleOrder[b] => a = b
    /\ HebbianLinks \subseteq Atoms
    /\ Incident \in [Atoms -> Seq(Atoms)]
    /\ DOMAIN Conductance = Atoms
    /\ \A a \in Atoms : /\ DOMAIN Conductance[a] \subseteq Atoms
                        /\ \A t \in DOMAIN Conductance[a] : Conductance[a][t] \in 0 .. 100
    /\ StartSTI \in [Atoms -> Nat]

ASSUME ParameterAssumption ==
    /\ maxSpreadPercentage \in 0 .. 100
    /\ hebbianMaxAllocationPercentage \in 0 .. 100
    /\ Unit \in Nat \ {0}
    /\ {tournamentSize, STIAtomRent, MaxRuns} \subseteq Nat
    /\ UpdateCycles \subseteq Nat \ {0}
    /\ ElapsedTimes \subseteq Nat
    /\ {targetSTI, StartFunds} \subseteq Int
    /\ Estimates \subseteq Int
    /\ AFSize \in 1 .. Cardinality(Atoms)
    /\ stiFundsBuffer \in Nat \ {0}
    /\ StartChoices \subseteq SUBSET Agents
    /\ SerialModes \subseteq BOOLEAN

VARIABLES
    sti,      \* atom -> short-term importance
    funds,    \* the bank's STI funds
    thread,   \* agent -> where its run() is
    started,  \* the agents that were started
    serial,   \* whether the main loop runs them
    runs,     \* runs begun
    taken,    \* what collectRent took so far
    lost,     \* whether a write replaced a value other than the one read
    clean     \* whether the last run begun is one of the AF spreader, begun with
              \* no other agent running and no atom below zero

vars == <<sti, funds, thread, started, serial, runs, taken, lost, clean>>

Idle == [pc |-> "idle", todo |-> <<>>, stack |-> <<>>, reg |-> 0, cycles |-> 0, charge |-> 0]

Init ==
    /\ sti = StartSTI
    /\ funds = StartFunds
    /\ thread = [g \in Agents |-> Idle]
    /\ started \in StartChoices
    /\ serial \in SerialModes
    /\ runs = 0
    /\ taken = 0
    /\ lost = FALSE
    /\ clean = FALSE

\* The atoms of S in the order of their handles: one sequence.
InOrder(S) ==
    {s \in [1 .. Cardinality(S) -> S] :
        \A i, j \in DOMAIN s : i < j => HandleOrder[s[i]] < HandleOrder[s[j]]}

\* get_handle_set_in_attentional_focus: the atoms of highest STI.
AttentionalFocus ==
    {F \in SUBSET Atoms :
        /\ Cardinality(F) = AFSize
        /\ \A a \in F, b \in Atoms \ F : sti[a] >= sti[b]}

MayRun(g) ==
    /\ g \in started
    /\ thread[g].pc = "idle"
    /\ runs < MaxRuns
    /\ serial => \A k \in Agents : thread[k].pc = "idle"

Begin(g, t) ==
    /\ thread' = [thread EXCEPT ![g] = t]
    /\ runs' = runs + 1
    /\ clean' = /\ g = "AFImportanceDiffusion"
                /\ \A k \in Agents : thread[k].pc = "idle"
                /\ \A a \in Atoms : sti[a] >= 0
    /\ UNCHANGED <<sti, funds, started, serial, taken, lost>>

-----------------------------------------------------------------------------
(* Spreading. *)

removeHebbianLinks(sources) == sources \ HebbianLinks

\* run() and the selection of the sources: AF takes the whole focus, WA one
\* atom of the bank or none.
BeginSpread(g) ==
    /\ MayRun(g)
    /\ \E sources \in IF g = "AFImportanceDiffusion"
                      THEN AttentionalFocus ELSE {{a} : a \in Atoms} \cup {{}} :
       \E s \in InOrder(removeHebbianLinks(sources)) :
          Begin(g, IF s = <<>> THEN Idle ELSE [Idle EXCEPT !.pc = "diffuse", !.todo = s])

\* x / y without its fraction, as a cast leaves it.
Cut(x, y) == IF x >= 0 THEN x \div y ELSE -((-x) \div y)

\* AF: round(sti * maxSpreadPercentage), a whole STI. WA: what its estimator leaves, and the
\* percentage the estimator is given is never set in this agent.
calculateDiffusionAmount(g, a) ==
    IF g = "AFImportanceDiffusion"
    THEN {Unit * Cut(2 * sti[a] * maxSpreadPercentage + (IF sti[a] < 0 THEN -100 ELSE 100) * Unit,
                     200 * Unit)}
    ELSE {sti[a] - e : e \in Estimates}

\* The part Hebbian neighbours may take: WA reads the tournament size for it.
HebbianAllocation(g) ==
    IF g = "AFImportanceDiffusion" THEN hebbianMaxAllocationPercentage ELSE tournamentSize

\* probabilityVectorHebbianAdjacent and the first half of
\* combineIncidentAdjacentVectors: target t of n gets alloc/n * conductance/n.
\* As fractions of Whole(a).
Whole(a) == LET n == Cardinality(DOMAIN Conductance[a])
            IN  IF n = 0 THEN 1 ELSE 10000 * n * n
HebbianShare(a, alloc) == [t \in DOMAIN Conductance[a] |-> alloc * Conductance[a][t]]

\* probabilityVectorIncident and the second half: what is left, in equal parts.
\* An atom listed twice gets one part, an adjacent one keeps its Hebbian share.
ProbabilityVector(a, alloc) ==
    LET hebbian == HebbianShare(a, alloc)
        left    == Whole(a) - alloc * Total(Conductance[a])
    IN  [t \in DOMAIN hebbian \cup Range(Incident[a]) |->
            IF t \in DOMAIN hebbian
            THEN [num |-> hebbian[t], den |-> Whole(a)]
            ELSE [num |-> left, den |-> Whole(a) * Len(Incident[a])]]

\* Mutant: every share is rounded up to the next part.
DiffusionEventsRounded(a, total, alloc) ==
    LET p == ProbabilityVector(a, alloc)
        Event(t) == [source |-> a, target |-> t, amount |-> Cut(total * p[t].num + p[t].den - 1, p[t].den)]
    IN  {[i \in DOMAIN order |-> Event(order[i])] : order \in InOrder(DOMAIN p)}

\* The cast to sti_t keeps the fraction of a share, up to its precision.
DiffusionEvents(a, total, alloc) ==
    LET p == ProbabilityVector(a, alloc)
        Event(t) == [source |-> a, target |-> t, amount |-> Cut(total * p[t].num, p[t].den)]
    IN  {[i \in DOMAIN order |-> Event(order[i])] : order \in InOrder(DOMAIN p)}

diffuseAtom(g) ==
    LET a == Head(thread[g].todo)
        rest == Tail(thread[g].todo)
    IN  /\ thread[g].pc = "diffuse"
        /\ \E total \in calculateDiffusionAmount(g, a) :
           \E events \in IF total = 0 THEN {<<>>}
                         ELSE DiffusionEvents(a, total, HebbianAllocation(g)) :
              LET stack == thread[g].stack \o events
              IN  thread' = [thread EXCEPT ![g].todo = rest, ![g].stack = stack,
                    ![g].pc = IF rest # <<>> THEN "diffuse"
                              ELSE IF stack = <<>> THEN "idle" ELSE "readSource"]
        /\ UNCHANGED <<sti, funds, started, serial, runs, taken, lost, clean>>

\* get_sti, and set_sti of a value computed from what was read: the bank pays
\* the change out of its funds.
Read(g, a, pc) ==
    /\ thread' = [thread EXCEPT ![g].reg = sti[a], ![g].pc = pc]
    /\ UNCHANGED <<sti, funds, started, serial, runs, taken, lost, clean>>

Write(g, a, value) ==
    /\ sti' = [sti EXCEPT ![a] = value]
    /\ funds' = funds + sti[a] - value
    /\ lost' = (lost \/ sti[a] # thread[g].reg)
    /\ UNCHANGED <<started, serial, runs, clean>>

\* tradeSTI, in four steps, and the pop of processDiffusionStack.
Top(g) == Last(thread[g].stack)

ReadSource(g) ==
    /\ thread[g].pc = "readSource"
    /\ Read(g, Top(g).source, "writeSource")

WriteSource(g) ==
    /\ thread[g].pc = "writeSource"
    /\ Write(g, Top(g).source, thread[g].reg - Top(g).amount)
    /\ thread' = [thread EXCEPT ![g].reg = 0, ![g].pc = "readTarget"]
    /\ UNCHANGED taken

\* Mutant: the target was read before the trades began.
ReadTargetEarly(g) ==
    /\ thread[g].pc = "readTarget"
    /\ thread' = [thread EXCEPT ![g].reg = StartSTI[Top(g).target], ![g].pc = "writeTarget"]
    /\ UNCHANGED <<sti, funds, started, serial, runs, taken, lost, clean>>

ReadTarget(g) ==
    /\ thread[g].pc = "readTarget"
    /\ Read(g, Top(g).target, "writeTarget")

\* Mutant: the traded event stays on the stack.
PoppedNot(stack) == stack

\* What is left to trade once an event has been traded.
Popped(stack) == Front(stack)

WriteTarget(g) ==
    /\ thread[g].pc = "writeTarget"
    /\ Write(g, Top(g).target, thread[g].reg + Top(g).amount)
    /\ LET stack == Popped(thread[g].stack)
       IN  thread' = [thread EXCEPT ![g] =
             IF stack = <<>> THEN Idle
             ELSE [Idle EXCEPT !.pc = "readSource", !.stack = stack]]
    /\ UNCHANGED taken

-----------------------------------------------------------------------------
(* Rent. *)

\* run(): the AF collector takes the focus, unless no update cycle has passed
\* since its last collection; the WA collector one atom of the bank or none.
BeginRent(g) ==
    /\ MayRun(g)
    /\ \E targets \in {{}} \cup IF g = "AFRentCollection"
                                THEN AttentionalFocus ELSE {{a} : a \in Atoms} :
       \E s \in InOrder(targets), w \in IF g = "AFRentCollection" THEN UpdateCycles ELSE {1} :
          Begin(g, IF s = <<>> THEN Idle
                   ELSE [Idle EXCEPT !.pc = "readRent", !.todo = s, !.cycles = w])

\* calculate_STI_Rent: the base rent scaled by how far the funds, read as an int,
\* are from their target, in hundredths of the buffer; below one it is sometimes
\* rounded up.  Rent is a whole STI: collectRent keeps it in an int.
Clamp(x, low, high) == IF x < low THEN low ELSE IF x > high THEN high ELSE x

calculate_STI_Rent(base) ==
    LET unit  == 100 * stiFundsBuffer
        ndiff == Clamp(100 * (targetSTI - Cut(funds, Unit)), -99 * stiFundsBuffer, unit)
        res   == (base * (unit + ndiff)) \div unit
    IN  IF res < 1 THEN {0, 1} ELSE {res}

\* The WA collector first multiplies the base rent by the time since the atom
\* was last charged.
BaseRents(g) ==
    IF g = "AFRentCollection" THEN {STIAtomRent}
    ELSE {STIAtomRent * elapsed : elapsed \in ElapsedTimes}

\* The rent of one cycle, no more than the whole STI the atom has.
RentDue(have, rent) == IF rent > have THEN have ELSE rent

\* The reads of collectRent: the STI as an int, and charge, the whole sum to take.
ReadRent(g) ==
    LET a == Head(thread[g].todo)
    IN  /\ thread[g].pc = "readRent"
        /\ \E rent \in UNION {calculate_STI_Rent(base) : base \in BaseRents(g)} :
              thread' = [thread EXCEPT ![g].pc = "writeRent", ![g].reg = sti[a],
                           ![g].charge = thread[g].cycles * RentDue(Cut(sti[a], Unit), rent)]
        /\ UNCHANGED <<sti, funds, started, serial, runs, taken, lost, clean>>

\* The atom is left with a whole STI: the int has lost the fraction.
WriteRent(g) ==
    LET a == Head(thread[g].todo)
        rest == Tail(thread[g].todo)
        value == Unit * (Cut(thread[g].reg, Unit) - thread[g].charge)
    IN  /\ thread[g].pc = "writeRent"
        /\ Write(g, a, value)
        /\ taken' = taken + (thread[g].reg - value)
        /\ thread' = [thread EXCEPT ![g] =
             IF rest = <<>> THEN Idle
             ELSE [Idle EXCEPT !.pc = "readRent", !.todo = rest, !.cycles = thread[g].cycles]]

-----------------------------------------------------------------------------
SpreadStep(g) ==
    \/ diffuseAtom(g)
    \/ ReadSource(g) \/ WriteSource(g)
    \/ ReadTarget(g) \/ WriteTarget(g)

RentStep(g) == ReadRent(g) \/ WriteRent(g)

Next ==
    \/ \E g \in Spreaders : BeginSpread(g) \/ SpreadStep(g)
    \/ \E g \in Collectors : BeginRent(g) \/ RentStep(g)

\* A run that has begun goes on: the agent's thread, or the main loop, is
\* scheduled.
Fairness ==
    /\ \A g \in Spreaders : WF_vars(SpreadStep(g))
    /\ \A g \in Collectors : WF_vars(RentStep(g))

Spec == Init /\ [][Next]_vars /\ Fairness

-----------------------------------------------------------------------------
(* Properties. *)

\* What has left a source and not yet reached its target.
Carried(g) == IF thread[g].pc \in {"readTarget", "writeTarget"} THEN Top(g).amount ELSE 0
InFlight == Carried("AFImportanceDiffusion") + Carried("WAImportanceDiffusion")

\* Spreading neither makes nor destroys STI: as long as no agent has written
\* over a change made since its own read (and so always in the main loop), the
\* bank's funds grow by what rent takes (collectRent: the charge, and the
\* fraction of the STI that its int drops) and by what is on its way from a
\* source to its target (tradeSTI), and by nothing else.
SpreadConserves ==
    serial \/ ~lost => funds = StartFunds + taken + InFlight

\* A run of the AF spreader that no other agent's run overlaps, in a thread or in
\* the main loop, takes from no atom more than it had at the outset: the events
\* of all sources are computed before the first is traded (diffuseAtom,
\* processDiffusionStack), a source may be the target of another, and yet no
\* atom falls below zero on the way.  That needs MAX_SPREAD_PERCENTAGE to be a
\* half at most (0.4 is shipped); above, round() may claim half an STI that the
\* atom does not have, and no more.
SpreadSolvent ==
    clean => \A a \in Atoms : /\ 2 * sti[a] >= -Unit
                              /\ maxSpreadPercentage <= 50 => sti[a] >= 0

\* Every run() of an agent comes to its end: the stack of events is emptied,
\* every target has paid.
RunsEnd == \A g \in Agents : thread[g].pc # "idle" ~> thread[g].pc = "idle"

\* ImportanceDiffusionBase.cc:224-226, "Floor is used instead of round, so that an
\* atom cannot diffuse more STI than it has": no atom is overdrawn.
NeverOverdrawn == \A a \in Atoms : sti[a] >= 0
====
