---------------------------- MODULE MembershipProofs ----------------------------
(***************************************************************************)
(* Theorems about Membership, for every set of entries and callers, every  *)
(* dependency graph and every group.                                       *)
(***************************************************************************)
EXTENDS Membership, TLAPS

USE DEF regVars, flagVars, runVars, callVars

-----------------------------------------------------------------------------
(* What a step does to the calls. *)

Others(c) == \A d \in Callers : d # c => pc'[d] = pc[d] /\ call'[d] = call[d]

\* Callers of one kind do nothing of another.
LEMMA Roles ==
         /\ Starters \cap Stoppers = {} /\ Starters \cap Registrars = {}
         /\ Stoppers \cap Registrars = {}
         /\ Starters \subseteq Callers /\ Stoppers \subseteq Callers
         /\ Registrars \subseteq Callers
  BY MembershipAssumption DEF Callers

LEMMA NoCallType == NoCall \in CallRecords
  BY DEF NoCall, CallRecords

LEMMA BeginMove ==
  ASSUME TypeOK, NEW c \in Callers, NEW p \in Pcs, NEW k \in CallRecords, Begin(c, p, k)
  PROVE  /\ pc' \in [Callers -> Pcs] /\ call' \in [Callers -> CallRecords]
         /\ pc'[c] = p /\ call'[c] = k /\ Others(c)
  BY DEF TypeOK, Begin, Goto, Others

LEMMA ReturnMove ==
  ASSUME TypeOK, NEW c \in Callers, Return(c)
  PROVE  /\ pc' \in [Callers -> Pcs] /\ call' \in [Callers -> CallRecords]
         /\ pc'[c] = "idle" /\ call'[c] = NoCall /\ Others(c)
  BY NoCallType, BeginMove DEF Return, Pcs

LEMMA GotoMove ==
  ASSUME TypeOK, NEW c \in Callers, NEW p \in Pcs, Goto(c, p), UNCHANGED call
  PROVE  /\ pc' \in [Callers -> Pcs] /\ call' \in [Callers -> CallRecords]
         /\ pc'[c] = p /\ call'[c] = call[c] /\ Others(c)
  BY DEF TypeOK, Goto, Others

LEMMA StartedMove ==
  ASSUME TypeOK, NEW c \in Callers, NEW e \in Entries, Started(c, e)
  PROVE  /\ pc' \in [Callers -> Pcs] /\ call' \in [Callers -> CallRecords]
         /\ pc'[c] = "start" /\ call'[c].entry = None
         /\ call'[c].todo = call[c].todo \ {e}
         /\ call'[c].reserved = call[c].reserved
         /\ Others(c)
  <1> DEFINE k == [call[c] EXCEPT !.entry = None, !.todo = @ \ {e}, !.started = @ \cup {e}]
  <1>1. call[c] \in CallRecords
    BY DEF TypeOK
  <1>2. k \in CallRecords
    BY <1>1 DEF CallRecords
  <1>3. k.entry = None /\ k.todo = call[c].todo \ {e} /\ k.reserved = call[c].reserved
    BY <1>1 DEF CallRecords
  <1>4. Begin(c, "start", k)
    BY DEF Started
  <1> HIDE DEF k
  <1> QED
    BY <1>2, <1>3, <1>4, BeginMove DEF Pcs

LEMMA FailedMove ==
  ASSUME TypeOK, NEW c \in Callers, Failed(c)
  PROVE  /\ pc' \in [Callers -> Pcs] /\ call' \in [Callers -> CallRecords]
         /\ pc'[c] = "rollback" /\ call'[c].entry = None
         /\ call'[c].todo = call[c].started /\ call'[c].started = call[c].started
         /\ call'[c].reserved = call[c].reserved
         /\ Others(c)
  <1> DEFINE k == [call[c] EXCEPT !.entry = None, !.todo = call[c].started]
  <1>1. call[c] \in CallRecords
    BY DEF TypeOK
  <1>2. k \in CallRecords
    BY <1>1 DEF CallRecords
  <1>3. /\ k.entry = None /\ k.todo = call[c].started /\ k.started = call[c].started
        /\ k.reserved = call[c].reserved
    BY <1>1 DEF CallRecords
  <1>4. Begin(c, "rollback", k)
    BY DEF Failed
  <1> HIDE DEF k
  <1> QED
    BY <1>2, <1>3, <1>4, BeginMove DEF Pcs

\* What a teardown leaves of its record but for its entry and its todo.
SameClaim(c) ==
    /\ call'[c].kind = call[c].kind /\ call'[c].target = call[c].target
    /\ call'[c].set = call[c].set /\ call'[c].reserved = call[c].reserved
    /\ call'[c].started = call[c].started

\* Taking up an entry, being done with it, and passing it over.
LEMMA TakeMove ==
  ASSUME TypeOK, NEW c \in Callers, NEW e \in Entries, UNCHANGED pc,
         call' = [call EXCEPT ![c].entry = e]
  PROVE  /\ call' \in [Callers -> CallRecords] /\ call'[c].entry = e
         /\ call'[c].todo = call[c].todo /\ SameClaim(c) /\ Others(c)
  BY DEF TypeOK, CallRecords, SameClaim, Others

LEMMA SkipMove ==
  ASSUME TypeOK, NEW c \in Callers, NEW e \in Entries, UNCHANGED pc,
         call' = [call EXCEPT ![c].todo = @ \ {e}]
  PROVE  /\ call' \in [Callers -> CallRecords] /\ call'[c].entry = call[c].entry
         /\ call'[c].todo = call[c].todo \ {e} /\ SameClaim(c) /\ Others(c)
  BY DEF TypeOK, CallRecords, SameClaim, Others

LEMMA DoneMove ==
  ASSUME TypeOK, NEW c \in Callers, NEW e, UNCHANGED pc,
         call' = [call EXCEPT ![c].entry = None, ![c].todo = @ \ {e}]
  PROVE  /\ call' \in [Callers -> CallRecords] /\ call'[c].entry = None
         /\ call'[c].todo = call[c].todo \ {e} /\ SameClaim(c) /\ Others(c)
  <1> DEFINE g == [call EXCEPT ![c].entry = None]
  <1>1. g \in [Callers -> CallRecords]
    BY DEF TypeOK, CallRecords
  <1>2. /\ g[c].entry = None /\ g[c].todo = call[c].todo
        /\ g[c].kind = call[c].kind /\ g[c].target = call[c].target
        /\ g[c].set = call[c].set /\ g[c].reserved = call[c].reserved
        /\ g[c].started = call[c].started
        /\ \A d \in Callers : d # c => g[d] = call[d]
    BY DEF TypeOK, CallRecords
  <1> DEFINE T == call[c].todo \ {e}
  <1>3. call' = [g EXCEPT ![c].todo = T]
    OBVIOUS
  <1>4. T \in SUBSET Entries
    BY DEF TypeOK, CallRecords
  <1> HIDE DEF g, T
  <1>5. call' \in [Callers -> CallRecords]
    <2> DEFINE k == [g[c] EXCEPT !.todo = T]
    <2>1. k \in CallRecords
      BY <1>1, <1>4 DEF CallRecords
    <2>2. call' = [g EXCEPT ![c] = k]
      BY <1>3
    <2> HIDE DEF k
    <2> QED
      BY <1>1, <2>1, <2>2
  <1>6. call'[c].entry = None /\ call'[c].todo = T /\ SameClaim(c)
    BY <1>1, <1>2, <1>3, <1>4 DEF CallRecords, SameClaim
  <1>7. Others(c)
    BY <1>1, <1>2, <1>3 DEF Others
  <1> QED
    BY <1>5, <1>6, <1>7 DEF T

-----------------------------------------------------------------------------
(* The inductive invariant. *)

\* What the record of a call says at each place of the call.
CallShape(c) ==
    /\ pc[c] = "idle" => call[c] = NoCall
    /\ pc[c] = "commit" =>
         c \in Registrars /\ call[c].entry \in Entries \ (registered \cup removed)
    /\ pc[c] \in {"start", "launch", "gate", "rollback"} => c \in Starters
    /\ pc[c] \in {"launch", "gate"} => call[c].entry \in call[c].todo
    /\ pc[c] \in {"stop", "release"} => c \in Stoppers /\ call[c].set = call[c].reserved
    /\ pc[c] = "stop" => call[c].set \subseteq registered /\ call[c].todo \subseteq call[c].set
    /\ pc[c] \in {"stop", "rollback"} /\ call[c].entry # None => call[c].entry \in call[c].todo

Shape ==
    /\ \A c \in Callers : CallShape(c)
    /\ \A c, d \in Callers : c # d /\ pc[c] = "commit" /\ pc[d] = "commit" =>
         call[c].entry # call[d].entry

\* Who holds the flags: the part of ReservationsHeld that two starters do not
\* disturb, and that what is starting is registered.
FlagsHeld ==
    /\ starting \cap removing = {}
    /\ starting \subseteq registered
    /\ \A e \in starting : \E c \in Starters : e \in call[c].reserved
    /\ \A e \in removing : \E c \in Stoppers : e \in call[c].reserved
    /\ \A c \in Stoppers : call[c].reserved \subseteq removing
    /\ \A c, d \in Stoppers : c # d => call[c].reserved \cap call[d].reserved = {}

Inv == TypeOK /\ Shape /\ FlagsHeld

\* Where only c moves and nobody is registered or removed, the shape of c is
\* enough.
LEMMA ShapeFrame ==
  ASSUME Shape, NEW c \in Callers, Others(c), UNCHANGED regVars,
         CallShape(c)', pc'[c] # "commit"
  PROVE  Shape'
  BY DEF Shape, CallShape, Others

\* A step that reserves nothing new and leaves every removal alone.
LEMMA FlagsFrame ==
  ASSUME FlagsHeld, NEW c \in Callers, Others(c), call'[c].reserved = call[c].reserved,
         UNCHANGED removing, starting' \subseteq starting, registered \subseteq registered'
  PROVE  FlagsHeld'
  <1>1. \A d \in Callers : call'[d].reserved = call[d].reserved
    BY DEF Others
  <1> QED
    BY <1>1, Roles DEF FlagsHeld

LEMMA InvInit == Init => Inv
  <1> SUFFICES ASSUME Init PROVE Inv
    OBVIOUS
  <1>1. \A c \in Callers : pc[c] = "idle" /\ call[c] = NoCall
    BY DEF Init
  <1>2. TypeOK
    BY MembershipAssumption, NoCallType DEF Init, TypeOK, Statuses, Pcs
  <1>3. Shape
    BY <1>1 DEF Shape, CallShape, NoCall
  <1>4. FlagsHeld
    BY <1>1, Roles DEF Init, FlagsHeld, NoCall
  <1> QED
    BY <1>2, <1>3, <1>4 DEF Inv

-----------------------------------------------------------------------------
(* The steps of a registration. *)

LEMMA RegisterKeeps ==
  ASSUME Inv, NEW c \in Registrars, Register(c)
  PROVE  Inv' /\ pc'[c] = "commit" /\ Others(c)
  <1>1. c \in Callers /\ c \notin Starters \cup Stoppers
    BY Roles
  <1>2. PICK e \in Entries \ (registered \cup removed) :
          /\ \A r \in Registrars : call[r].entry # e
          /\ Begin(c, "commit", [NoCall EXCEPT !.kind = "register", !.entry = e])
    BY DEF Register
  <1> DEFINE k == [NoCall EXCEPT !.kind = "register", !.entry = e]
  <1>3. k \in CallRecords /\ k.entry = e
    BY DEF NoCall, CallRecords
  <1>4. Begin(c, "commit", k)
    BY <1>2
  <1> HIDE DEF k
  <1>5. /\ pc' \in [Callers -> Pcs] /\ call' \in [Callers -> CallRecords]
        /\ pc'[c] = "commit" /\ call'[c].entry = e /\ Others(c)
    BY <1>1, <1>3, <1>4, BeginMove DEF Inv, Pcs
  <1>6. UNCHANGED <<regVars, flagVars, runVars>>
    BY DEF Register
  <1>7. TypeOK'
    BY <1>5, <1>6 DEF Inv, TypeOK
  <1>8. Shape'
    <2>1. \A d \in Callers : CallShape(d)'
      BY <1>2, <1>5, <1>6 DEF Inv, Shape, CallShape, Others
    <2>2. \A d \in Callers : d # c /\ pc'[d] = "commit" => call'[d].entry # call'[c].entry
      BY <1>2, <1>5 DEF Inv, Shape, CallShape, Others
    <2> QED
      BY <1>5, <2>1, <2>2 DEF Inv, Shape, Others
  <1>9. FlagsHeld'
    <2>1. \A d \in Starters \cup Stoppers : call'[d] = call[d]
      BY <1>1, <1>5, Roles DEF Others
    <2> QED
      BY <1>6, <2>1 DEF Inv, FlagsHeld
  <1> QED
    BY <1>5, <1>7, <1>8, <1>9 DEF Inv

LEMMA CommitRegisterKeeps ==
  ASSUME Inv, NEW c \in Callers, CommitRegister(c)
  PROVE  Inv'
  <1> DEFINE e == call[c].entry
  <1>1. /\ c \in Registrars /\ c \notin Starters \cup Stoppers
        /\ e \in Entries \ (registered \cup removed)
    BY Roles DEF Inv, Shape, CallShape, CommitRegister
  <1>2. /\ pc' \in [Callers -> Pcs] /\ call' \in [Callers -> CallRecords]
        /\ pc'[c] = "idle" /\ call'[c] = NoCall /\ Others(c)
    BY ReturnMove DEF Inv, CommitRegister
  <1>3. UNCHANGED <<removed, flagVars, runVars>>
    BY DEF CommitRegister
  <1>4. registered' \in {registered, registered \cup {e}}
    BY DEF CommitRegister
  <1>5. \A d \in Callers : d # c /\ pc[d] = "commit" => call[d].entry # e
    BY DEF Inv, Shape, CommitRegister
  <1> HIDE DEF e
  <1>6. TypeOK'
    BY <1>1, <1>2, <1>3, <1>4 DEF Inv, TypeOK
  <1>7. Shape'
    <2>1. CallShape(c)'
      BY <1>2 DEF CallShape, NoCall
    <2>2. \A d \in Callers : d # c => CallShape(d)'
      BY <1>2, <1>3, <1>4, <1>5 DEF Inv, Shape, CallShape, Others
    <2> QED
      BY <1>2, <2>1, <2>2 DEF Inv, Shape, Others
  <1>8. FlagsHeld'
    <2>1. \A d \in Starters \cup Stoppers : call'[d] = call[d]
      BY <1>1, <1>2, Roles DEF Others
    <2> QED
      BY <1>3, <1>4, <2>1 DEF Inv, FlagsHeld
  <1> QED
    BY <1>6, <1>7, <1>8 DEF Inv

-----------------------------------------------------------------------------
(* The steps of a start. *)

\* A starter comes in and reserves what nobody has reserved.
StartClaimed(c, S) == pc'[c] = "start" /\ call'[c].todo = S /\ Others(c)

LEMMA StarterClaims ==
  ASSUME Inv, NEW c \in Starters, pc[c] = "idle",
         NEW S \in SUBSET (registered \ (starting \cup removing)),
         NEW k \in CallRecords, k.reserved = S, k.todo = S, Begin(c, "start", k),
         starting' = starting \cup S, UNCHANGED <<regVars, removing, runVars>>
  PROVE  Inv' /\ StartClaimed(c, S)
  <1>1. c \in Callers /\ c \notin Stoppers
    BY Roles
  <1>2. /\ pc' \in [Callers -> Pcs] /\ call' \in [Callers -> CallRecords]
        /\ pc'[c] = "start" /\ call'[c] = k /\ Others(c)
    BY <1>1, BeginMove DEF Inv, Pcs
  <1>3. TypeOK'
    BY <1>2 DEF Inv, TypeOK
  <1>4. Shape'
    <2>1. CallShape(c)'
      BY <1>2 DEF CallShape
    <2> QED
      BY <1>1, <1>2, <2>1, ShapeFrame DEF Inv
  <1>5. FlagsHeld'
    <2>1. \A d \in Stoppers : call'[d] = call[d]
      BY <1>1, <1>2, Roles DEF Others
    <2>2. starting' \cap removing' = {} /\ starting' \subseteq registered'
      BY DEF Inv, FlagsHeld
    <2>3. \A e \in starting' : \E d \in Starters : e \in call'[d].reserved
      <3> SUFFICES ASSUME NEW e \in starting'
                   PROVE  \E d \in Starters : e \in call'[d].reserved
        OBVIOUS
      <3>1. CASE e \in S
        BY <1>2, <3>1
      <3>2. CASE e \in starting
        <4>1. PICK d \in Starters : e \in call[d].reserved
          BY <3>2 DEF Inv, FlagsHeld
        <4>2. d # c
          BY <4>1 DEF Inv, Shape, CallShape, NoCall, Callers
        <4> QED
          BY <1>2, <4>1, <4>2, Roles DEF Others
      <3> QED
        BY <3>1, <3>2
    <2> QED
      BY <2>1, <2>2, <2>3 DEF Inv, FlagsHeld
  <1> QED
    BY <1>2, <1>3, <1>4, <1>5 DEF Inv, StartClaimed

\* The reservation of a start, of entries without an instance.
StartReserves(c, S) ==
    /\ StartClaimed(c, S) /\ starting' = starting \cup S
    /\ \A e \in S : instances[e] = 0
    /\ UNCHANGED <<regVars, removing, runVars>>

LEMMA StartServiceKeeps ==
  ASSUME Inv, NEW c \in Starters, StartService(c)
  PROVE  Inv' /\ \E S \in SUBSET Entries : StartReserves(c, S)
  <1>1. PICK e \in registered :
          /\ ~Reserved(e) /\ instances[e] = 0 /\ starting' = starting \cup {e}
          /\ Begin(c, "start", [NoCall EXCEPT !.kind = "start", !.target = e,
                                  !.set = {e}, !.reserved = {e}, !.todo = {e}])
    BY DEF StartService
  <1> DEFINE k == [NoCall EXCEPT !.kind = "start", !.target = e,
                                 !.set = {e}, !.reserved = {e}, !.todo = {e}]
  <1>2. e \in Entries
    BY DEF Inv, TypeOK
  <1>3. k \in CallRecords /\ k.reserved = {e} /\ k.todo = {e}
    BY <1>2 DEF NoCall, CallRecords
  <1>4. Begin(c, "start", k)
    BY <1>1
  <1> HIDE DEF k
  <1>5. {e} \in SUBSET (registered \ (starting \cup removing))
    BY <1>1 DEF Reserved
  <1> QED
    BY <1>1, <1>2, <1>3, <1>4, <1>5, StarterClaims DEF StartService, StartReserves

LEMMA StartGroupKeeps ==
  ASSUME Inv, NEW c \in Starters, StartGroup(c)
  PROVE  Inv' /\ \E S \in SUBSET Entries : StartReserves(c, S)
  <1> DEFINE members == Grouped \cap registered
             mine    == {e \in members : Startable(e)}
             k       == [NoCall EXCEPT !.kind = "startgroup", !.set = members,
                                       !.reserved = mine, !.todo = mine]
  <1>1. starting' = starting \cup mine /\ Begin(c, "start", k)
    BY DEF StartGroup
  <1>2. members \in SUBSET Entries /\ mine \in SUBSET Entries
    BY DEF Inv, TypeOK
  <1>3. mine \in SUBSET (registered \ (starting \cup removing))
    BY DEF Startable, Reserved
  <1>5. \A e \in mine : instances[e] = 0
    BY DEF Startable
  <1> HIDE DEF members, mine
  <1>4. k \in CallRecords /\ k.reserved = mine /\ k.todo = mine
    BY <1>2 DEF NoCall, CallRecords
  <1> HIDE DEF k
  <1> QED
    BY <1>1, <1>2, <1>3, <1>4, <1>5, StarterClaims DEF StartGroup, StartReserves

\* A start takes the next entry, is done with one, or turns back.
LEMMA StarterMoves ==
  ASSUME Inv, NEW c \in Callers, pc[c] \in {"start", "launch", "gate"},
         pc' \in [Callers -> Pcs], call' \in [Callers -> CallRecords], Others(c),
         pc'[c] \in {"start", "launch", "gate", "rollback"},
         pc'[c] \in {"launch", "gate"} => call'[c].entry \in call'[c].todo,
         pc'[c] \in {"start", "rollback"} => call'[c].entry = None,
         call'[c].reserved = call[c].reserved,
         starting' \subseteq starting, UNCHANGED <<regVars, removing>>,
         status' \in [Entries -> Statuses], instances' \in [Entries -> Nat],
         torn' \subseteq Entries
  PROVE  Inv'
  <1>1. c \in Starters
    BY DEF Inv, Shape, CallShape
  <1>2. TypeOK'
    BY DEF Inv, TypeOK
  <1>3. CallShape(c)'
    BY <1>1 DEF CallShape
  <1>4. Shape'
    BY <1>3, ShapeFrame DEF Inv
  <1>5. FlagsHeld'
    BY FlagsFrame DEF Inv
  <1> QED
    BY <1>2, <1>4, <1>5 DEF Inv

\* Done with e, or turned back over it.
LEMMA StarterOutcome ==
  ASSUME Inv, NEW c \in Callers, pc[c] \in {"start", "launch", "gate"},
         NEW e \in Entries, Started(c, e) \/ Failed(c),
         starting' \subseteq starting, UNCHANGED <<regVars, removing>>,
         status' \in [Entries -> Statuses], instances' \in [Entries -> Nat],
         torn' \subseteq Entries
  PROVE  Inv'
  <1>1. /\ pc' \in [Callers -> Pcs] /\ call' \in [Callers -> CallRecords]
        /\ pc'[c] \in {"start", "rollback"} /\ call'[c].entry = None
        /\ call'[c].reserved = call[c].reserved /\ Others(c)
    BY StartedMove, FailedMove DEF Inv
  <1> QED
    BY <1>1, StarterMoves

LEMMA RefuseEntryKeeps ==
  ASSUME Inv, NEW c \in Callers, RefuseEntry(c)
  PROVE  Inv'
  <1>1. PICK e \in FirstLevel(call[c]) :
          IF Gone(e)
          THEN Failed(c) /\ UNCHANGED <<starting, status>>
          ELSE /\ starting' = starting \ {e}
               /\ status' = [status EXCEPT ![e] = "Stopped"]
               /\ Started(c, e) \/ Failed(c)
    BY DEF RefuseEntry
  <1>2. e \in Entries
    BY DEF FirstLevel, Inv, TypeOK, CallRecords
  <1>3. starting' \subseteq starting /\ (Started(c, e) \/ Failed(c))
    BY <1>1
  <1>4. status' \in [Entries -> Statuses]
    BY <1>1 DEF Inv, TypeOK, Statuses
  <1>5. pc[c] = "start" /\ UNCHANGED <<regVars, removing, instances, torn>>
    BY DEF RefuseEntry
  <1>6. instances' \in [Entries -> Nat] /\ torn' \subseteq Entries
    BY <1>5 DEF Inv, TypeOK
  <1> QED
    BY <1>2, <1>3, <1>4, <1>5, <1>6, StarterOutcome

LEMMA StartEntryKeeps ==
  ASSUME Inv, NEW c \in Callers, StartEntry(c)
  PROVE  Inv'
  <1>1. PICK e \in FirstLevel(call[c]) :
          /\ status' = [status EXCEPT ![e] = "Starting"] /\ torn' = torn \ {e}
          /\ Begin(c, "launch", [call[c] EXCEPT !.entry = e])
    BY DEF StartEntry
  <1> DEFINE k == [call[c] EXCEPT !.entry = e]
  <1>2. e \in Entries /\ e \in call[c].todo /\ call[c] \in CallRecords
    BY DEF FirstLevel, Inv, TypeOK, CallRecords
  <1>3. /\ k \in CallRecords /\ k.entry = e /\ k.todo = call[c].todo
        /\ k.reserved = call[c].reserved
    BY <1>2 DEF CallRecords
  <1>4. Begin(c, "launch", k)
    BY <1>1
  <1> HIDE DEF k
  <1>5. /\ pc' \in [Callers -> Pcs] /\ call' \in [Callers -> CallRecords]
        /\ pc'[c] = "launch" /\ call'[c] = k /\ Others(c)
    BY <1>3, <1>4, BeginMove DEF Inv, Pcs
  <1>6. status' \in [Entries -> Statuses] /\ torn' \subseteq Entries
    BY <1>1 DEF Inv, TypeOK, Statuses
  <1>7. pc[c] = "start" /\ UNCHANGED <<regVars, flagVars, instances>>
    BY DEF StartEntry
  <1>8. instances' \in [Entries -> Nat]
    BY <1>7 DEF Inv, TypeOK
  <1> QED
    BY <1>2, <1>3, <1>5, <1>6, <1>7, <1>8, StarterMoves

\* What a call is launching is an entry it has yet to start.
LEMMA Launching ==
  ASSUME Inv, NEW c \in Callers, pc[c] \in {"launch", "gate"}
  PROVE  call[c].entry \in Entries /\ call[c].entry \in call[c].todo /\ c \in Starters
  BY DEF Inv, TypeOK, Shape, CallShape, CallRecords

LEMMA LaunchKeeps ==
  ASSUME Inv, NEW c \in Callers, Launch(c)
  PROVE  Inv'
  <1> DEFINE e == call[c].entry
  <1>1. e \in Entries
    BY Launching DEF Launch
  <1>2. /\ status' = [status EXCEPT ![e] = "Running"]
        /\ instances' = [instances EXCEPT ![e] = @ + 1]
        /\ starting' = starting \ {e} /\ (Started(c, e) \/ Failed(c))
        /\ pc[c] = "launch" /\ UNCHANGED <<regVars, removing, torn>>
    BY DEF Launch
  <1> HIDE DEF e
  <1>3. status' \in [Entries -> Statuses] /\ torn' \subseteq Entries
    BY <1>2 DEF Inv, TypeOK, Statuses
  <1>4. instances' \in [Entries -> Nat]
    BY <1>1, <1>2 DEF Inv, TypeOK
  <1> QED
    BY <1>1, <1>2, <1>3, <1>4, StarterOutcome

LEMMA LaunchGateKeeps ==
  ASSUME Inv, NEW c \in Callers, LaunchGate(c)
  PROVE  Inv'
  <1> DEFINE e == call[c].entry
  <1>1. e \in Entries /\ e \in call[c].todo
    BY Launching DEF LaunchGate
  <1>2. /\ pc' \in [Callers -> Pcs] /\ call' \in [Callers -> CallRecords]
        /\ pc'[c] = "gate" /\ call'[c] = call[c] /\ Others(c)
    BY GotoMove DEF Inv, LaunchGate, Pcs
  <1>3. /\ status' = [status EXCEPT ![e] = "Running"] /\ pc[c] = "launch"
        /\ UNCHANGED <<regVars, flagVars, instances, torn>>
    BY DEF LaunchGate
  <1>4. /\ status' \in [Entries -> Statuses] /\ torn' \subseteq Entries
        /\ instances' \in [Entries -> Nat]
    BY <1>3 DEF Inv, TypeOK, Statuses
  <1> QED
    BY <1>1, <1>2, <1>3, <1>4, StarterMoves

LEMMA EndGateKeeps ==
  ASSUME Inv, NEW c \in Callers, EndGate(c)
  PROVE  Inv'
  <1> DEFINE e == call[c].entry
  <1>1. e \in Entries
    BY Launching DEF EndGate
  <1>2. /\ starting' = starting \ {e} /\ (Started(c, e) \/ Failed(c))
        /\ \/ status' = [status EXCEPT ![e] = "Succeeded"]
           \/ status' = [status EXCEPT ![e] = "Crashed"]
        /\ pc[c] = "gate" /\ UNCHANGED <<regVars, removing, instances, torn>>
    BY DEF EndGate
  <1> HIDE DEF e
  <1>3. /\ status' \in [Entries -> Statuses] /\ torn' \subseteq Entries
        /\ instances' \in [Entries -> Nat]
    BY <1>2 DEF Inv, TypeOK, Statuses
  <1> QED
    BY <1>1, <1>2, <1>3, StarterOutcome

LEMMA FinishStartKeeps ==
  ASSUME Inv, NEW c \in Callers, FinishStart(c)
  PROVE  Inv'
  <1>1. c \in Starters /\ c \notin Stoppers
    BY Roles DEF Inv, Shape, CallShape, FinishStart
  <1>2. /\ pc' \in [Callers -> Pcs] /\ call' \in [Callers -> CallRecords]
        /\ pc'[c] = "idle" /\ call'[c] = NoCall /\ Others(c)
    BY ReturnMove DEF Inv, FinishStart
  <1>3. /\ starting' = starting \ call[c].reserved
        /\ UNCHANGED <<regVars, removing, runVars>>
    BY DEF FinishStart
  <1>4. TypeOK'
    BY <1>2, <1>3 DEF Inv, TypeOK
  <1>5. Shape'
    <2>1. CallShape(c)'
      BY <1>2 DEF CallShape, NoCall
    <2> QED
      BY <1>2, <1>3, <2>1, ShapeFrame DEF Inv
  <1>6. FlagsHeld'
    <2>1. \A d \in Stoppers : call'[d] = call[d]
      BY <1>1, <1>2, Roles DEF Others
    <2>2. \A e \in starting' : \E d \in Starters : e \in call'[d].reserved
      <3> SUFFICES ASSUME NEW e \in starting'
                   PROVE  \E d \in Starters : e \in call'[d].reserved
        OBVIOUS
      <3>1. PICK d \in Starters : e \in call[d].reserved
        BY <1>3 DEF Inv, FlagsHeld
      <3>2. d # c
        BY <1>3, <3>1
      <3> QED
        BY <1>2, <3>1, <3>2, Roles DEF Others
    <2> QED
      BY <1>3, <2>1, <2>2 DEF Inv, FlagsHeld
  <1> QED
    BY <1>4, <1>5, <1>6 DEF Inv

-----------------------------------------------------------------------------
(* The steps of a teardown. *)

\* A stopper comes in and reserves what nobody has reserved.
StopClaimed(c) ==
    /\ pc'[c] = "stop" /\ call'[c].entry = None /\ call'[c].todo = call'[c].set
    /\ Others(c) /\ UNCHANGED <<regVars, starting, runVars>>

LEMMA StopperClaims ==
  ASSUME Inv, NEW c \in Stoppers, pc[c] = "idle", NEW S \in SUBSET registered,
         ~Busy(S), NEW k \in CallRecords,
         k.entry = None, k.reserved = S, k.set = S, k.todo = S, Begin(c, "stop", k),
         removing' = removing \cup S, UNCHANGED <<regVars, starting, runVars>>
  PROVE  Inv' /\ StopClaimed(c)
  <1>1. c \in Callers /\ c \notin Starters
    BY Roles
  <1>2. /\ pc' \in [Callers -> Pcs] /\ call' \in [Callers -> CallRecords]
        /\ pc'[c] = "stop" /\ call'[c] = k /\ Others(c)
    BY <1>1, BeginMove DEF Inv, Pcs
  <1>3. TypeOK'
    BY <1>2 DEF Inv, TypeOK
  <1>4. Shape'
    <2>1. CallShape(c)'
      BY <1>2 DEF CallShape
    <2> QED
      BY <1>1, <1>2, <2>1, ShapeFrame DEF Inv
  <1>5. FlagsHeld'
    <2>1. \A d \in Starters : call'[d] = call[d]
      BY <1>1, <1>2, Roles DEF Others
    <2>2. \A d \in Stoppers : d # c => call'[d] = call[d]
      BY <1>2, Roles DEF Others
    <2>3. S \cap removing = {} /\ S \cap starting = {}
      BY DEF Busy
    <2>4. call[c].reserved = {}
      BY <1>1 DEF Inv, Shape, CallShape, NoCall
    <2>5. \A e \in removing' : \E d \in Stoppers : e \in call'[d].reserved
      BY <1>2, <2>2, <2>4 DEF Inv, FlagsHeld
    <2>6. \A d \in Stoppers : call'[d].reserved \subseteq removing'
      BY <1>2, <2>2 DEF Inv, FlagsHeld
    <2>7. \A d \in Stoppers : d # c => call'[d].reserved \cap S = {}
      BY <2>2, <2>3 DEF Inv, FlagsHeld
    <2>8. \A d, f \in Stoppers : d # f => call'[d].reserved \cap call'[f].reserved = {}
      BY <1>2, <2>2, <2>7 DEF Inv, FlagsHeld
    <2> QED
      BY <2>1, <2>3, <2>5, <2>6, <2>8 DEF Inv, FlagsHeld
  <1> QED
    BY <1>2, <1>3, <1>4, <1>5 DEF Inv, StopClaimed

LEMMA DependentsRegistered ==
  ASSUME NEW S
  PROVE  WithDependents(S) \subseteq registered
  BY DEF WithDependents

LEMMA TearDownKeeps ==
  ASSUME Inv, NEW c \in Stoppers, TearDown(c)
  PROVE  Inv' /\ StopClaimed(c)
  <1>1. PICK kind \in {"stop", "unregister"}, m \in Modes, e \in registered :
          LET S == IF m = "cascade" THEN WithDependents({e}) ELSE {e} IN
          /\ ~Busy(S)
          /\ removing' = removing \cup S
          /\ Begin(c, "stop", [NoCall EXCEPT !.kind = kind,
                                 !.target = e, !.set = S, !.reserved = S, !.todo = S])
    BY DEF TearDown
  <1> DEFINE S == IF m = "cascade" THEN WithDependents({e}) ELSE {e}
             k == [NoCall EXCEPT !.kind = kind, !.target = e, !.set = S,
                                 !.reserved = S, !.todo = S]
  <1>2. S \in SUBSET registered
    BY DependentsRegistered
  <1>3. ~Busy(S) /\ removing' = removing \cup S /\ Begin(c, "stop", k)
    BY <1>1
  <1>4. e \in Entries /\ S \in SUBSET Entries
    BY <1>2 DEF Inv, TypeOK
  <1> HIDE DEF S
  <1>5. k \in CallRecords /\ k.entry = None /\ k.reserved = S /\ k.set = S /\ k.todo = S
    BY <1>4 DEF NoCall, CallRecords
  <1> HIDE DEF k
  <1> QED
    BY <1>2, <1>3, <1>5, StopperClaims DEF TearDown

LEMMA StopGroupKeeps ==
  ASSUME Inv, NEW c \in Stoppers, StopGroup(c)
  PROVE  Inv' /\ StopClaimed(c)
  <1> DEFINE S == {e \in (Grouped \cap registered) \ Gates : ~Reserved(e)}
             k == [NoCall EXCEPT !.kind = "stopgroup", !.set = S,
                                 !.reserved = S, !.todo = S]
  <1>1. removing' = removing \cup S /\ Begin(c, "stop", k)
    BY DEF StopGroup
  <1>2. S \in SUBSET registered /\ ~Busy(S)
    BY DEF Busy, Reserved
  <1>3. S \in SUBSET Entries
    BY <1>2 DEF Inv, TypeOK
  <1> HIDE DEF S
  <1>4. k \in CallRecords /\ k.entry = None /\ k.reserved = S /\ k.set = S /\ k.todo = S
    BY <1>3 DEF NoCall, CallRecords
  <1> HIDE DEF k
  <1> QED
    BY <1>1, <1>2, <1>4, StopperClaims DEF StopGroup

LEMMA UnregisterGroupKeeps ==
  ASSUME Inv, NEW c \in Stoppers, UnregisterGroup(c)
  PROVE  Inv' /\ StopClaimed(c)
  <1> DEFINE members == Grouped \cap registered
  <1>1. PICK m \in Modes :
          LET S == IF m = "cascade" THEN WithDependents(members) ELSE members IN
          /\ ~Busy(S)
          /\ removing' = removing \cup S
          /\ Begin(c, "stop", [NoCall EXCEPT !.kind = "unregistergroup", !.set = S,
                                 !.reserved = S, !.todo = S])
    BY DEF UnregisterGroup
  <1> DEFINE S == IF m = "cascade" THEN WithDependents(members) ELSE members
             k == [NoCall EXCEPT !.kind = "unregistergroup", !.set = S,
                                 !.reserved = S, !.todo = S]
  <1>2. S \in SUBSET registered
    BY DependentsRegistered
  <1>3. ~Busy(S) /\ removing' = removing \cup S /\ Begin(c, "stop", k)
    BY <1>1
  <1>4. S \in SUBSET Entries
    BY <1>2 DEF Inv, TypeOK
  <1> HIDE DEF S
  <1>5. k \in CallRecords /\ k.entry = None /\ k.reserved = S /\ k.set = S /\ k.todo = S
    BY <1>4 DEF NoCall, CallRecords
  <1> HIDE DEF k
  <1> QED
    BY <1>2, <1>3, <1>5, StopperClaims DEF UnregisterGroup

\* A teardown or a rollback goes on, leaving its claim and its place.
LEMMA StopperMoves ==
  ASSUME Inv, NEW c \in Callers, pc[c] \in {"stop", "rollback"},
         UNCHANGED <<regVars, flagVars, instances, pc>>,
         call' \in [Callers -> CallRecords], SameClaim(c), Others(c),
         call'[c].todo \subseteq call[c].todo,
         call'[c].entry # None => call'[c].entry \in call'[c].todo,
         status' \in [Entries -> Statuses], torn' \subseteq Entries
  PROVE  Inv'
  <1>1. TypeOK'
    BY DEF Inv, TypeOK
  <1>2. CallShape(c)'
    BY DEF Inv, Shape, CallShape, SameClaim
  <1>3. Shape'
    BY <1>2, ShapeFrame DEF Inv
  <1>4. FlagsHeld'
    BY FlagsFrame DEF Inv, SameClaim
  <1> QED
    BY <1>1, <1>3, <1>4 DEF Inv

LEMMA StopNextType ==
  ASSUME TypeOK, NEW c \in Callers, NEW e \in StopNext(call[c])
  PROVE  e \in Entries /\ e \in call[c].todo
  <1>1. e \in call[c].todo
    BY DEF StopNext
  <1> QED
    BY <1>1 DEF TypeOK, CallRecords

LEMMA SkipEntryKeeps ==
  ASSUME Inv, NEW c \in Callers, SkipEntry(c)
  PROVE  Inv'
  <1>1. PICK e \in StopNext(call[c]) : call' = [call EXCEPT ![c].todo = @ \ {e}]
    BY DEF SkipEntry
  <1>2. e \in Entries
    BY StopNextType DEF Inv
  <1>3. /\ pc[c] = "stop" /\ call[c].entry = None
        /\ UNCHANGED <<regVars, flagVars, runVars, pc>>
    BY DEF SkipEntry
  <1>4. status' \in [Entries -> Statuses] /\ torn' \subseteq Entries
    BY <1>3 DEF Inv, TypeOK
  <1>5. /\ call' \in [Callers -> CallRecords] /\ call'[c].entry = call[c].entry
        /\ call'[c].todo = call[c].todo \ {e} /\ SameClaim(c) /\ Others(c)
    BY <1>1, <1>2, <1>3, SkipMove DEF Inv
  <1> QED
    BY <1>3, <1>4, <1>5, StopperMoves

LEMMA BeginStopKeeps ==
  ASSUME Inv, NEW c \in Callers, BeginStop(c)
  PROVE  Inv'
  <1>1. PICK e \in StopNext(call[c]) :
          /\ torn' = IF call[c].kind # "stopgroup" /\ instances[e] > 0
                     THEN torn \cup {e} ELSE torn
          /\ status' = IF status[e] = "Succeeded" THEN status
                       ELSE [status EXCEPT ![e] = "Stopping"]
          /\ call' = [call EXCEPT ![c].entry = e]
    BY DEF BeginStop
  <1>2. e \in Entries /\ e \in call[c].todo
    BY StopNextType DEF Inv
  <1>3. pc[c] \in {"stop", "rollback"} /\ UNCHANGED <<regVars, flagVars, instances, pc>>
    BY DEF BeginStop
  <1>4. status' \in [Entries -> Statuses] /\ torn' \subseteq Entries
    BY <1>1, <1>2 DEF Inv, TypeOK, Statuses
  <1>5. /\ call' \in [Callers -> CallRecords] /\ call'[c].entry = e
        /\ call'[c].todo = call[c].todo /\ SameClaim(c) /\ Others(c)
    BY <1>1, <1>2, <1>3, TakeMove DEF Inv
  <1> QED
    BY <1>2, <1>3, <1>4, <1>5, StopperMoves

LEMMA EndStopKeeps ==
  ASSUME Inv, NEW c \in Callers, EndStop(c) \/ GiveUpStop(c)
  PROVE  Inv'
  <1> DEFINE e == call[c].entry
  <1>1. /\ pc[c] \in {"stop", "rollback"}
        /\ UNCHANGED <<regVars, flagVars, instances, torn, pc>>
        /\ call' = [call EXCEPT ![c].entry = None, ![c].todo = @ \ {e}]
        /\ \/ status' = status
           \/ status' = [status EXCEPT ![e] = "Stopped"]
    BY DEF EndStop, GiveUpStop
  <1> HIDE DEF e
  <1>2. status' \in [Entries -> Statuses] /\ torn' \subseteq Entries
    BY <1>1 DEF Inv, TypeOK, Statuses
  <1>3. /\ call' \in [Callers -> CallRecords] /\ call'[c].entry = None
        /\ call'[c].todo = call[c].todo \ {e} /\ SameClaim(c) /\ Others(c)
    BY <1>1, DoneMove DEF Inv
  <1> QED
    BY <1>1, <1>2, <1>3, StopperMoves

LEMMA RemoveKeeps ==
  ASSUME Inv, NEW c \in Callers, Remove(c)
  PROVE  Inv'
  <1>1. /\ pc' \in [Callers -> Pcs] /\ call' \in [Callers -> CallRecords]
        /\ pc'[c] = "release" /\ call'[c] = call[c] /\ Others(c)
    BY GotoMove DEF Inv, Remove, Pcs
  <1> DEFINE S == call[c].set
  <1>2. /\ c \in Stoppers /\ S \subseteq registered /\ S = call[c].reserved
        /\ S \subseteq removing
    BY DEF Inv, Shape, CallShape, FlagsHeld, Remove
  <1>3. /\ registered' = registered \ S /\ removed' = removed \cup S
        /\ status' = [e \in Entries |-> IF e \in S THEN "Registered" ELSE status[e]]
        /\ torn' = torn \ S
        /\ UNCHANGED <<flagVars, instances, call>>
    BY DEF Remove
  <1> HIDE DEF S
  <1>4. TypeOK'
    <2>1. status' \in [Entries -> Statuses]
      BY <1>3 DEF Inv, TypeOK, Statuses
    <2> QED
      BY <1>1, <1>2, <1>3, <2>1 DEF Inv, TypeOK
  <1>5. Shape'
    <2>1. CallShape(c)'
      BY <1>1, <1>2 DEF CallShape, S
    <2>2. ASSUME NEW d \in Callers, d # c
          PROVE  CallShape(d)'
      <3>1. pc'[d] = pc[d] /\ call'[d] = call[d] /\ CallShape(d)
        BY <1>1, <2>2 DEF Others, Inv, Shape
      <3>2. pc[d] = "stop" => call[d].set \cap S = {}
        BY <1>2, <2>2, <3>1 DEF Inv, FlagsHeld, CallShape
      <3>3. registered' \cup removed' = registered \cup removed
        BY <1>2, <1>3
      <3> QED
        BY <1>3, <3>1, <3>2, <3>3 DEF CallShape
    <2> QED
      BY <1>1, <2>1, <2>2 DEF Inv, Shape, Others
  <1>6. FlagsHeld'
    BY <1>2, <1>3 DEF Inv, FlagsHeld
  <1> QED
    BY <1>4, <1>5, <1>6 DEF Inv

LEMMA KeepRegisteredKeeps ==
  ASSUME Inv, NEW c \in Callers, KeepRegistered(c)
  PROVE  Inv'
  <1>1. /\ pc' \in [Callers -> Pcs] /\ call' \in [Callers -> CallRecords]
        /\ pc'[c] = "release" /\ call'[c] = call[c] /\ Others(c)
    BY GotoMove DEF Inv, KeepRegistered, Pcs
  <1>2. pc[c] = "stop" /\ UNCHANGED <<regVars, flagVars, runVars, call>>
    BY DEF KeepRegistered
  <1>3. CallShape(c)'
    BY <1>1, <1>2 DEF Inv, Shape, CallShape
  <1>4. TypeOK' /\ Shape' /\ FlagsHeld'
    BY <1>1, <1>2, <1>3, ShapeFrame, FlagsFrame DEF Inv, TypeOK
  <1> QED
    BY <1>4 DEF Inv

LEMMA ReleaseKeeps ==
  ASSUME Inv, NEW c \in Callers, Release(c)
  PROVE  Inv'
  <1>1. /\ c \in Stoppers /\ c \notin Starters
    BY Roles DEF Inv, Shape, CallShape, Release
  <1>2. /\ pc' \in [Callers -> Pcs] /\ call' \in [Callers -> CallRecords]
        /\ pc'[c] = "idle" /\ call'[c] = NoCall /\ Others(c)
    BY ReturnMove DEF Inv, Release
  <1>3. /\ removing' = removing \ call[c].reserved
        /\ UNCHANGED <<regVars, starting, runVars>>
    BY DEF Release
  <1>4. TypeOK'
    BY <1>2, <1>3 DEF Inv, TypeOK
  <1>5. Shape'
    <2>1. CallShape(c)'
      BY <1>2 DEF CallShape, NoCall
    <2> QED
      BY <1>2, <1>3, <2>1, ShapeFrame DEF Inv
  <1>6. FlagsHeld'
    <2>1. \A d \in Starters : call'[d] = call[d]
      BY <1>1, <1>2, Roles DEF Others
    <2>2. \A d \in Stoppers : d # c => call'[d] = call[d]
      BY <1>2, Roles DEF Others
    <2>3. call'[c].reserved = {}
      BY <1>2 DEF NoCall
    <2>4. \A e \in removing' : \E d \in Stoppers : e \in call'[d].reserved
      BY <1>1, <1>3, <2>2 DEF Inv, FlagsHeld
    <2>5. \A d \in Stoppers : call'[d].reserved \subseteq removing'
      BY <1>1, <1>3, <2>2, <2>3 DEF Inv, FlagsHeld
    <2>6. \A d, f \in Stoppers : d # f => call'[d].reserved \cap call'[f].reserved = {}
      BY <2>2, <2>3 DEF Inv, FlagsHeld
    <2> QED
      BY <1>3, <2>1, <2>4, <2>5, <2>6 DEF Inv, FlagsHeld
  <1> QED
    BY <1>4, <1>5, <1>6 DEF Inv

LEMMA ExitKeeps ==
  ASSUME Inv, NEW e \in Entries, Exit(e)
  PROVE  Inv'
  <1>1. /\ instances' = [instances EXCEPT ![e] = @ - 1] /\ instances[e] > 0
        /\ torn' = torn \ {e} /\ UNCHANGED <<regVars, flagVars, callVars>>
    BY DEF Exit
  <1>2. \E s \in Statuses : status' \in {status, [status EXCEPT ![e] = s]}
    BY DEF Exit, Statuses
  <1>3. TypeOK'
    BY <1>1, <1>2 DEF Inv, TypeOK
  <1>4. Shape' /\ FlagsHeld'
    BY <1>1 DEF Inv, Shape, CallShape, FlagsHeld
  <1> QED
    BY <1>3, <1>4 DEF Inv

LEMMA InvNext == Inv /\ [Next]_vars => Inv'
  <1> SUFFICES ASSUME Inv, [Next]_vars PROVE Inv'
    OBVIOUS
  <1>1. ASSUME NEW c \in Callers, Claim(c) PROVE Inv'
    BY <1>1, RegisterKeeps, StartServiceKeeps, StartGroupKeeps, TearDownKeeps,
       StopGroupKeeps, UnregisterGroupKeeps DEF Claim
  <1>2. ASSUME NEW c \in Callers, Proceed(c) PROVE Inv'
    BY <1>2, CommitRegisterKeeps, RefuseEntryKeeps, StartEntryKeeps, LaunchKeeps,
       LaunchGateKeeps, EndGateKeeps, FinishStartKeeps, SkipEntryKeeps, BeginStopKeeps,
       EndStopKeeps, RemoveKeeps, KeepRegisteredKeeps, ReleaseKeeps DEF Proceed
  <1>3. CASE UNCHANGED vars
    BY <1>3 DEF vars, Inv, TypeOK, Shape, CallShape, FlagsHeld
  <1> QED
    BY <1>1, <1>2, <1>3, ExitKeeps DEF Next

LEMMA InvAlways == Spec => []Inv
  BY InvInit, InvNext, PTL DEF Spec

\* Every variable keeps its type, and no entry is both registered and removed,
\* however registrations, starts, stops and removals overlap: of
\* src/register.go:194-265 and src/membership.go:635-654.
THEOREM MembershipTypeCorrect == Spec => []TypeOK
  <1>1. Inv => TypeOK
    BY DEF Inv
  <1> QED
    BY <1>1, InvAlways, PTL

-----------------------------------------------------------------------------
(* One starter: what it has yet to start stays its own, and what is stopped *)
(* stays down.                                                             *)

SingleStarter == \A a, b \in Starters : a = b

\* What a start has yet to do is still reserved and has no instance.
StartsHeld ==
    \A c \in Starters : pc[c] \in {"start", "launch", "gate"} =>
      /\ call[c].todo \subseteq starting
      /\ \A e \in call[c].todo : instances[e] = 0

\* TeardownHolds, and that what is being stopped is down already.
StaysDown ==
    /\ TeardownHolds
    /\ \A c \in Callers : pc[c] \in {"stop", "rollback"} /\ call[c].entry # None =>
         status[call[c].entry] \notin Active

Inv2 == Inv /\ StartsHeld /\ OneInstance /\ StaysDown

\* The entries that c is stopping or has stopped.
Held(c) == Down(c) \cup (IF pc[c] \in {"stop", "rollback"} THEN {call[c].entry} \ {None} ELSE {})

LEMMA StaysDownHeld ==
  StaysDown <=> /\ \A c \in Callers : \A e \in Held(c) : status[e] \notin Active
                /\ \A e \in removed : status[e] \notin Active
  BY DEF StaysDown, TeardownHolds, Held

LEMMA HeldType ==
  ASSUME Inv, NEW c \in Callers
  PROVE  Held(c) \subseteq Entries
  BY DEF Held, Down, Inv, TypeOK, CallRecords

\* What a teardown holds it has reserved.
LEMMA HeldReserved ==
  ASSUME Inv, NEW c \in Stoppers
  PROVE  Held(c) \subseteq removing
  <1>1. c \in Callers /\ c \notin Starters
    BY Roles
  <1>2. CallShape(c) /\ call[c].reserved \subseteq removing
    BY <1>1 DEF Inv, Shape, FlagsHeld
  <1>3. Down(c) \subseteq removing
    BY <1>1, <1>2 DEF Down, CallShape
  <1>4. pc[c] \in {"stop", "rollback"} /\ call[c].entry # None => call[c].entry \in removing
    BY <1>1, <1>2 DEF CallShape
  <1> QED
    BY <1>3, <1>4 DEF Held

\* Registrars and a starter that has not turned back hold nothing.
LEMMA HeldElsewhere ==
  ASSUME Inv, NEW c \in Callers, c \notin Stoppers, pc[c] # "rollback"
  PROVE  Held(c) = {}
  BY DEF Inv, Shape, CallShape, Held, Down

\* A step of c that makes nothing active, or only what c has reserved to start.
LEMMA StaysDownFrame ==
  ASSUME SingleStarter, Inv2, Inv', NEW c \in Callers, Others(c),
         \A e \in removed' \ removed : status'[e] \notin Active,
         \A e \in Entries : status'[e] \in Active =>
           status[e] \in Active \/ (e \in starting /\ c \in Starters),
         \A e \in Held(c)' : status'[e] \notin Active
  PROVE  StaysDown'
  <1>1. ASSUME NEW d \in Callers, d # c, NEW e \in Held(d)'
        PROVE  status'[e] \notin Active
    <2>1. Held(d)' = Held(d)
      BY <1>1 DEF Others, Held, Down
    <2>2. e \in Entries /\ status[e] \notin Active
      BY <1>1, <2>1, HeldType, StaysDownHeld DEF Inv2
    <2>3. ASSUME c \in Starters
          PROVE  e \notin starting
      <3>1. d \notin Starters
        BY <1>1, <2>3 DEF SingleStarter
      <3>2. d \in Stoppers
        BY <1>1, <2>1, <3>1, HeldElsewhere DEF Inv2, Inv, Shape, CallShape
      <3> QED
        BY <2>1, <1>1, <3>2, HeldReserved DEF Inv2, Inv, FlagsHeld
    <2> QED
      BY <2>2, <2>3
  <1>2. ASSUME NEW e \in removed'
        PROVE  status'[e] \notin Active
    <2>1. CASE e \in removed
      <3>1. e \in Entries /\ status[e] \notin Active /\ e \notin starting
        BY <2>1 DEF Inv2, Inv, TypeOK, StaysDown, TeardownHolds, FlagsHeld
      <3> QED
        BY <3>1
    <2> QED
      BY <2>1
  <1>3. \A d \in Callers : \A e \in Held(d)' : status'[e] \notin Active
    BY <1>1
  <1> QED
    BY <1>2, <1>3 DEF StaysDown, TeardownHolds, Held

\* A step that starts nothing.
LEMMA StartsFrame ==
  ASSUME Inv2, starting \subseteq starting',
         \A e \in Entries : instances'[e] \in {instances[e], instances[e] - 1}
                             /\ (instances[e] = 0 => instances'[e] = 0),
         \A d \in Starters : pc'[d] \in {"start", "launch", "gate"} =>
           pc[d] \in {"start", "launch", "gate"} /\ call'[d].todo \subseteq call[d].todo
  PROVE  StartsHeld' /\ OneInstance'
  <1>1. \A d \in Starters : call[d].todo \subseteq Entries
    BY Roles DEF Inv2, Inv, TypeOK, CallRecords
  <1>2. StartsHeld'
    BY <1>1 DEF Inv2, StartsHeld
  <1>3. OneInstance'
    BY DEF Inv2, OneInstance, Inv, TypeOK
  <1> QED
    BY <1>2, <1>3

LEMMA Inv2Init == Init => Inv2
  <1> SUFFICES ASSUME Init PROVE Inv2
    OBVIOUS
  <1>1. Inv
    BY InvInit
  <1>2. \A c \in Callers : pc[c] = "idle"
    BY DEF Init
  <1>3. StartsHeld /\ OneInstance /\ StaysDown
    BY <1>2, Roles DEF Init, StartsHeld, OneInstance, StaysDown, TeardownHolds, Down
  <1> QED
    BY <1>1, <1>3 DEF Inv2

-----------------------------------------------------------------------------
(* The claims. *)

LEMMA RegistrarsStayDown ==
  ASSUME SingleStarter, Inv2, NEW c \in Callers,
         (c \in Registrars /\ Register(c)) \/ CommitRegister(c)
  PROVE  Inv2'
  <1>1. Inv' /\ Others(c) /\ pc'[c] \in {"commit", "idle"}
    BY RegisterKeeps, CommitRegisterKeeps, ReturnMove DEF Inv2, Inv, CommitRegister
  <1>2. UNCHANGED <<removed, flagVars, runVars>>
    BY DEF Register, CommitRegister
  <1>3. c \notin Starters /\ Held(c)' = {}
    BY <1>1, Roles DEF Inv2, Inv, Shape, CallShape, CommitRegister, Held, Down
  <1>4. StaysDown'
    BY <1>1, <1>2, <1>3, StaysDownFrame
  <1>5. StartsHeld' /\ OneInstance'
    BY <1>1, <1>2, <1>3, Roles, StartsFrame DEF Others
  <1> QED
    BY <1>1, <1>4, <1>5 DEF Inv2

LEMMA StarterClaimsStayDown ==
  ASSUME SingleStarter, Inv2, NEW c \in Starters, StartService(c) \/ StartGroup(c)
  PROVE  Inv2'
  <1>1. c \in Callers
    BY Roles
  <1>2. PICK S \in SUBSET Entries : Inv' /\ StartReserves(c, S)
    BY StartServiceKeeps, StartGroupKeeps DEF Inv2
  <1>3. StartsHeld'
    BY <1>2 DEF StartsHeld, SingleStarter, StartReserves, StartClaimed
  <1>4. OneInstance'
    BY <1>2 DEF Inv2, OneInstance, StartReserves
  <1>5. Held(c)' = {}
    BY <1>2 DEF Held, Down, StartReserves, StartClaimed
  <1>6. StaysDown'
    BY <1>1, <1>2, <1>5, StaysDownFrame DEF StartReserves, StartClaimed
  <1> QED
    BY <1>2, <1>3, <1>4, <1>6 DEF Inv2

LEMMA StopperClaimsStayDown ==
  ASSUME SingleStarter, Inv2, NEW c \in Stoppers, TearDown(c) \/ StopGroup(c) \/ UnregisterGroup(c)
  PROVE  Inv2'
  <1>1. c \in Callers /\ c \notin Starters
    BY Roles
  <1>2. Inv' /\ StopClaimed(c)
    BY TearDownKeeps, StopGroupKeeps, UnregisterGroupKeeps DEF Inv2
  <1>3. Held(c)' = {}
    BY <1>2 DEF Held, Down, StopClaimed
  <1>4. StaysDown'
    BY <1>1, <1>2, <1>3, StaysDownFrame DEF StopClaimed
  <1>5. StartsHeld' /\ OneInstance'
    BY <1>1, <1>2, Roles, StartsFrame DEF StopClaimed, Others
  <1> QED
    BY <1>2, <1>4, <1>5 DEF Inv2

-----------------------------------------------------------------------------
(* The steps of the starter. *)

LEMMA OutcomeMove ==
  ASSUME TypeOK, NEW c \in Callers, NEW e \in Entries, Started(c, e) \/ Failed(c)
  PROVE  /\ Held(c)' = {} /\ Others(c) /\ pc'[c] \in {"start", "rollback"}
         /\ pc'[c] = "start" => call'[c].todo = call[c].todo \ {e}
  <1>1. CASE Started(c, e)
    BY <1>1, StartedMove DEF Held, Down
  <1>2. CASE Failed(c)
    BY <1>2, FailedMove DEF Held, Down
  <1> QED
    BY <1>1, <1>2

\* The starter is the only one, so that its own record is all there is to see.
LEMMA StarterStaysDown ==
  ASSUME SingleStarter, Inv2, Inv', NEW c \in Starters, Others(c), UNCHANGED removed,
         pc[c] \in {"start", "launch", "gate"}, NEW e \in call[c].todo,
         \A x \in Entries : x # e => status'[x] = status[x],
         Held(c)' = {},
         pc'[c] \in {"start", "launch", "gate"} =>
           /\ call'[c].todo \subseteq call[c].todo
           /\ call'[c].todo \subseteq starting'
           /\ e \in call'[c].todo => instances'[e] = 0,
         \A x \in Entries : x # e => instances'[x] = instances[x],
         instances'[e] <= 1
  PROVE  Inv2'
  <1>1. c \in Callers /\ call[c].todo \subseteq Entries /\ e \in starting
    BY Roles DEF Inv2, Inv, TypeOK, CallRecords, StartsHeld
  <1>2. StaysDown'
    BY <1>1, StaysDownFrame
  <1>3. OneInstance'
    BY DEF Inv2, OneInstance
  <1>4. pc'[c] \in {"start", "launch", "gate"} => \A x \in call'[c].todo : instances'[x] = 0
    BY <1>1 DEF Inv2, StartsHeld
  <1>5. StartsHeld'
    BY <1>4 DEF SingleStarter, StartsHeld
  <1> QED
    BY <1>2, <1>3, <1>5 DEF Inv2

LEMMA RefuseEntryStaysDown ==
  ASSUME SingleStarter, Inv2, NEW c \in Callers, RefuseEntry(c)
  PROVE  Inv2'
  <1>1. PICK e \in FirstLevel(call[c]) :
          IF Gone(e)
          THEN Failed(c) /\ UNCHANGED <<starting, status>>
          ELSE /\ starting' = starting \ {e}
               /\ status' = [status EXCEPT ![e] = "Stopped"]
               /\ Started(c, e) \/ Failed(c)
    BY DEF RefuseEntry
  <1>2. e \in Entries /\ e \in call[c].todo
    BY DEF FirstLevel, Inv2, Inv, TypeOK, CallRecords
  <1>3. pc[c] = "start" /\ c \in Starters /\ UNCHANGED <<regVars, instances>>
    BY DEF RefuseEntry, Inv2, Inv, Shape, CallShape
  <1>4. call[c].todo \subseteq starting /\ instances[e] = 0
    BY <1>2, <1>3 DEF Inv2, StartsHeld
  <1>5. /\ Held(c)' = {} /\ Others(c) /\ pc'[c] \in {"start", "rollback"}
        /\ pc'[c] = "start" => call'[c].todo = call[c].todo \ {e}
    BY <1>1, <1>2, OutcomeMove DEF Inv2, Inv
  <1>6. Inv'
    BY RefuseEntryKeeps DEF Inv2
  <1>7. \A x \in Entries : x # e => status'[x] = status[x]
    BY <1>1 DEF Inv2, Inv, TypeOK
  <1>8. starting \ {e} \subseteq starting'
    BY <1>1
  <1> QED
    BY <1>2, <1>3, <1>4, <1>5, <1>6, <1>7, <1>8, StarterStaysDown

LEMMA StartEntryStaysDown ==
  ASSUME SingleStarter, Inv2, NEW c \in Callers, StartEntry(c)
  PROVE  Inv2'
  <1>1. PICK e \in FirstLevel(call[c]) :
          /\ status' = [status EXCEPT ![e] = "Starting"] /\ torn' = torn \ {e}
          /\ Begin(c, "launch", [call[c] EXCEPT !.entry = e])
    BY DEF StartEntry
  <1> DEFINE k == [call[c] EXCEPT !.entry = e]
  <1>2. e \in Entries /\ e \in call[c].todo /\ call[c] \in CallRecords
    BY DEF FirstLevel, Inv2, Inv, TypeOK, CallRecords
  <1>3. pc[c] = "start" /\ c \in Starters /\ UNCHANGED <<regVars, flagVars, instances>>
    BY DEF StartEntry, Inv2, Inv, Shape, CallShape
  <1>4. call[c].todo \subseteq starting /\ instances[e] = 0
    BY <1>2, <1>3 DEF Inv2, StartsHeld
  <1>5. k \in CallRecords /\ k.todo = call[c].todo /\ Begin(c, "launch", k)
    BY <1>1, <1>2 DEF CallRecords
  <1> HIDE DEF k
  <1>6. pc'[c] = "launch" /\ call'[c] = k /\ Others(c)
    BY <1>5, BeginMove DEF Inv2, Inv, Pcs
  <1>7. Held(c)' = {}
    BY <1>6 DEF Held, Down
  <1>8. Inv'
    BY StartEntryKeeps DEF Inv2
  <1>9. \A x \in Entries : x # e => status'[x] = status[x]
    BY <1>1 DEF Inv2, Inv, TypeOK
  <1> QED
    BY <1>2, <1>3, <1>4, <1>5, <1>6, <1>7, <1>8, <1>9, StarterStaysDown

LEMMA LaunchStaysDown ==
  ASSUME SingleStarter, Inv2, NEW c \in Callers, Launch(c) \/ EndGate(c)
  PROVE  Inv2'
  <1> DEFINE e == call[c].entry
  <1>1. e \in Entries /\ e \in call[c].todo /\ c \in Starters
    BY Launching DEF Launch, EndGate, Inv2
  <1>2. pc[c] \in {"launch", "gate"} /\ UNCHANGED regVars
    BY DEF Launch, EndGate
  <1>3. call[c].todo \subseteq starting /\ instances[e] = 0
    BY <1>1, <1>2 DEF Inv2, StartsHeld
  <1>4. /\ starting' = starting \ {e}
        /\ \E s \in Statuses : status' = [status EXCEPT ![e] = s]
        /\ instances' \in {instances, [instances EXCEPT ![e] = @ + 1]}
        /\ Started(c, e) \/ Failed(c)
    BY DEF Launch, EndGate, Statuses
  <1> HIDE DEF e
  <1>5. /\ Held(c)' = {} /\ Others(c) /\ pc'[c] \in {"start", "rollback"}
        /\ pc'[c] = "start" => call'[c].todo = call[c].todo \ {e}
    BY <1>1, <1>4, OutcomeMove DEF Inv2, Inv
  <1>6. Inv'
    BY LaunchKeeps, EndGateKeeps DEF Inv2
  <1>7. \A x \in Entries : x # e => status'[x] = status[x] /\ instances'[x] = instances[x]
    BY <1>4 DEF Inv2, Inv, TypeOK
  <1>8. instances'[e] <= 1
    BY <1>1, <1>3, <1>4 DEF Inv2, Inv, TypeOK
  <1> QED
    BY <1>1, <1>2, <1>3, <1>4, <1>5, <1>6, <1>7, <1>8, StarterStaysDown

LEMMA LaunchGateStaysDown ==
  ASSUME SingleStarter, Inv2, NEW c \in Callers, LaunchGate(c)
  PROVE  Inv2'
  <1> DEFINE e == call[c].entry
  <1>1. e \in Entries /\ e \in call[c].todo /\ c \in Starters
    BY Launching DEF LaunchGate, Inv2
  <1>2. /\ pc[c] = "launch" /\ UNCHANGED <<regVars, flagVars, instances>>
        /\ status' = [status EXCEPT ![e] = "Running"]
    BY DEF LaunchGate
  <1>3. call[c].todo \subseteq starting /\ instances[e] = 0
    BY <1>1, <1>2 DEF Inv2, StartsHeld
  <1>4. pc'[c] = "gate" /\ call'[c] = call[c] /\ Others(c)
    BY GotoMove DEF Inv2, Inv, LaunchGate, Pcs
  <1>5. Held(c)' = {}
    BY <1>4 DEF Held, Down
  <1>6. Inv'
    BY LaunchGateKeeps DEF Inv2
  <1>7. \A x \in Entries : x # e => status'[x] = status[x]
    BY <1>2 DEF Inv2, Inv, TypeOK
  <1> HIDE DEF e
  <1> QED
    BY <1>1, <1>2, <1>3, <1>4, <1>5, <1>6, <1>7, StarterStaysDown

LEMMA FinishStartStaysDown ==
  ASSUME SingleStarter, Inv2, NEW c \in Callers, FinishStart(c)
  PROVE  Inv2'
  <1>1. pc'[c] = "idle" /\ Others(c)
    BY ReturnMove DEF Inv2, Inv, FinishStart
  <1>2. c \in Starters /\ UNCHANGED <<regVars, runVars>>
    BY DEF FinishStart, Inv2, Inv, Shape, CallShape
  <1>3. Inv'
    BY FinishStartKeeps DEF Inv2
  <1>4. Held(c)' = {}
    BY <1>1 DEF Held, Down
  <1>5. StaysDown'
    BY <1>1, <1>2, <1>3, <1>4, StaysDownFrame
  <1>6. StartsHeld'
    BY <1>1, <1>2 DEF StartsHeld, SingleStarter
  <1>7. OneInstance'
    BY <1>2 DEF Inv2, OneInstance
  <1> QED
    BY <1>3, <1>5, <1>6, <1>7 DEF Inv2

-----------------------------------------------------------------------------
(* The steps of a teardown or of a rollback. *)

LEMMA StopperStaysDown ==
  ASSUME SingleStarter, Inv2, Inv', NEW c \in Callers, Others(c),
         UNCHANGED <<starting, instances>>,
         pc'[c] \notin {"start", "launch", "gate"},
         \A e \in Entries : status'[e] \in Active => status[e] \in Active,
         \A e \in removed' \ removed : status'[e] \notin Active,
         \A e \in Held(c)' : status'[e] \notin Active
  PROVE  Inv2'
  <1>1. StaysDown'
    BY StaysDownFrame
  <1>2. StartsHeld' /\ OneInstance'
    BY Roles, StartsFrame DEF Others
  <1> QED
    BY <1>1, <1>2 DEF Inv2

LEMMA SkipEntryStaysDown ==
  ASSUME SingleStarter, Inv2, NEW c \in Callers, SkipEntry(c)
  PROVE  Inv2'
  <1>1. PICK e \in StopNext(call[c]) :
          status[e] = "Stopping" /\ call' = [call EXCEPT ![c].todo = @ \ {e}]
    BY DEF SkipEntry, Skipped
  <1>2. e \in Entries
    BY StopNextType DEF Inv2, Inv
  <1>3. /\ pc[c] = "stop" /\ call[c].entry = None
        /\ UNCHANGED <<regVars, flagVars, runVars, pc>>
    BY DEF SkipEntry
  <1>4. /\ call'[c].entry = call[c].entry /\ call'[c].todo = call[c].todo \ {e}
        /\ SameClaim(c) /\ Others(c)
    BY <1>1, <1>2, <1>3, SkipMove DEF Inv2, Inv
  <1>5. Held(c)' \subseteq Held(c) \cup {e}
    BY <1>3, <1>4 DEF Held, Down, SameClaim
  <1>6. Inv'
    BY SkipEntryKeeps DEF Inv2
  <1>7. \A x \in Held(c)' : status'[x] \notin Active
    BY <1>1, <1>3, <1>5, StaysDownHeld DEF Inv2, Active
  <1> QED
    BY <1>3, <1>4, <1>6, <1>7, StopperStaysDown

LEMMA BeginStopStaysDown ==
  ASSUME SingleStarter, Inv2, NEW c \in Callers, BeginStop(c)
  PROVE  Inv2'
  <1>1. PICK e \in StopNext(call[c]) :
          /\ status' = IF status[e] = "Succeeded" THEN status
                       ELSE [status EXCEPT ![e] = "Stopping"]
          /\ call' = [call EXCEPT ![c].entry = e]
    BY DEF BeginStop
  <1>2. e \in Entries
    BY StopNextType DEF Inv2, Inv
  <1>3. /\ pc[c] \in {"stop", "rollback"} /\ call[c].entry = None
        /\ UNCHANGED <<regVars, flagVars, instances, pc>>
    BY DEF BeginStop
  <1>4. /\ call'[c].entry = e /\ call'[c].todo = call[c].todo
        /\ SameClaim(c) /\ Others(c)
    BY <1>1, <1>2, <1>3, TakeMove DEF Inv2, Inv
  <1>5. Held(c)' \subseteq Held(c) \cup {e}
    BY <1>3, <1>4 DEF Held, Down, SameClaim
  <1>6. /\ status'[e] \notin Active
        /\ \A x \in Entries : status'[x] \in Active => status[x] \in Active
    BY <1>1, <1>2 DEF Inv2, Inv, TypeOK, Active
  <1>7. \A x \in Held(c)' : status'[x] \notin Active
    BY <1>5, <1>6, HeldType, StaysDownHeld DEF Inv2
  <1>8. Inv'
    BY BeginStopKeeps DEF Inv2
  <1> QED
    BY <1>3, <1>4, <1>6, <1>7, <1>8, StopperStaysDown

LEMMA EndStopStaysDown ==
  ASSUME SingleStarter, Inv2, NEW c \in Callers, EndStop(c) \/ GiveUpStop(c)
  PROVE  Inv2'
  <1> DEFINE e == call[c].entry
  <1>1. /\ pc[c] \in {"stop", "rollback"} /\ e # None
        /\ UNCHANGED <<regVars, flagVars, instances, pc>>
        /\ call' = [call EXCEPT ![c].entry = None, ![c].todo = @ \ {e}]
        /\ status' \in {status, [status EXCEPT ![e] = "Stopped"]}
    BY DEF EndStop, GiveUpStop
  <1>2. e \in Held(c)
    BY <1>1 DEF Held
  <1> HIDE DEF e
  <1>3. /\ call'[c].entry = None /\ call'[c].todo = call[c].todo \ {e}
        /\ SameClaim(c) /\ Others(c)
    BY <1>1, DoneMove DEF Inv2, Inv
  <1>4. Held(c)' \subseteq Held(c) \cup {e}
    BY <1>1, <1>3 DEF Held, Down, SameClaim
  <1>5. \A x \in Entries : status'[x] \in Active => status[x] \in Active
    BY <1>1 DEF Inv2, Inv, TypeOK, Active
  <1>6. \A x \in Held(c)' : status'[x] \notin Active
    BY <1>2, <1>4, <1>5, HeldType, StaysDownHeld DEF Inv2
  <1>7. Inv'
    BY EndStopKeeps DEF Inv2
  <1> QED
    BY <1>1, <1>3, <1>5, <1>6, <1>7, StopperStaysDown

LEMMA RemoveStaysDown ==
  ASSUME SingleStarter, Inv2, NEW c \in Callers, Remove(c)
  PROVE  Inv2'
  <1>1. pc'[c] = "release" /\ call'[c] = call[c] /\ Others(c)
    BY GotoMove DEF Inv2, Inv, Remove, Pcs
  <1>2. /\ UNCHANGED <<flagVars, instances>> /\ removed' = removed \cup call[c].set
        /\ status' = [e \in Entries |-> IF e \in call[c].set THEN "Registered" ELSE status[e]]
    BY DEF Remove
  <1>3. call[c].set \subseteq Entries
    BY DEF Inv2, Inv, TypeOK, CallRecords
  <1>4. /\ \A e \in call[c].set : status'[e] \notin Active
        /\ \A e \in Entries : status'[e] \in Active => status[e] \in Active
    BY <1>2, <1>3 DEF Active
  <1>5. Held(c)' \subseteq call[c].set
    BY <1>1 DEF Held, Down
  <1>6. Inv'
    BY RemoveKeeps DEF Inv2
  <1> QED
    BY <1>1, <1>2, <1>4, <1>5, <1>6, StopperStaysDown

LEMMA KeepRegisteredStaysDown ==
  ASSUME SingleStarter, Inv2, NEW c \in Callers, KeepRegistered(c)
  PROVE  Inv2'
  <1>1. /\ pc'[c] = "release" /\ call'[c] = call[c] /\ Others(c)
        /\ pc[c] = "stop" /\ UNCHANGED <<regVars, flagVars, runVars>>
    BY GotoMove DEF Inv2, Inv, KeepRegistered, Pcs
  <1>2. Held(c)' \subseteq Held(c)
    BY <1>1 DEF Held, Down
  <1>3. \A e \in Held(c)' : status'[e] \notin Active
    BY <1>1, <1>2, StaysDownHeld DEF Inv2
  <1>4. Inv'
    BY KeepRegisteredKeeps DEF Inv2
  <1> QED
    BY <1>1, <1>3, <1>4, StopperStaysDown

LEMMA ReleaseStaysDown ==
  ASSUME SingleStarter, Inv2, NEW c \in Callers, Release(c)
  PROVE  Inv2'
  <1>1. /\ pc'[c] = "idle" /\ Others(c) /\ UNCHANGED <<regVars, starting, runVars>>
    BY ReturnMove DEF Inv2, Inv, Release
  <1>2. Held(c)' = {}
    BY <1>1 DEF Held, Down
  <1>3. Inv'
    BY ReleaseKeeps DEF Inv2
  <1> QED
    BY <1>1, <1>2, <1>3, StopperStaysDown

LEMMA ExitStaysDown ==
  ASSUME Inv2, NEW e \in Entries, Exit(e)
  PROVE  Inv2'
  <1>1. /\ instances' = [instances EXCEPT ![e] = @ - 1] /\ instances[e] > 0
        /\ UNCHANGED <<regVars, flagVars, callVars>>
        /\ \E s \in {"Stopped", "Crashed"} : status' \in {status, [status EXCEPT ![e] = s]}
    BY DEF Exit
  <1>2. \A x \in Entries : status'[x] \in Active => status[x] \in Active
    BY <1>1 DEF Inv2, Inv, TypeOK, Active
  <1>3. StartsHeld' /\ OneInstance'
    BY <1>1, StartsFrame DEF Inv2, Inv, TypeOK
  <1>4. \A c \in Callers : Held(c)' = Held(c)
    BY <1>1 DEF Held, Down
  <1>5. removed' \subseteq Entries
    BY <1>1 DEF Inv2, Inv, TypeOK
  <1>6. StaysDown'
    BY <1>1, <1>2, <1>4, <1>5, HeldType, StaysDownHeld
       DEF Inv2, StaysDown, TeardownHolds, Held, Down
  <1>7. Inv'
    BY ExitKeeps DEF Inv2
  <1> QED
    BY <1>3, <1>6, <1>7 DEF Inv2

LEMMA Inv2Next ==
  ASSUME SingleStarter
  PROVE  Inv2 /\ [Next]_vars => Inv2'
  <1> SUFFICES ASSUME Inv2, [Next]_vars PROVE Inv2'
    OBVIOUS
  <1>1. ASSUME NEW c \in Callers, Claim(c) PROVE Inv2'
    BY <1>1, RegistrarsStayDown, StarterClaimsStayDown, StopperClaimsStayDown DEF Claim
  <1>2. ASSUME NEW c \in Callers, Proceed(c) PROVE Inv2'
    BY <1>2, RegistrarsStayDown, RefuseEntryStaysDown, StartEntryStaysDown, LaunchStaysDown,
       LaunchGateStaysDown, FinishStartStaysDown, SkipEntryStaysDown, BeginStopStaysDown,
       EndStopStaysDown, RemoveStaysDown, KeepRegisteredStaysDown, ReleaseStaysDown DEF Proceed
  <1>3. CASE UNCHANGED vars
    <2>1. Inv'
      BY <1>3, InvNext DEF Inv2
    <2>2. StartsHeld' /\ OneInstance' /\ StaysDown'
      BY <1>3 DEF vars, Inv2, StartsHeld, OneInstance, StaysDown, TeardownHolds, Down
    <2> QED
      BY <2>1, <2>2 DEF Inv2
  <1> QED
    BY <1>1, <1>2, <1>3, ExitStaysDown DEF Next

LEMMA Inv2Always ==
  ASSUME SingleStarter
  PROVE  Spec => []Inv2
  BY Inv2Init, Inv2Next, PTL DEF Spec

\* With one goroutine that starts, no flag leaks and none is lost, whatever the
\* stoppers and registrars do: of src/membership.go:437-452, src/groups.go:78-80.
THEOREM ReservationsCorrect ==
  ASSUME SingleStarter
  PROVE  Spec => []ReservationsHeld
  <1>1. Inv2 => ReservationsHeld
    BY DEF Inv2, Inv, FlagsHeld, StartsHeld, ReservationsHeld
  <1> QED
    BY <1>1, Inv2Always, PTL

\* With one goroutine that starts, no entry has two instances, whatever stops
\* were given up and whatever was removed meanwhile: of src/groups.go:61-71.
THEOREM OneInstanceCorrect ==
  ASSUME SingleStarter
  PROVE  Spec => []OneInstance
  <1>1. Inv2 => OneInstance
    BY DEF Inv2
  <1> QED
    BY <1>1, Inv2Always, PTL

\* With one goroutine that starts, what a teardown or a rollback has stopped
\* stays down until it is released, and what was removed stays down for good:
\* of src/membership.go:483-491 and src/lifecycle.go:20-24.
THEOREM TeardownCorrect ==
  ASSUME SingleStarter
  PROVE  Spec => []TeardownHolds
  <1>1. Inv2 => TeardownHolds
    BY DEF Inv2, StaysDown
  <1> QED
    BY <1>1, Inv2Always, PTL
================================================================================
