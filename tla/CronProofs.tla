------------------------------ MODULE CronProofs ------------------------------
(***************************************************************************)
(* Theorems about CronSchedule, for every value of its constants.          *)
(***************************************************************************)
EXTENDS CronSchedule, FiniteSetTheorems, TLAPS

USE DEF entryVars, gateVars, trackVars, schedVars, orchVars, tickVars, callVars,
        haltVars, TickTo, Goto, HaltTo

-----------------------------------------------------------------------------
(* The inductive invariant. *)

\* The ticks cronActive counts.
Flights == {t \in Ticks : InFlight(t, cronGen)}

\* No tick, schedule or latch is ahead of the generation counter.
GenerationsBounded ==
    /\ \A t \in Ticks : gen[t] <= cronGen
    /\ \A g \in scheduled : g <= cronGen
    /\ \A g \in closed : g <= cronGen
    /\ cronDrained <= cronGen
    /\ (cronCtx # 0 \/ cronActive # 0) => cronGen # 0

\* Once Stop switched the scheduler off and saw every tick idle, none comes any
\* more.
ScheduleQuiet ==
    /\ hpc \in {"jobs", "begin", "mark", "finish", "done"} => ~ticking
    /\ hpc \in {"begin", "mark", "finish", "done"} =>
          \A t \in Ticks : tick[t] = "idle"

\* From cronDrain to finishStop the schedule drains, and the call waits for the
\* latch of this schedule unless its ticks are gone; a closed latch of this
\* schedule means just that.
DrainUnderway ==
    /\ \A g \in closed : g = cronGen => cronActive = 0 /\ cronDraining
    /\ pc \in {"begin", "mark", "sequence", "await"} =>
          /\ cronDraining /\ call.awaited \in {0, cronGen}
          /\ call.awaited = 0 => cronActive = 0
    /\ pc = "finish" => cronDraining /\ (call.completed => cronActive = 0)

\* A stopped entry counts no tick, and none can begin.
StoppedQuiet ==
    status = "Stopped" /\ pc # "publish" =>
        cronActive = 0 /\ (cronDraining \/ hpc = "done")

DrainInv == /\ TypeOK /\ GenerationsBounded /\ ActiveBalanced
            /\ ScheduleQuiet /\ DrainUnderway /\ StoppedQuiet

-----------------------------------------------------------------------------
(* Counting ticks. *)

LEMMA FlightsFinite ==
  /\ IsFiniteSet(Flights)
  /\ Cardinality(Flights) \in Nat
  /\ Cardinality(Flights) = 0 => Flights = {}
  <1>1. IsFiniteSet(Ticks) /\ Flights \in SUBSET Ticks
    BY CronAssumption DEF Flights
  <1>2. IsFiniteSet(Flights)
    BY <1>1, FS_Subset
  <1> QED
    BY <1>2, FS_CardinalityType, FS_EmptySet

\* Dropping one tick of the current generation needs a counter above zero.
LEMMA EndIsCounted ==
  ASSUME TypeOK, ActiveBalanced, NEW t \in Ticks, tick[t] = "end", gen[t] = cronGen
  PROVE  cronActive \in Nat \ {0}
  <1>1. t \in Flights
    BY DEF Flights, InFlight
  <1>2. cronActive = Cardinality(Flights)
    BY DEF ActiveBalanced, Flights
  <1> QED
    BY <1>1, <1>2, FlightsFinite DEF TypeOK

\* The counter stays right when neither it nor the ticks it counts change.
LEMMA BalanceKept ==
  ASSUME ActiveBalanced, cronActive' = cronActive, cronGen' = cronGen,
         \A t \in Ticks : InFlight(t, cronGen)' <=> InFlight(t, cronGen)
  PROVE  ActiveBalanced'
  <1>1. {t \in Ticks : InFlight(t, cronGen)}' = {t \in Ticks : InFlight(t, cronGen)}
    OBVIOUS
  <1> QED
    BY <1>1 DEF ActiveBalanced

\* A fresh generation starts with no tick of its own.
LEMMA FreshGeneration ==
  ASSUME TypeOK, GenerationsBounded, cronGen' = cronGen + 1, cronActive' = 0,
         UNCHANGED <<tick, gen>>
  PROVE  ActiveBalanced'
  <1>1. \A t \in Ticks : gen[t] # cronGen + 1
    BY DEF TypeOK, GenerationsBounded
  <1>2. {t \in Ticks : InFlight(t, cronGen)}' = {}
    BY <1>1 DEF InFlight
  <1> QED
    BY <1>2, FS_EmptySet DEF ActiveBalanced

-----------------------------------------------------------------------------
(* Every step preserves every part. *)

\* TypeOK by component.
EntryTyped == /\ mode \in {"parallel", "queue", "skip"} /\ status \in Statuses
              /\ stopsCounted \in BOOLEAN /\ removed \in BOOLEAN
              /\ cronID \in Nat /\ owners \subseteq Ticks
              /\ running \in BOOLEAN /\ cronMu \in Ticks \cup {0}
TrackTyped == /\ cronGen \in Nat /\ cronCtx \in Nat /\ cronActive \in Nat
              /\ cronDraining \in BOOLEAN /\ cronDrained \in Nat
              /\ cancelled \subseteq Nat /\ closed \subseteq Nat
SchedTyped == /\ scheduled \subseteq Nat /\ ticking \in BOOLEAN
              /\ octx \in BOOLEAN /\ stopping \in BOOLEAN /\ stopped \in BOOLEAN
              /\ starts \in Nat /\ stops \in Nat
TickTyped  == tick \in [Ticks -> TickPcs] /\ gen \in [Ticks -> Nat]
CallTyped  == pc \in CallPcs /\ call \in CallRecords
HaltTyped  == hpc \in HaltPcs /\ halt \in HaltRecords

LEMMA TypeParts ==
  /\ TypeOK <=> /\ EntryTyped /\ TrackTyped /\ SchedTyped
                /\ TickTyped /\ CallTyped /\ HaltTyped
  /\ TypeOK' <=> /\ EntryTyped' /\ TrackTyped' /\ SchedTyped'
                 /\ TickTyped' /\ CallTyped' /\ HaltTyped'
  BY DEF TypeOK, EntryTyped, TrackTyped, SchedTyped, TickTyped, CallTyped, HaltTyped

LEMMA CallUpdates ==
  ASSUME call \in CallRecords
  PROVE  /\ \A n \in Nat : [call EXCEPT !.id = n] \in CallRecords
         /\ \A n \in Nat : [call EXCEPT !.awaited = n] \in CallRecords
         /\ \A a, b \in BOOLEAN :
              /\ [call EXCEPT !.active = a, !.completed = b] \in CallRecords
              /\ [call EXCEPT !.completed = a, !.err = b] \in CallRecords
              /\ [call EXCEPT !.awaited = 0, !.completed = a, !.err = b] \in CallRecords
  BY DEF CallRecords

LEMMA CallTypes ==
  /\ NoCall \in CallRecords /\ NoHalt \in HaltRecords
  /\ \A k \in {"start", "stop", "unregister", "replace"}, d \in BOOLEAN :
       [NoCall EXCEPT !.kind = k, !.deadline = d] \in CallRecords
  /\ [NoCall EXCEPT !.kind = "start"] \in CallRecords
  /\ \A d \in BOOLEAN : [NoHalt EXCEPT !.deadline = d] \in HaltRecords
  BY DEF NoCall, NoHalt, CallRecords, HaltRecords

\* CronEnd decrements a counter that is not zero.
LEMMA TypeNext ==
  ASSUME TypeOK, ActiveBalanced, [Next]_vars
  PROVE  TypeOK'
  <1> EntryTyped /\ TrackTyped /\ SchedTyped /\ TickTyped /\ CallTyped /\ HaltTyped
    BY TypeParts
  <1>1. CASE ClaimStart
    <2>1. CallTyped'
      BY <1>1, CallTyped, CallTypes DEF ClaimStart, CallTyped, CallPcs
    <2>2. EntryTyped' /\ TrackTyped' /\ SchedTyped' /\ TickTyped' /\ HaltTyped'
      BY <1>1, EntryTyped, TrackTyped, SchedTyped, TickTyped, HaltTyped
         DEF ClaimStart, EntryTyped, TrackTyped, SchedTyped, TickTyped, HaltTyped
    <2> QED
      BY <2>1, <2>2, TypeParts
  <1>2. CASE Schedule
    <2>1. EntryTyped'
      BY <1>2, EntryTyped, TrackTyped DEF Schedule, EntryTyped, Statuses, TrackTyped
    <2>2. TrackTyped'
      <3>1. CASE cronID = 0
        <4>1. cancelled' \subseteq Nat
          BY <1>2, <3>1, TrackTyped DEF Schedule, TrackTyped
        <4>2. cronGen' \in Nat /\ cronCtx' \in Nat
          BY <1>2, <3>1, TrackTyped DEF Schedule, TrackTyped
        <4>3. /\ cronActive' = 0 /\ cronDraining' = FALSE /\ cronDrained' = 0
              /\ closed' = closed
          BY <1>2, <3>1 DEF Schedule
        <4> QED
          BY <4>1, <4>2, <4>3, TrackTyped DEF TrackTyped
      <3>2. CASE cronID # 0
        BY <1>2, <3>2, TrackTyped DEF Schedule, TrackTyped
      <3> QED
        BY <3>1, <3>2
    <2>3. SchedTyped'
      <3>1. scheduled' \subseteq Nat
        <4>1. scheduled' \subseteq scheduled \cup {cronGen + 1}
          BY <1>2 DEF Schedule
        <4>2. cronGen + 1 \in Nat /\ scheduled \subseteq Nat
          BY SchedTyped, TrackTyped DEF SchedTyped, TrackTyped
        <4> QED
          BY <4>1, <4>2
      <3> QED
        BY <1>2, <3>1, SchedTyped DEF Schedule, SchedTyped
    <2>4. CallTyped'
      BY <1>2, CallTyped DEF Schedule, CallTyped, CallPcs
    <2>5. TickTyped' /\ HaltTyped'
      BY <1>2, TickTyped, HaltTyped DEF Schedule, TickTyped, HaltTyped
    <2> QED
      BY <2>1, <2>2, <2>3, <2>4, <2>5, TypeParts
  <1>3. CASE PublishRunning
    <2>1. EntryTyped'
      BY <1>3, EntryTyped DEF PublishRunning, EntryTyped, Statuses
    <2>2. SchedTyped'
      BY <1>3, SchedTyped DEF PublishRunning, SchedTyped
    <2>3. CallTyped'
      BY <1>3, CallTyped, CallTypes DEF PublishRunning, CallTyped, CallPcs
    <2>4. TrackTyped' /\ TickTyped' /\ HaltTyped'
      BY <1>3, TrackTyped, TickTyped, HaltTyped
         DEF PublishRunning, TrackTyped, TickTyped, HaltTyped
    <2> QED
      BY <2>1, <2>2, <2>3, <2>4, TypeParts
  <1>4. CASE ClaimTeardown
    <2>1. CallTyped'
      BY <1>4, CallTyped, CallTypes, CronAssumption
         DEF ClaimTeardown, CallTyped, CallPcs
    <2>2. EntryTyped' /\ TrackTyped' /\ SchedTyped' /\ TickTyped' /\ HaltTyped'
      BY <1>4, EntryTyped, TrackTyped, SchedTyped, TickTyped, HaltTyped
         DEF ClaimTeardown, EntryTyped, TrackTyped, SchedTyped, TickTyped, HaltTyped
    <2> QED
      BY <2>1, <2>2, TypeParts
  <1>5. CASE ForgetSchedule
    <2>1. EntryTyped'
      BY <1>5, EntryTyped DEF ForgetSchedule, EntryTyped, Statuses
    <2>2. CallTyped'
      BY <1>5, CallTyped, CallUpdates, TrackTyped, EntryTyped
         DEF ForgetSchedule, CallTyped, CallPcs, TrackTyped, EntryTyped
    <2>3. TrackTyped' /\ SchedTyped' /\ TickTyped' /\ HaltTyped'
      BY <1>5, TrackTyped, SchedTyped, TickTyped, HaltTyped
         DEF ForgetSchedule, TrackTyped, SchedTyped, TickTyped, HaltTyped
    <2> QED
      BY <2>1, <2>2, <2>3, TypeParts
  <1>6. CASE Unschedule
    <2>1. SchedTyped'
      BY <1>6, SchedTyped DEF Unschedule, SchedTyped
    <2>2. CallTyped'
      BY <1>6, CallTyped, CallUpdates DEF Unschedule, CallTyped, CallPcs
    <2>3. EntryTyped' /\ TrackTyped' /\ TickTyped' /\ HaltTyped'
      BY <1>6, EntryTyped, TrackTyped, TickTyped, HaltTyped
         DEF Unschedule, EntryTyped, TrackTyped, TickTyped, HaltTyped
    <2> QED
      BY <2>1, <2>2, <2>3, TypeParts
  <1>7. CASE DrainTicks
    <2>1. TrackTyped'
      BY <1>7, TrackTyped DEF DrainTicks, CancelSchedule, TicksLeft, TrackTyped
    <2>2. CallTyped'
      BY <1>7, CallTyped, CallUpdates, TrackTyped, EntryTyped
         DEF DrainTicks, CancelSchedule, TicksLeft, CallTyped, CallPcs, TrackTyped,
             EntryTyped
    <2>3. EntryTyped' /\ SchedTyped' /\ TickTyped' /\ HaltTyped'
      BY <1>7, EntryTyped, SchedTyped, TickTyped, HaltTyped
         DEF DrainTicks, EntryTyped, SchedTyped, TickTyped, HaltTyped
    <2> QED
      BY <2>1, <2>2, <2>3, TypeParts
  <1>8. CASE BeginStop
    <2>1. CallTyped'
      BY <1>8, CallTyped, CallUpdates DEF BeginStop, CallTyped, CallPcs
    <2>2. EntryTyped' /\ TrackTyped' /\ SchedTyped' /\ TickTyped' /\ HaltTyped'
      BY <1>8, EntryTyped, TrackTyped, SchedTyped, TickTyped, HaltTyped
         DEF BeginStop, EntryTyped, TrackTyped, SchedTyped, TickTyped, HaltTyped
    <2> QED
      BY <2>1, <2>2, TypeParts
  <1>9. CASE MarkStopping
    <2>1. EntryTyped'
      BY <1>9, EntryTyped DEF MarkStopping, EntryTyped, Statuses
    <2>2. CallTyped'
      BY <1>9, CallTyped DEF MarkStopping, CallTyped, CallPcs
    <2>3. TrackTyped' /\ SchedTyped' /\ TickTyped' /\ HaltTyped'
      BY <1>9, TrackTyped, SchedTyped, TickTyped, HaltTyped
         DEF MarkStopping, TrackTyped, SchedTyped, TickTyped, HaltTyped
    <2> QED
      BY <2>1, <2>2, <2>3, TypeParts
  <1>10. CASE StopSequence
    <2>1. CallTyped'
      BY <1>10, CallTyped, CallUpdates DEF StopSequence, CallTyped, CallPcs
    <2>2. EntryTyped' /\ TrackTyped' /\ SchedTyped' /\ TickTyped' /\ HaltTyped'
      BY <1>10, EntryTyped, TrackTyped, SchedTyped, TickTyped, HaltTyped
         DEF StopSequence, EntryTyped, TrackTyped, SchedTyped, TickTyped, HaltTyped
    <2> QED
      BY <2>1, <2>2, TypeParts
  <1>11. CASE AwaitTicks
    <2>1. CallTyped'
      BY <1>11, CallTyped, CallUpdates DEF AwaitTicks, CallTyped, CallPcs
    <2>2. EntryTyped' /\ TrackTyped' /\ SchedTyped' /\ TickTyped' /\ HaltTyped'
      BY <1>11, EntryTyped, TrackTyped, SchedTyped, TickTyped, HaltTyped
         DEF AwaitTicks, EntryTyped, TrackTyped, SchedTyped, TickTyped, HaltTyped
    <2> QED
      BY <2>1, <2>2, TypeParts
  <1>12. CASE AwaitTimedOut
    <2>1. CallTyped'
      BY <1>12, CallTyped, CallUpdates DEF AwaitTimedOut, CallTyped, CallPcs
    <2>2. EntryTyped' /\ TrackTyped' /\ SchedTyped' /\ TickTyped' /\ HaltTyped'
      BY <1>12, EntryTyped, TrackTyped, SchedTyped, TickTyped, HaltTyped
         DEF AwaitTimedOut, EntryTyped, TrackTyped, SchedTyped, TickTyped, HaltTyped
    <2> QED
      BY <2>1, <2>2, TypeParts
  <1>13. CASE FinishStop
    <2>1. EntryTyped'
      BY <1>13, EntryTyped DEF FinishStop, AccountStop, EntryTyped, Statuses
    <2>2. TrackTyped'
      BY <1>13, TrackTyped DEF FinishStop, AccountStop, TrackTyped
    <2>3. SchedTyped'
      BY <1>13, SchedTyped DEF FinishStop, AccountStop, SchedTyped
    <2>4. CallTyped'
      BY <1>13, CallTyped
         DEF FinishStop, AccountStop, NoCall, CallRecords, CallTyped, CallPcs
    <2>5. TickTyped' /\ HaltTyped'
      BY <1>13, TickTyped, HaltTyped DEF FinishStop, TickTyped, HaltTyped
    <2> QED
      BY <2>1, <2>2, <2>3, <2>4, <2>5, TypeParts
  <1>14. CASE RemoveEntry
    <2>1. EntryTyped'
      BY <1>14, EntryTyped DEF RemoveEntry, CancelSchedule, EntryTyped, Statuses
    <2>2. TrackTyped'
      <3>1. cancelled' \subseteq Nat
        BY <1>14, TrackTyped DEF RemoveEntry, CancelSchedule, TrackTyped
      <3>2. cronGen' \in Nat
        BY <1>14, TrackTyped DEF RemoveEntry, TrackTyped
      <3> QED
        BY <1>14, <3>1, <3>2, TrackTyped DEF RemoveEntry, TrackTyped
    <2>3. CallTyped'
      BY <1>14, CallTyped DEF RemoveEntry, CancelSchedule, CallTyped, CallPcs
    <2>4. SchedTyped' /\ TickTyped' /\ HaltTyped'
      BY <1>14, SchedTyped, TickTyped, HaltTyped
         DEF RemoveEntry, SchedTyped, TickTyped, HaltTyped
    <2> QED
      BY <2>1, <2>2, <2>3, <2>4, TypeParts
  <1>15. CASE SweepOwners
    <2>1. EntryTyped'
      BY <1>15, EntryTyped DEF SweepOwners, EntryTyped, Statuses
    <2>2. CallTyped'
      BY <1>15, CallTyped, CallTypes DEF SweepOwners, CallTyped, CallPcs
    <2>3. TrackTyped' /\ SchedTyped' /\ TickTyped' /\ HaltTyped'
      BY <1>15, TrackTyped, SchedTyped, TickTyped, HaltTyped
         DEF SweepOwners, TrackTyped, SchedTyped, TickTyped, HaltTyped
    <2> QED
      BY <2>1, <2>2, <2>3, TypeParts
  <1>16. CASE SwapService
    <2>1. EntryTyped'
      BY <1>16, EntryTyped DEF SwapService, EntryTyped, Statuses
    <2>2. CallTyped'
      BY <1>16, CallTyped DEF SwapService, CallTyped, CallPcs
    <2>3. TrackTyped' /\ SchedTyped' /\ TickTyped' /\ HaltTyped'
      BY <1>16, TrackTyped, SchedTyped, TickTyped, HaltTyped
         DEF SwapService, TrackTyped, SchedTyped, TickTyped, HaltTyped
    <2> QED
      BY <2>1, <2>2, <2>3, TypeParts
  <1>17. CASE HaltGate
    <2>1. SchedTyped'
      BY <1>17, SchedTyped DEF HaltGate, SchedTyped
    <2>2. HaltTyped'
      BY <1>17, HaltTyped, CallTypes, CronAssumption DEF HaltGate, HaltTyped, HaltPcs
    <2>3. EntryTyped' /\ TrackTyped' /\ TickTyped' /\ CallTyped'
      BY <1>17, EntryTyped, TrackTyped, TickTyped, CallTyped
         DEF HaltGate, EntryTyped, TrackTyped, TickTyped, CallTyped
    <2> QED
      BY <2>1, <2>2, <2>3, TypeParts
  <1>18. CASE HaltCancel
    <2>1. SchedTyped'
      BY <1>18, SchedTyped DEF HaltCancel, SchedTyped
    <2>2. HaltTyped'
      BY <1>18, HaltTyped DEF HaltCancel, HaltTyped, HaltPcs
    <2>3. EntryTyped' /\ TrackTyped' /\ TickTyped' /\ CallTyped'
      BY <1>18, EntryTyped, TrackTyped, TickTyped, CallTyped
         DEF HaltCancel, EntryTyped, TrackTyped, TickTyped, CallTyped
    <2> QED
      BY <2>1, <2>2, <2>3, TypeParts
  <1>19. CASE HaltJobs
    <2>1. HaltTyped'
      BY <1>19, HaltTyped DEF HaltJobs, HaltTyped, HaltPcs
    <2>2. EntryTyped' /\ TrackTyped' /\ SchedTyped' /\ TickTyped' /\ CallTyped'
      BY <1>19, EntryTyped, TrackTyped, SchedTyped, TickTyped, CallTyped
         DEF HaltJobs, EntryTyped, TrackTyped, SchedTyped, TickTyped, CallTyped
    <2> QED
      BY <2>1, <2>2, TypeParts
  <1>20. CASE HaltBegin
    <2>1. HaltTyped'
      BY <1>20, HaltTyped DEF HaltBegin, HaltRecords, HaltTyped, HaltPcs
    <2>2. EntryTyped' /\ TrackTyped' /\ SchedTyped' /\ TickTyped' /\ CallTyped'
      BY <1>20, EntryTyped, TrackTyped, SchedTyped, TickTyped, CallTyped
         DEF HaltBegin, EntryTyped, TrackTyped, SchedTyped, TickTyped, CallTyped
    <2> QED
      BY <2>1, <2>2, TypeParts
  <1>21. CASE HaltMark
    <2>1. EntryTyped'
      BY <1>21, EntryTyped DEF HaltMark, EntryTyped, Statuses
    <2>2. HaltTyped'
      BY <1>21, HaltTyped DEF HaltMark, HaltTyped, HaltPcs
    <2>3. TrackTyped' /\ SchedTyped' /\ TickTyped' /\ CallTyped'
      BY <1>21, TrackTyped, SchedTyped, TickTyped, CallTyped
         DEF HaltMark, TrackTyped, SchedTyped, TickTyped, CallTyped
    <2> QED
      BY <2>1, <2>2, <2>3, TypeParts
  <1>22. CASE HaltFinish
    <2>1. EntryTyped'
      BY <1>22, EntryTyped DEF HaltFinish, AccountStop, EntryTyped, Statuses
    <2>2. SchedTyped'
      <3>1. stops' \in Nat
        BY <1>22, SchedTyped DEF HaltFinish, AccountStop, SchedTyped
      <3> QED
        BY <1>22, <3>1, SchedTyped DEF HaltFinish, SchedTyped
    <2>3. HaltTyped'
      BY <1>22, HaltTyped, CallTypes DEF HaltFinish, AccountStop, HaltTyped, HaltPcs
    <2>4. TrackTyped' /\ TickTyped' /\ CallTyped'
      BY <1>22, TrackTyped, TickTyped, CallTyped
         DEF HaltFinish, TrackTyped, TickTyped, CallTyped
    <2> QED
      BY <2>1, <2>2, <2>3, <2>4, TypeParts
  <1>23. ASSUME NEW t \in Ticks, Dispatch(t)
        PROVE  TypeOK'
    <2>1. TickTyped'
      BY <1>23, TickTyped, SchedTyped DEF Dispatch, TickTyped, TickPcs, SchedTyped
    <2>2. EntryTyped' /\ TrackTyped' /\ SchedTyped' /\ CallTyped' /\ HaltTyped'
      BY <1>23, EntryTyped, TrackTyped, SchedTyped, CallTyped, HaltTyped
         DEF Dispatch, EntryTyped, TrackTyped, SchedTyped, CallTyped, HaltTyped
    <2> QED
      BY <2>1, <2>2, TypeParts
  <1>24. ASSUME NEW t \in Ticks, CronBegin(t)
        PROVE  TypeOK'
    <2>1. TrackTyped'
      BY <1>24, TrackTyped DEF CronBegin, TrackTyped
    <2>2. TickTyped'
      BY <1>24, TickTyped DEF CronBegin, TickTyped, TickPcs
    <2>3. EntryTyped' /\ SchedTyped' /\ CallTyped' /\ HaltTyped'
      BY <1>24, EntryTyped, SchedTyped, CallTyped, HaltTyped
         DEF CronBegin, EntryTyped, SchedTyped, CallTyped, HaltTyped
    <2> QED
      BY <2>1, <2>2, <2>3, TypeParts
  <1>25. ASSUME NEW t \in Ticks, EnterGate(t)
        PROVE  TypeOK'
    <2>1. EntryTyped'
      BY <1>25, EntryTyped DEF EnterGate, Skipped, EntryTyped, Statuses
    <2>2. TickTyped'
      BY <1>25, TickTyped DEF EnterGate, Skipped, TickTyped, TickPcs
    <2>3. TrackTyped' /\ SchedTyped' /\ CallTyped' /\ HaltTyped'
      BY <1>25, TrackTyped, SchedTyped, CallTyped, HaltTyped
         DEF EnterGate, TrackTyped, SchedTyped, CallTyped, HaltTyped
    <2> QED
      BY <2>1, <2>2, <2>3, TypeParts
  <1>26. ASSUME NEW t \in Ticks, NewOwner(t)
        PROVE  TypeOK'
    <2>1. EntryTyped'
      BY <1>26, EntryTyped DEF NewOwner, EntryTyped, Statuses
    <2>2. TickTyped'
      BY <1>26, TickTyped DEF NewOwner, TickTyped, TickPcs
    <2>3. TrackTyped' /\ SchedTyped' /\ CallTyped' /\ HaltTyped'
      BY <1>26, TrackTyped, SchedTyped, CallTyped, HaltTyped
         DEF NewOwner, TrackTyped, SchedTyped, CallTyped, HaltTyped
    <2> QED
      BY <2>1, <2>2, <2>3, TypeParts
  <1>27. ASSUME NEW t \in Ticks, TickReturns(t)
        PROVE  TypeOK'
    <2>1. TickTyped'
      BY <1>27, TickTyped DEF TickReturns, TickTyped, TickPcs
    <2>2. EntryTyped' /\ TrackTyped' /\ SchedTyped' /\ CallTyped' /\ HaltTyped'
      BY <1>27, EntryTyped, TrackTyped, SchedTyped, CallTyped, HaltTyped
         DEF TickReturns, EntryTyped, TrackTyped, SchedTyped, CallTyped, HaltTyped
    <2> QED
      BY <2>1, <2>2, TypeParts
  <1>28. ASSUME NEW t \in Ticks, LeaveGate(t)
        PROVE  TypeOK'
    <2>1. EntryTyped'
      BY <1>28, EntryTyped DEF LeaveGate, LosesOwner, EntryTyped, Statuses
    <2>2. TickTyped'
      BY <1>28, TickTyped DEF LeaveGate, LosesOwner, TickTyped, TickPcs
    <2>3. TrackTyped' /\ SchedTyped' /\ CallTyped' /\ HaltTyped'
      BY <1>28, TrackTyped, SchedTyped, CallTyped, HaltTyped
         DEF LeaveGate, TrackTyped, SchedTyped, CallTyped, HaltTyped
    <2> QED
      BY <2>1, <2>2, <2>3, TypeParts
  <1>29. ASSUME NEW t \in Ticks, CronEnd(t)
        PROVE  TypeOK'
    <2>1. TrackTyped'
      <3>1. closed' \subseteq Nat /\ cronDrained' \in Nat
        <4>1. /\ closed' \subseteq closed \cup {cronDrained}
              /\ cronDrained' \in {0, cronDrained}
          BY <1>29 DEF CronEnd
        <4>2. closed \subseteq Nat /\ cronDrained \in Nat
          BY TrackTyped DEF TrackTyped
        <4> QED
          BY <4>1, <4>2
      <3>2. cronActive' \in Nat
        <4>1. CASE EndsCurrent(t)
          <5>1. cronActive \in Nat \ {0}
            BY <1>29, <4>1, EndIsCounted DEF CronEnd, EndsCurrent
          <5> QED
            BY <1>29, <4>1, <5>1 DEF CronEnd
        <4>2. CASE ~EndsCurrent(t)
          BY <1>29, <4>2, TrackTyped DEF CronEnd, TrackTyped
        <4> QED
          BY <4>1, <4>2
      <3> QED
        BY <1>29, <3>1, <3>2, TrackTyped DEF CronEnd, TrackTyped
    <2>2. TickTyped'
      BY <1>29, TickTyped DEF CronEnd, EndsCurrent, TickTyped, TickPcs
    <2>3. EntryTyped' /\ SchedTyped' /\ CallTyped' /\ HaltTyped'
      BY <1>29, EntryTyped, SchedTyped, CallTyped, HaltTyped
         DEF CronEnd, EntryTyped, SchedTyped, CallTyped, HaltTyped
    <2> QED
      BY <2>1, <2>2, <2>3, TypeParts
  <1>30. CASE UNCHANGED vars
    BY <1>30 DEF vars, TypeOK
  <1> QED
    BY <1>1, <1>2, <1>3, <1>4, <1>5, <1>6, <1>7, <1>8, <1>9, <1>10, <1>11,
       <1>12, <1>13, <1>14, <1>15, <1>16, <1>17, <1>18, <1>19, <1>20, <1>21,
       <1>22, <1>23, <1>24, <1>25, <1>26, <1>27, <1>28, <1>29, <1>30 DEF
       Next, CallStep, HaltStep, TickStep

\* Only a fresh schedule and a removal advance the counter.
LEMMA BoundedNext ==
  ASSUME TypeOK, GenerationsBounded, ActiveBalanced, [Next]_vars
  PROVE  GenerationsBounded'
  <1>1. CASE ClaimStart
    BY <1>1, TypeOK, GenerationsBounded
       DEF ClaimStart, GateOpen, Reserved, NoCall, TypeOK, GenerationsBounded
  <1>2. CASE Schedule
    <2>1. CASE cronID = 0
      <3>1. cronGen \in Nat /\ cronGen' = cronGen + 1
        BY <1>2, <2>1, TypeOK DEF Schedule, TypeOK
      <3>2. \A t \in Ticks : gen'[t] <= cronGen'
        BY <1>2, <3>1, TypeOK, GenerationsBounded
           DEF Schedule, TypeOK, GenerationsBounded
      <3>3. \A g \in scheduled' : g <= cronGen'
        <4>1. scheduled' = scheduled \cup {cronGen'}
          BY <1>2, <2>1, <3>1 DEF Schedule
        <4>2. \A g \in scheduled : g \in Nat /\ g <= cronGen
          BY TypeOK, GenerationsBounded DEF TypeOK, GenerationsBounded
        <4> QED
          BY <3>1, <4>1, <4>2
      <3>4. \A g \in closed' : g <= cronGen'
        BY <1>2, <3>1, TypeOK, GenerationsBounded
           DEF Schedule, TypeOK, GenerationsBounded
      <3>5. cronDrained' <= cronGen' /\ cronGen' # 0
        BY <1>2, <2>1, <3>1 DEF Schedule
      <3> QED
        BY <3>2, <3>3, <3>4, <3>5 DEF GenerationsBounded
    <2>2. CASE cronID # 0
      BY <1>2, <2>2, GenerationsBounded DEF Schedule, GenerationsBounded
    <2> QED
      BY <2>1, <2>2
  <1>3. CASE PublishRunning
    BY <1>3, TypeOK, GenerationsBounded
       DEF PublishRunning, NoCall, TypeOK, GenerationsBounded
  <1>4. CASE ClaimTeardown
    BY <1>4, TypeOK, GenerationsBounded
       DEF ClaimTeardown, GateOpen, Reserved, NoCall, TypeOK, GenerationsBounded
  <1>5. CASE ForgetSchedule
    BY <1>5, TypeOK, GenerationsBounded DEF ForgetSchedule, TypeOK, GenerationsBounded
  <1>6. CASE Unschedule
    BY <1>6, TypeOK, GenerationsBounded DEF Unschedule, TypeOK, GenerationsBounded
  <1>7. CASE DrainTicks
    BY <1>7, TypeOK, GenerationsBounded
       DEF DrainTicks, CancelSchedule, TicksLeft, TypeOK, GenerationsBounded
  <1>8. CASE BeginStop
    BY <1>8, TypeOK, GenerationsBounded DEF BeginStop, TypeOK, GenerationsBounded
  <1>9. CASE MarkStopping
    BY <1>9, TypeOK, GenerationsBounded DEF MarkStopping, TypeOK, GenerationsBounded
  <1>10. CASE StopSequence
    BY <1>10, TypeOK, GenerationsBounded DEF StopSequence, TypeOK, GenerationsBounded
  <1>11. CASE AwaitTicks
    BY <1>11, TypeOK, GenerationsBounded
       DEF AwaitTicks, LatchOpen, TypeOK, GenerationsBounded
  <1>12. CASE AwaitTimedOut
    BY <1>12, TypeOK, GenerationsBounded DEF AwaitTimedOut, TypeOK, GenerationsBounded
  <1>13. CASE FinishStop
    BY <1>13, TypeOK, GenerationsBounded
       DEF FinishStop, AccountStop, NoCall, TypeOK, GenerationsBounded
  <1>14. CASE RemoveEntry
    BY <1>14, TypeOK, GenerationsBounded
       DEF RemoveEntry, CancelSchedule, TypeOK, GenerationsBounded
  <1>15. CASE SweepOwners
    BY <1>15, TypeOK, GenerationsBounded
       DEF SweepOwners, NoCall, TypeOK, GenerationsBounded
  <1>16. CASE SwapService
    BY <1>16, TypeOK, GenerationsBounded DEF SwapService, TypeOK, GenerationsBounded
  <1>17. CASE HaltGate
    BY <1>17, TypeOK, GenerationsBounded
       DEF HaltGate, NoHalt, TypeOK, GenerationsBounded
  <1>18. CASE HaltCancel
    BY <1>18, TypeOK, GenerationsBounded DEF HaltCancel, TypeOK, GenerationsBounded
  <1>19. CASE HaltJobs
    BY <1>19, TypeOK, GenerationsBounded DEF HaltJobs, TypeOK, GenerationsBounded
  <1>20. CASE HaltBegin
    BY <1>20, TypeOK, GenerationsBounded DEF HaltBegin, TypeOK, GenerationsBounded
  <1>21. CASE HaltMark
    BY <1>21, TypeOK, GenerationsBounded DEF HaltMark, TypeOK, GenerationsBounded
  <1>22. CASE HaltFinish
    BY <1>22, TypeOK, GenerationsBounded
       DEF HaltFinish, AccountStop, NoHalt, TypeOK, GenerationsBounded
  <1>23. ASSUME NEW t \in Ticks, Dispatch(t)
        PROVE  GenerationsBounded'
    BY <1>23, TypeOK, GenerationsBounded DEF Dispatch, TypeOK, GenerationsBounded
  <1>24. ASSUME NEW t \in Ticks, CronBegin(t)
        PROVE  GenerationsBounded'
    BY <1>24, TypeOK, GenerationsBounded
       DEF CronBegin, RefusesTick, Cancelled, TypeOK, GenerationsBounded
  <1>25. ASSUME NEW t \in Ticks, EnterGate(t)
        PROVE  GenerationsBounded'
    BY <1>25, TypeOK, GenerationsBounded
       DEF EnterGate, Skipped, TypeOK, GenerationsBounded
  <1>26. ASSUME NEW t \in Ticks, NewOwner(t)
        PROVE  GenerationsBounded'
    BY <1>26, TypeOK, GenerationsBounded DEF NewOwner, TypeOK, GenerationsBounded
  <1>27. ASSUME NEW t \in Ticks, TickReturns(t)
        PROVE  GenerationsBounded'
    BY <1>27, TypeOK, GenerationsBounded DEF TickReturns, TypeOK, GenerationsBounded
  <1>28. ASSUME NEW t \in Ticks, LeaveGate(t)
        PROVE  GenerationsBounded'
    BY <1>28, TypeOK, GenerationsBounded
       DEF LeaveGate, LosesOwner, TypeOK, GenerationsBounded
  <1>29. ASSUME NEW t \in Ticks, CronEnd(t)
        PROVE  GenerationsBounded'
    <2>1. cronGen' = cronGen /\ cronCtx' = cronCtx /\ scheduled' = scheduled
      BY <1>29 DEF CronEnd
    <2>2. \A u \in Ticks : gen'[u] <= cronGen'
      BY <1>29, TypeOK, GenerationsBounded DEF CronEnd, TypeOK, GenerationsBounded
    <2>3. /\ \A g \in closed' : g <= cronGen'
          /\ cronDrained' <= cronGen'
      <3>1. /\ closed' \subseteq closed \cup {cronDrained}
            /\ cronDrained' \in {0, cronDrained}
        BY <1>29 DEF CronEnd
      <3>2. cronGen \in Nat
        BY TypeOK DEF TypeOK
      <3> QED
        BY <2>1, <3>1, <3>2, GenerationsBounded DEF GenerationsBounded
    <2>4. cronActive' # 0 => cronGen # 0
      <3>1. CASE EndsCurrent(t)
        BY <1>29, <3>1, EndIsCounted, GenerationsBounded
           DEF CronEnd, EndsCurrent, GenerationsBounded
      <3>2. CASE ~EndsCurrent(t)
        BY <1>29, <3>2, GenerationsBounded DEF CronEnd, GenerationsBounded
      <3> QED
        BY <3>1, <3>2
    <2> QED
      BY <2>1, <2>2, <2>3, <2>4, GenerationsBounded DEF GenerationsBounded
  <1>30. CASE UNCHANGED vars
    BY <1>30 DEF vars, GenerationsBounded
  <1> QED
    BY <1>1, <1>2, <1>3, <1>4, <1>5, <1>6, <1>7, <1>8, <1>9, <1>10, <1>11,
       <1>12, <1>13, <1>14, <1>15, <1>16, <1>17, <1>18, <1>19, <1>20, <1>21,
       <1>22, <1>23, <1>24, <1>25, <1>26, <1>27, <1>28, <1>29, <1>30 DEF
       Next, CallStep, HaltStep, TickStep

\* cronBegin and cronEnd move one tick in and out of the count; a stale tick
\* moves nothing.
LEMMA BalanceNext ==
  ASSUME TypeOK, GenerationsBounded, ActiveBalanced, [Next]_vars
  PROVE  ActiveBalanced'
  <1>1. CASE ClaimStart
    BY <1>1, BalanceKept DEF ClaimStart, InFlight
  <1>2. CASE Schedule
    <2>1. CASE cronID = 0
      BY <1>2, <2>1, FreshGeneration DEF Schedule
    <2>2. CASE cronID # 0
      BY <1>2, <2>2, BalanceKept DEF Schedule, InFlight
    <2> QED
      BY <2>1, <2>2
  <1>3. CASE PublishRunning
    BY <1>3, BalanceKept DEF PublishRunning, InFlight
  <1>4. CASE ClaimTeardown
    BY <1>4, BalanceKept DEF ClaimTeardown, InFlight
  <1>5. CASE ForgetSchedule
    BY <1>5, BalanceKept DEF ForgetSchedule, InFlight
  <1>6. CASE Unschedule
    BY <1>6, BalanceKept DEF Unschedule, InFlight
  <1>7. CASE DrainTicks
    BY <1>7, BalanceKept DEF DrainTicks, InFlight
  <1>8. CASE BeginStop
    BY <1>8, BalanceKept DEF BeginStop, InFlight
  <1>9. CASE MarkStopping
    BY <1>9, BalanceKept DEF MarkStopping, InFlight
  <1>10. CASE StopSequence
    BY <1>10, BalanceKept DEF StopSequence, InFlight
  <1>11. CASE AwaitTicks
    BY <1>11, BalanceKept DEF AwaitTicks, InFlight
  <1>12. CASE AwaitTimedOut
    BY <1>12, BalanceKept DEF AwaitTimedOut, InFlight
  <1>13. CASE FinishStop
    BY <1>13, BalanceKept DEF FinishStop, InFlight
  <1>14. CASE RemoveEntry
    BY <1>14, FreshGeneration DEF RemoveEntry, CancelSchedule
  <1>15. CASE SweepOwners
    BY <1>15, BalanceKept DEF SweepOwners, InFlight
  <1>16. CASE SwapService
    BY <1>16, BalanceKept DEF SwapService, InFlight
  <1>17. CASE HaltGate
    BY <1>17, BalanceKept DEF HaltGate, InFlight
  <1>18. CASE HaltCancel
    BY <1>18, BalanceKept DEF HaltCancel, InFlight
  <1>19. CASE HaltJobs
    BY <1>19, BalanceKept DEF HaltJobs, InFlight
  <1>20. CASE HaltBegin
    BY <1>20, BalanceKept DEF HaltBegin, InFlight
  <1>21. CASE HaltMark
    BY <1>21, BalanceKept DEF HaltMark, InFlight
  <1>22. CASE HaltFinish
    BY <1>22, BalanceKept DEF HaltFinish, InFlight
  <1>23. ASSUME NEW t \in Ticks, Dispatch(t)
        PROVE  ActiveBalanced'
    <2>1. \A u \in Ticks : InFlight(u, cronGen)' <=> InFlight(u, cronGen)
      BY <1>23, TypeOK DEF Dispatch, InFlight, TypeOK
    <2> QED
      BY <1>23, <2>1, BalanceKept DEF Dispatch
  <1>24. ASSUME NEW t \in Ticks, CronBegin(t)
        PROVE  ActiveBalanced'
    <2>1. CASE RefusesTick(gen[t])
      <3>1. \A u \in Ticks : InFlight(u, cronGen)' <=> InFlight(u, cronGen)
        BY <1>24, <2>1, TypeOK DEF CronBegin, InFlight, TypeOK
      <3> QED
        BY <1>24, <2>1, <3>1, BalanceKept DEF CronBegin
    <2>2. CASE ~RefusesTick(gen[t])
      <3>1. gen[t] = cronGen /\ t \notin Flights
        BY <1>24, <2>2 DEF CronBegin, RefusesTick, Flights, InFlight
      <3>2. Flights' = Flights \cup {t}
        BY <1>24, <2>2, <3>1, TypeOK DEF CronBegin, Flights, InFlight, TypeOK
      <3>3. Cardinality(Flights') = Cardinality(Flights) + 1
        BY <3>1, <3>2, FS_AddElement, FlightsFinite
      <3> QED
        BY <1>24, <2>2, <3>3 DEF CronBegin, ActiveBalanced, Flights
    <2> QED
      BY <2>1, <2>2
  <1>25. ASSUME NEW t \in Ticks, EnterGate(t)
        PROVE  ActiveBalanced'
    <2>1. \A u \in Ticks : InFlight(u, cronGen)' <=> InFlight(u, cronGen)
      BY <1>25, TypeOK DEF EnterGate, Skipped, InFlight, TypeOK
    <2> QED
      BY <1>25, <2>1, BalanceKept DEF EnterGate
  <1>26. ASSUME NEW t \in Ticks, NewOwner(t)
        PROVE  ActiveBalanced'
    <2>1. \A u \in Ticks : InFlight(u, cronGen)' <=> InFlight(u, cronGen)
      BY <1>26, TypeOK DEF NewOwner, InFlight, TypeOK
    <2> QED
      BY <1>26, <2>1, BalanceKept DEF NewOwner
  <1>27. ASSUME NEW t \in Ticks, TickReturns(t)
        PROVE  ActiveBalanced'
    <2>1. \A u \in Ticks : InFlight(u, cronGen)' <=> InFlight(u, cronGen)
      BY <1>27, TypeOK DEF TickReturns, InFlight, TypeOK
    <2> QED
      BY <1>27, <2>1, BalanceKept DEF TickReturns
  <1>28. ASSUME NEW t \in Ticks, LeaveGate(t)
        PROVE  ActiveBalanced'
    <2>1. \A u \in Ticks : InFlight(u, cronGen)' <=> InFlight(u, cronGen)
      BY <1>28, TypeOK DEF LeaveGate, LosesOwner, InFlight, TypeOK
    <2> QED
      BY <1>28, <2>1, BalanceKept DEF LeaveGate
  <1>29. ASSUME NEW t \in Ticks, CronEnd(t)
        PROVE  ActiveBalanced'
    <2>1. CASE EndsCurrent(t)
      <3>1. t \in Flights
        BY <1>29, <2>1 DEF CronEnd, EndsCurrent, Flights, InFlight
      <3>2. Flights' = Flights \ {t}
        BY <1>29, TypeOK DEF CronEnd, Flights, InFlight, TypeOK
      <3>3. Cardinality(Flights') = Cardinality(Flights) - 1
        BY <3>1, <3>2, FS_RemoveElement, FlightsFinite
      <3> QED
        BY <1>29, <2>1, <3>3 DEF CronEnd, ActiveBalanced, Flights
    <2>2. CASE ~EndsCurrent(t)
      <3>1. \A u \in Ticks : InFlight(u, cronGen)' <=> InFlight(u, cronGen)
        BY <1>29, <2>2, TypeOK DEF CronEnd, EndsCurrent, InFlight, TypeOK
      <3> QED
        BY <1>29, <2>2, <3>1, BalanceKept DEF CronEnd
    <2> QED
      BY <2>1, <2>2
  <1>30. CASE UNCHANGED vars
    BY <1>30 DEF vars, ActiveBalanced, InFlight
  <1> QED
    BY <1>1, <1>2, <1>3, <1>4, <1>5, <1>6, <1>7, <1>8, <1>9, <1>10, <1>11,
       <1>12, <1>13, <1>14, <1>15, <1>16, <1>17, <1>18, <1>19, <1>20, <1>21,
       <1>22, <1>23, <1>24, <1>25, <1>26, <1>27, <1>28, <1>29, <1>30 DEF
       Next, CallStep, HaltStep, TickStep

\* Once the scheduler is off, an idle tick stays idle.
LEMMA QuietNext ==
  ASSUME TypeOK, ScheduleQuiet, [Next]_vars
  PROVE  ScheduleQuiet'
  <1>1. CASE ClaimStart
    BY <1>1, TypeOK, ScheduleQuiet
       DEF ClaimStart, GateOpen, Reserved, NoCall, TypeOK, ScheduleQuiet
  <1>2. CASE Schedule
    BY <1>2, TypeOK, ScheduleQuiet DEF Schedule, TypeOK, ScheduleQuiet
  <1>3. CASE PublishRunning
    BY <1>3, TypeOK, ScheduleQuiet DEF PublishRunning, NoCall, TypeOK, ScheduleQuiet
  <1>4. CASE ClaimTeardown
    BY <1>4, TypeOK, ScheduleQuiet
       DEF ClaimTeardown, GateOpen, Reserved, NoCall, TypeOK, ScheduleQuiet
  <1>5. CASE ForgetSchedule
    BY <1>5, TypeOK, ScheduleQuiet DEF ForgetSchedule, TypeOK, ScheduleQuiet
  <1>6. CASE Unschedule
    BY <1>6, TypeOK, ScheduleQuiet DEF Unschedule, TypeOK, ScheduleQuiet
  <1>7. CASE DrainTicks
    BY <1>7, TypeOK, ScheduleQuiet
       DEF DrainTicks, CancelSchedule, TicksLeft, TypeOK, ScheduleQuiet
  <1>8. CASE BeginStop
    BY <1>8, TypeOK, ScheduleQuiet DEF BeginStop, TypeOK, ScheduleQuiet
  <1>9. CASE MarkStopping
    BY <1>9, TypeOK, ScheduleQuiet DEF MarkStopping, TypeOK, ScheduleQuiet
  <1>10. CASE StopSequence
    BY <1>10, TypeOK, ScheduleQuiet DEF StopSequence, TypeOK, ScheduleQuiet
  <1>11. CASE AwaitTicks
    BY <1>11, TypeOK, ScheduleQuiet DEF AwaitTicks, LatchOpen, TypeOK, ScheduleQuiet
  <1>12. CASE AwaitTimedOut
    BY <1>12, TypeOK, ScheduleQuiet DEF AwaitTimedOut, TypeOK, ScheduleQuiet
  <1>13. CASE FinishStop
    BY <1>13, TypeOK, ScheduleQuiet
       DEF FinishStop, AccountStop, NoCall, TypeOK, ScheduleQuiet
  <1>14. CASE RemoveEntry
    BY <1>14, TypeOK, ScheduleQuiet
       DEF RemoveEntry, CancelSchedule, TypeOK, ScheduleQuiet
  <1>15. CASE SweepOwners
    BY <1>15, TypeOK, ScheduleQuiet DEF SweepOwners, NoCall, TypeOK, ScheduleQuiet
  <1>16. CASE SwapService
    BY <1>16, TypeOK, ScheduleQuiet DEF SwapService, TypeOK, ScheduleQuiet
  <1>17. CASE HaltGate
    BY <1>17, TypeOK, ScheduleQuiet DEF HaltGate, NoHalt, TypeOK, ScheduleQuiet
  <1>18. CASE HaltCancel
    BY <1>18, TypeOK, ScheduleQuiet DEF HaltCancel, TypeOK, ScheduleQuiet
  <1>19. CASE HaltJobs
    BY <1>19, TypeOK, ScheduleQuiet DEF HaltJobs, TypeOK, ScheduleQuiet
  <1>20. CASE HaltBegin
    BY <1>20, TypeOK, ScheduleQuiet DEF HaltBegin, TypeOK, ScheduleQuiet
  <1>21. CASE HaltMark
    BY <1>21, TypeOK, ScheduleQuiet DEF HaltMark, TypeOK, ScheduleQuiet
  <1>22. CASE HaltFinish
    BY <1>22, TypeOK, ScheduleQuiet
       DEF HaltFinish, AccountStop, NoHalt, TypeOK, ScheduleQuiet
  <1>23. ASSUME NEW t \in Ticks, Dispatch(t)
        PROVE  ScheduleQuiet'
    BY <1>23, TypeOK, ScheduleQuiet DEF Dispatch, TypeOK, ScheduleQuiet
  <1>24. ASSUME NEW t \in Ticks, CronBegin(t)
        PROVE  ScheduleQuiet'
    BY <1>24, TypeOK, ScheduleQuiet
       DEF CronBegin, RefusesTick, Cancelled, TypeOK, ScheduleQuiet
  <1>25. ASSUME NEW t \in Ticks, EnterGate(t)
        PROVE  ScheduleQuiet'
    BY <1>25, TypeOK, ScheduleQuiet DEF EnterGate, Skipped, TypeOK, ScheduleQuiet
  <1>26. ASSUME NEW t \in Ticks, NewOwner(t)
        PROVE  ScheduleQuiet'
    BY <1>26, TypeOK, ScheduleQuiet DEF NewOwner, TypeOK, ScheduleQuiet
  <1>27. ASSUME NEW t \in Ticks, TickReturns(t)
        PROVE  ScheduleQuiet'
    BY <1>27, TypeOK, ScheduleQuiet DEF TickReturns, TypeOK, ScheduleQuiet
  <1>28. ASSUME NEW t \in Ticks, LeaveGate(t)
        PROVE  ScheduleQuiet'
    BY <1>28, TypeOK, ScheduleQuiet DEF LeaveGate, LosesOwner, TypeOK, ScheduleQuiet
  <1>29. ASSUME NEW t \in Ticks, CronEnd(t)
        PROVE  ScheduleQuiet'
    BY <1>29, TypeOK, ScheduleQuiet DEF CronEnd, EndsCurrent, TypeOK, ScheduleQuiet
  <1>30. CASE UNCHANGED vars
    BY <1>30 DEF vars, ScheduleQuiet
  <1> QED
    BY <1>1, <1>2, <1>3, <1>4, <1>5, <1>6, <1>7, <1>8, <1>9, <1>10, <1>11,
       <1>12, <1>13, <1>14, <1>15, <1>16, <1>17, <1>18, <1>19, <1>20, <1>21,
       <1>22, <1>23, <1>24, <1>25, <1>26, <1>27, <1>28, <1>29, <1>30 DEF
       Next, CallStep, HaltStep, TickStep

\* A draining schedule admits no tick, so its count only falls, and its latch
\* closes when it reaches zero.
LEMMA DrainNext ==
  ASSUME TypeOK, GenerationsBounded, ActiveBalanced, DrainUnderway, [Next]_vars
  PROVE  DrainUnderway'
  <1>1. CASE ClaimStart
    BY <1>1, TypeOK, GenerationsBounded, DrainUnderway
       DEF ClaimStart, GateOpen, Reserved, NoCall, TypeOK, GenerationsBounded,
           DrainUnderway
  <1>2. CASE Schedule
    BY <1>2, TypeOK, GenerationsBounded, DrainUnderway
       DEF Schedule, TypeOK, GenerationsBounded, DrainUnderway
  <1>3. CASE PublishRunning
    BY <1>3, TypeOK, GenerationsBounded, DrainUnderway
       DEF PublishRunning, NoCall, TypeOK, GenerationsBounded, DrainUnderway
  <1>4. CASE ClaimTeardown
    BY <1>4, TypeOK, GenerationsBounded, DrainUnderway
       DEF ClaimTeardown, GateOpen, Reserved, NoCall, TypeOK, GenerationsBounded,
           DrainUnderway
  <1>5. CASE ForgetSchedule
    BY <1>5, TypeOK, GenerationsBounded, DrainUnderway
       DEF ForgetSchedule, TypeOK, GenerationsBounded, DrainUnderway, CallRecords
  <1>6. CASE Unschedule
    BY <1>6, TypeOK, GenerationsBounded, DrainUnderway
       DEF Unschedule, TypeOK, GenerationsBounded, DrainUnderway, CallRecords
  <1>7. CASE DrainTicks
    BY <1>7, TypeOK, GenerationsBounded, DrainUnderway
       DEF DrainTicks, CancelSchedule, TicksLeft, TypeOK, GenerationsBounded,
           DrainUnderway, CallRecords
  <1>8. CASE BeginStop
    BY <1>8, TypeOK, GenerationsBounded, DrainUnderway
       DEF BeginStop, TypeOK, GenerationsBounded, DrainUnderway, CallRecords
  <1>9. CASE MarkStopping
    BY <1>9, TypeOK, GenerationsBounded, DrainUnderway
       DEF MarkStopping, TypeOK, GenerationsBounded, DrainUnderway, CallRecords
  <1>10. CASE StopSequence
    BY <1>10, TypeOK, GenerationsBounded, DrainUnderway
       DEF StopSequence, TypeOK, GenerationsBounded, DrainUnderway, CallRecords
  <1>11. CASE AwaitTicks
    BY <1>11, TypeOK, GenerationsBounded, DrainUnderway
       DEF AwaitTicks, LatchOpen, TypeOK, GenerationsBounded, DrainUnderway,
           CallRecords
  <1>12. CASE AwaitTimedOut
    BY <1>12, TypeOK, GenerationsBounded, DrainUnderway
       DEF AwaitTimedOut, TypeOK, GenerationsBounded, DrainUnderway, CallRecords
  <1>13. CASE FinishStop
    BY <1>13, TypeOK, GenerationsBounded, DrainUnderway
       DEF FinishStop, AccountStop, NoCall, TypeOK, GenerationsBounded,
           DrainUnderway, CallRecords
  <1>14. CASE RemoveEntry
    BY <1>14, TypeOK, GenerationsBounded, DrainUnderway
       DEF RemoveEntry, CancelSchedule, TypeOK, GenerationsBounded, DrainUnderway
  <1>15. CASE SweepOwners
    BY <1>15, TypeOK, GenerationsBounded, DrainUnderway
       DEF SweepOwners, NoCall, TypeOK, GenerationsBounded, DrainUnderway
  <1>16. CASE SwapService
    BY <1>16, TypeOK, GenerationsBounded, DrainUnderway
       DEF SwapService, TypeOK, GenerationsBounded, DrainUnderway
  <1>17. CASE HaltGate
    BY <1>17, TypeOK, GenerationsBounded, DrainUnderway
       DEF HaltGate, NoHalt, TypeOK, GenerationsBounded, DrainUnderway
  <1>18. CASE HaltCancel
    BY <1>18, TypeOK, GenerationsBounded, DrainUnderway
       DEF HaltCancel, TypeOK, GenerationsBounded, DrainUnderway
  <1>19. CASE HaltJobs
    BY <1>19, TypeOK, GenerationsBounded, DrainUnderway
       DEF HaltJobs, TypeOK, GenerationsBounded, DrainUnderway
  <1>20. CASE HaltBegin
    BY <1>20, TypeOK, GenerationsBounded, DrainUnderway
       DEF HaltBegin, TypeOK, GenerationsBounded, DrainUnderway
  <1>21. CASE HaltMark
    BY <1>21, TypeOK, GenerationsBounded, DrainUnderway
       DEF HaltMark, TypeOK, GenerationsBounded, DrainUnderway
  <1>22. CASE HaltFinish
    BY <1>22, TypeOK, GenerationsBounded, DrainUnderway
       DEF HaltFinish, AccountStop, NoHalt, TypeOK, GenerationsBounded,
           DrainUnderway
  <1>23. ASSUME NEW t \in Ticks, Dispatch(t)
        PROVE  DrainUnderway'
    BY <1>23, TypeOK, GenerationsBounded, DrainUnderway
       DEF Dispatch, TypeOK, GenerationsBounded, DrainUnderway
  <1>24. ASSUME NEW t \in Ticks, CronBegin(t)
        PROVE  DrainUnderway'
    BY <1>24, TypeOK, GenerationsBounded, DrainUnderway
       DEF CronBegin, RefusesTick, Cancelled, TypeOK, GenerationsBounded,
           DrainUnderway
  <1>25. ASSUME NEW t \in Ticks, EnterGate(t)
        PROVE  DrainUnderway'
    BY <1>25, TypeOK, GenerationsBounded, DrainUnderway
       DEF EnterGate, Skipped, TypeOK, GenerationsBounded, DrainUnderway
  <1>26. ASSUME NEW t \in Ticks, NewOwner(t)
        PROVE  DrainUnderway'
    BY <1>26, TypeOK, GenerationsBounded, DrainUnderway
       DEF NewOwner, TypeOK, GenerationsBounded, DrainUnderway
  <1>27. ASSUME NEW t \in Ticks, TickReturns(t)
        PROVE  DrainUnderway'
    BY <1>27, TypeOK, GenerationsBounded, DrainUnderway
       DEF TickReturns, TypeOK, GenerationsBounded, DrainUnderway
  <1>28. ASSUME NEW t \in Ticks, LeaveGate(t)
        PROVE  DrainUnderway'
    BY <1>28, TypeOK, GenerationsBounded, DrainUnderway
       DEF LeaveGate, LosesOwner, TypeOK, GenerationsBounded, DrainUnderway
  <1>29. ASSUME NEW t \in Ticks, CronEnd(t)
        PROVE  DrainUnderway'
    BY <1>29, TypeOK, GenerationsBounded, DrainUnderway, EndIsCounted
       DEF CronEnd, EndsCurrent, TypeOK, GenerationsBounded, DrainUnderway
  <1>30. CASE UNCHANGED vars
    BY <1>30 DEF vars, DrainUnderway
  <1> QED
    BY <1>1, <1>2, <1>3, <1>4, <1>5, <1>6, <1>7, <1>8, <1>9, <1>10, <1>11,
       <1>12, <1>13, <1>14, <1>15, <1>16, <1>17, <1>18, <1>19, <1>20, <1>21,
       <1>22, <1>23, <1>24, <1>25, <1>26, <1>27, <1>28, <1>29, <1>30 DEF
       Next, CallStep, HaltStep, TickStep

\* finishStop follows the wait, or a whole shutdown that saw every tick idle.
LEMMA StoppedNext ==
  ASSUME TypeOK, ActiveBalanced, ScheduleQuiet, DrainUnderway, StoppedQuiet, [Next]_vars
  PROVE  StoppedQuiet'
  <1>1. CASE ClaimStart
    BY <1>1, TypeOK, StoppedQuiet
       DEF ClaimStart, GateOpen, Reserved, NoCall, TypeOK, StoppedQuiet
  <1>2. CASE Schedule
    BY <1>2, TypeOK, StoppedQuiet DEF Schedule, TypeOK, StoppedQuiet
  <1>3. CASE PublishRunning
    BY <1>3, TypeOK, StoppedQuiet DEF PublishRunning, NoCall, TypeOK, StoppedQuiet
  <1>4. CASE ClaimTeardown
    BY <1>4, TypeOK, StoppedQuiet
       DEF ClaimTeardown, GateOpen, Reserved, NoCall, TypeOK, StoppedQuiet
  <1>5. CASE ForgetSchedule
    BY <1>5, TypeOK, StoppedQuiet DEF ForgetSchedule, TypeOK, StoppedQuiet
  <1>6. CASE Unschedule
    BY <1>6, TypeOK, StoppedQuiet DEF Unschedule, TypeOK, StoppedQuiet
  <1>7. CASE DrainTicks
    BY <1>7, TypeOK, StoppedQuiet
       DEF DrainTicks, CancelSchedule, TicksLeft, TypeOK, StoppedQuiet
  <1>8. CASE BeginStop
    BY <1>8, TypeOK, StoppedQuiet DEF BeginStop, TypeOK, StoppedQuiet
  <1>9. CASE MarkStopping
    BY <1>9, TypeOK, StoppedQuiet DEF MarkStopping, TypeOK, StoppedQuiet
  <1>10. CASE StopSequence
    BY <1>10, TypeOK, StoppedQuiet DEF StopSequence, TypeOK, StoppedQuiet
  <1>11. CASE AwaitTicks
    BY <1>11, TypeOK, StoppedQuiet DEF AwaitTicks, LatchOpen, TypeOK, StoppedQuiet
  <1>12. CASE AwaitTimedOut
    BY <1>12, TypeOK, StoppedQuiet DEF AwaitTimedOut, TypeOK, StoppedQuiet
  <1>13. CASE FinishStop
    BY <1>13, TypeOK, StoppedQuiet, DrainUnderway
       DEF FinishStop, AccountStop, NoCall, TypeOK, StoppedQuiet, DrainUnderway
  <1>14. CASE RemoveEntry
    BY <1>14, TypeOK, StoppedQuiet DEF RemoveEntry, CancelSchedule, TypeOK, StoppedQuiet
  <1>15. CASE SweepOwners
    BY <1>15, TypeOK, StoppedQuiet DEF SweepOwners, NoCall, TypeOK, StoppedQuiet
  <1>16. CASE SwapService
    BY <1>16, TypeOK, StoppedQuiet DEF SwapService, TypeOK, StoppedQuiet
  <1>17. CASE HaltGate
    BY <1>17, TypeOK, StoppedQuiet DEF HaltGate, NoHalt, TypeOK, StoppedQuiet
  <1>18. CASE HaltCancel
    BY <1>18, TypeOK, StoppedQuiet DEF HaltCancel, TypeOK, StoppedQuiet
  <1>19. CASE HaltJobs
    BY <1>19, TypeOK, StoppedQuiet DEF HaltJobs, TypeOK, StoppedQuiet
  <1>20. CASE HaltBegin
    BY <1>20, TypeOK, StoppedQuiet DEF HaltBegin, TypeOK, StoppedQuiet
  <1>21. CASE HaltMark
    BY <1>21, TypeOK, StoppedQuiet DEF HaltMark, TypeOK, StoppedQuiet
  <1>22. CASE HaltFinish
    <2>1. Flights = {}
      BY <1>22 DEF HaltFinish, ScheduleQuiet, Flights, InFlight
    <2>2. cronActive = 0
      BY <2>1, FS_EmptySet DEF ActiveBalanced, Flights
    <2> QED
      BY <1>22, <2>2 DEF HaltFinish, AccountStop, StoppedQuiet
  <1>23. ASSUME NEW t \in Ticks, Dispatch(t)
        PROVE  StoppedQuiet'
    BY <1>23, TypeOK, StoppedQuiet, ScheduleQuiet
       DEF Dispatch, TypeOK, StoppedQuiet, ScheduleQuiet
  <1>24. ASSUME NEW t \in Ticks, CronBegin(t)
        PROVE  StoppedQuiet'
    BY <1>24, TypeOK, StoppedQuiet, ScheduleQuiet
       DEF CronBegin, RefusesTick, Cancelled, TypeOK, StoppedQuiet, ScheduleQuiet
  <1>25. ASSUME NEW t \in Ticks, EnterGate(t)
        PROVE  StoppedQuiet'
    BY <1>25, TypeOK, StoppedQuiet, ScheduleQuiet
       DEF EnterGate, Skipped, TypeOK, StoppedQuiet, ScheduleQuiet
  <1>26. ASSUME NEW t \in Ticks, NewOwner(t)
        PROVE  StoppedQuiet'
    BY <1>26, TypeOK, StoppedQuiet, ScheduleQuiet
       DEF NewOwner, TypeOK, StoppedQuiet, ScheduleQuiet
  <1>27. ASSUME NEW t \in Ticks, TickReturns(t)
        PROVE  StoppedQuiet'
    BY <1>27, TypeOK, StoppedQuiet, ScheduleQuiet
       DEF TickReturns, TypeOK, StoppedQuiet, ScheduleQuiet
  <1>28. ASSUME NEW t \in Ticks, LeaveGate(t)
        PROVE  StoppedQuiet'
    BY <1>28, TypeOK, StoppedQuiet, ScheduleQuiet
       DEF LeaveGate, LosesOwner, TypeOK, StoppedQuiet, ScheduleQuiet
  <1>29. ASSUME NEW t \in Ticks, CronEnd(t)
        PROVE  StoppedQuiet'
    BY <1>29, TypeOK, StoppedQuiet, EndIsCounted, ScheduleQuiet
       DEF CronEnd, EndsCurrent, TypeOK, StoppedQuiet, ScheduleQuiet
  <1>30. CASE UNCHANGED vars
    BY <1>30 DEF vars, StoppedQuiet
  <1> QED
    BY <1>1, <1>2, <1>3, <1>4, <1>5, <1>6, <1>7, <1>8, <1>9, <1>10, <1>11,
       <1>12, <1>13, <1>14, <1>15, <1>16, <1>17, <1>18, <1>19, <1>20, <1>21,
       <1>22, <1>23, <1>24, <1>25, <1>26, <1>27, <1>28, <1>29, <1>30 DEF
       Next, CallStep, HaltStep, TickStep

LEMMA DrainInit == Init => DrainInv
  <1> SUFFICES ASSUME Init PROVE DrainInv
    OBVIOUS
  <1>1. TypeOK
    BY CronAssumption, CallTypes
       DEF Init, TypeOK, Statuses, TickPcs, CallPcs, HaltPcs
  <1>2. GenerationsBounded /\ ScheduleQuiet /\ DrainUnderway /\ StoppedQuiet
    BY DEF Init, GenerationsBounded, ScheduleQuiet, DrainUnderway, StoppedQuiet
  <1>3. Flights = {}
    BY DEF Init, Flights, InFlight
  <1>4. ActiveBalanced
    BY <1>3, FS_EmptySet DEF Init, ActiveBalanced, Flights
  <1> QED
    BY <1>1, <1>2, <1>4 DEF DrainInv

LEMMA DrainInvNext == DrainInv /\ [Next]_vars => DrainInv'
  BY TypeNext, BoundedNext, BalanceNext, QuietNext, DrainNext, StoppedNext DEF DrainInv

LEMMA DrainCorrect == Spec => []DrainInv
  BY DrainInit, DrainInvNext, PTL DEF Spec

-----------------------------------------------------------------------------
(* The theorems. *)

\* Every variable keeps its type; in particular no stale tick drives the counter
\* of the tick accounting below zero.
THEOREM CronTypeCorrect == Spec => []TypeOK
  <1>1. DrainInv => TypeOK
    BY DEF DrainInv
  <1> QED
    BY <1>1, DrainCorrect, PTL

\* The counter is the number of ticks of the installed schedule in flight, for
\* any number of ticks and schedules in any order of ends.
THEOREM ActiveCorrect == Spec => []ActiveBalanced
  <1>1. DrainInv => ActiveBalanced
    BY DEF DrainInv
  <1> QED
    BY <1>1, DrainCorrect, PTL

\* A verified stop, of the service or of the orchestrator, leaves no tick of the
\* schedule it drained in flight.
THEOREM StopDrains == Spec => []StopMeansDrained
  <1>1. DrainInv => StopMeansDrained
    <2> SUFFICES ASSUME DrainInv, status = "Stopped", pc # "publish",
                        NEW t \in Ticks, InFlight(t, cronGen)
                 PROVE  FALSE
      BY DEF StopMeansDrained
    <2>1. cronActive = 0 /\ cronActive = Cardinality(Flights)
      BY DEF DrainInv, StoppedQuiet, ActiveBalanced, Flights
    <2>2. t \in Flights
      BY DEF Flights
    <2> QED
      BY <2>1, <2>2, FlightsFinite
  <1> QED
    BY <1>1, DrainCorrect, PTL

-----------------------------------------------------------------------------
(***************************************************************************)
(* What the ticks, the schedules and the owners of a cron entry keep to,   *)
(* for any number of ticks and schedules: the concurrency policy, the      *)
(* cancellation of the ticks a teardown leaves behind, and that nothing    *)
(* outlives the tick or the schedule it belongs to.                        *)
(***************************************************************************)

Begun(t) == tick[t] \notin {"idle", "begin"}

-----------------------------------------------------------------------------
(* The concurrency policies. *)

\* The lock, or the flag, is taken while a tick is in user code.
GateHeld ==
    /\ mode = "queue" => \A t \in Ticks : InUserCode(t) => cronMu = t
    /\ mode = "skip" /\ ~removed => \A t \in Ticks : InUserCode(t) => running

GateInv == tick \in [Ticks -> TickPcs] /\ GateHeld /\ OneTickAtATime

policyVars == <<mode, removed, running, cronMu, tick>>

LEMMA GateKept == GateInv /\ UNCHANGED policyVars => GateInv'
  BY DEF GateInv, GateHeld, OneTickAtATime, InUserCode, policyVars

\* A step of a tick that neither enters nor leaves user code.
LEMMA GateMove ==
  ASSUME GateInv, NEW t \in Ticks, NEW p \in TickPcs,
         tick' = [tick EXCEPT ![t] = p],
         p \in {"owner", "run", "release"} => InUserCode(t),
         UNCHANGED <<mode, removed>>, cronMu' = cronMu, running => running'
  PROVE  GateInv'
  <1>1. tick' \in [Ticks -> TickPcs] /\ \A u \in Ticks : InUserCode(u)' => InUserCode(u)
    BY DEF GateInv, InUserCode
  <1> QED
    BY <1>1 DEF GateInv, GateHeld, OneTickAtATime

LEMMA GateEntered ==
  ASSUME GateInv, NEW t \in Ticks, EnterGate(t) PROVE GateInv'
  <1>1. tick[t] = "gate" /\ "owner" \in TickPcs /\ "end" \in TickPcs /\ 0 \notin Ticks
    BY CronAssumption DEF EnterGate, TickPcs
  <1>2. CASE mode = "parallel"
    <2>1. tick' \in [Ticks -> TickPcs] /\ mode' = "parallel"
      BY <1>1, <1>2 DEF EnterGate, GateInv
    <2> QED
      BY <2>1 DEF GateInv, GateHeld, OneTickAtATime
  <1>3. CASE mode = "queue"
    <2>1. /\ cronMu = 0 /\ cronMu' = t /\ tick' = [tick EXCEPT ![t] = "owner"]
          /\ mode' = "queue"
      BY <1>3 DEF EnterGate
    <2>2. \A u \in Ticks : ~InUserCode(u)
      BY <1>1, <1>3, <2>1 DEF GateInv, GateHeld
    <2>3. \A u \in Ticks : InUserCode(u)' => u = t
      BY <1>1, <2>1, <2>2 DEF GateInv, InUserCode
    <2> QED
      BY <1>1, <2>1, <2>3 DEF GateInv, GateHeld, OneTickAtATime
  <1>4. CASE mode = "skip" /\ running
    <2>1. /\ tick' = [tick EXCEPT ![t] = "end"] /\ running' /\ cronMu' = cronMu
          /\ UNCHANGED <<mode, removed>>
      BY <1>4 DEF EnterGate, Skipped
    <2> QED
      BY <1>1, <2>1, GateMove
  <1>5. CASE mode = "skip" /\ ~running
    <2>1. /\ tick' = [tick EXCEPT ![t] = "owner"] /\ running'
          /\ mode' = "skip" /\ removed' = removed
      BY <1>5 DEF EnterGate, Skipped
    <2>2. ~removed => \A u \in Ticks : ~InUserCode(u)
      BY <1>5 DEF GateInv, GateHeld
    <2>3. ~removed' => \A u \in Ticks : InUserCode(u)' => u = t
      BY <1>1, <2>1, <2>2 DEF GateInv, InUserCode
    <2> QED
      BY <1>1, <2>1, <2>3 DEF GateInv, GateHeld, OneTickAtATime
  <1> QED
    BY <1>2, <1>3, <1>4, <1>5 DEF EnterGate

LEMMA GateLeft ==
  ASSUME GateInv, NEW t \in Ticks, LeaveGate(t) PROVE GateInv'
  <1>1. /\ tick[t] = "release" /\ InUserCode(t) /\ "end" \in TickPcs
        /\ tick' = [tick EXCEPT ![t] = "end"] /\ UNCHANGED <<mode, removed>>
    BY DEF LeaveGate, InUserCode, TickPcs
  <1>2. /\ tick' \in [Ticks -> TickPcs]
        /\ \A u \in Ticks : InUserCode(u)' => InUserCode(u) /\ u # t
    BY <1>1 DEF GateInv, InUserCode
  <1>3. OneTickAtATime'
    BY <1>1, <1>2 DEF GateInv, OneTickAtATime
  <1>4. mode = "queue" \/ (mode = "skip" /\ ~removed) => \A u \in Ticks : ~InUserCode(u)'
    BY <1>1, <1>2 DEF GateInv, OneTickAtATime
  <1>5. GateHeld'
    BY <1>1, <1>4 DEF GateHeld
  <1> QED
    BY <1>2, <1>3, <1>5 DEF GateInv

LEMMA GateNext == GateInv /\ [Next]_vars => GateInv'
  <1> SUFFICES ASSUME GateInv, [Next]_vars PROVE GateInv'
    OBVIOUS
  <1>1. CASE ClaimStart \/ ClaimTeardown \/ HaltGate
    BY <1>1, GateKept DEF ClaimStart, ClaimTeardown, HaltGate, policyVars
  <1>2. CASE CallStep
    <2>1. CASE RemoveEntry
      BY <2>1 DEF RemoveEntry, GateInv, GateHeld, OneTickAtATime, InUserCode
    <2>2. CASE ~RemoveEntry
      BY <1>2, <2>2, GateKept
         DEF CallStep, Schedule, PublishRunning, ForgetSchedule, Unschedule, DrainTicks,
             BeginStop, MarkStopping, StopSequence, AwaitTicks, AwaitTimedOut, FinishStop,
             SweepOwners, SwapService, policyVars
    <2> QED
      BY <2>1, <2>2
  <1>3. CASE HaltStep
    BY <1>3, GateKept
       DEF HaltStep, HaltCancel, HaltJobs, HaltBegin, HaltMark, HaltFinish, policyVars
  <1>4. ASSUME NEW t \in Ticks, Dispatch(t) PROVE GateInv'
    BY <1>4, GateMove DEF Dispatch, TickPcs
  <1>5. ASSUME NEW t \in Ticks, CronBegin(t) PROVE GateInv'
    BY <1>5, GateMove DEF CronBegin, TickPcs
  <1>6. ASSUME NEW t \in Ticks, NewOwner(t) PROVE GateInv'
    BY <1>6, GateMove DEF NewOwner, InUserCode, TickPcs
  <1>7. ASSUME NEW t \in Ticks, TickReturns(t) PROVE GateInv'
    BY <1>7, GateMove DEF TickReturns, InUserCode, TickPcs
  <1>8. ASSUME NEW t \in Ticks, CronEnd(t) PROVE GateInv'
    BY <1>8, GateMove DEF CronEnd, TickPcs
  <1>9. CASE UNCHANGED vars
    BY <1>9, GateKept DEF vars, policyVars
  <1> QED
    BY <1>1, <1>2, <1>3, <1>4, <1>5, <1>6, <1>7, <1>8, <1>9, GateEntered, GateLeft
       DEF Next, TickStep

-----------------------------------------------------------------------------
(* Schedules and owners. *)

\* A teardown past its first step leaves the entry without a schedule.
Forgotten ==
    pc \in {"unschedule", "drain", "begin", "mark", "sequence", "await", "finish",
            "remove", "sweep"} => cronID = 0

SchedInv ==
    /\ cronGen \in Nat /\ tick \in [Ticks -> TickPcs] /\ call \in CallRecords
    /\ 0 \notin scheduled /\ Forgotten /\ NothingLeftBehind

LEMMA ScheduleKept ==
  ASSUME SchedInv, UNCHANGED <<cronGen, cronID, scheduled, call, pc, owners, tick>>
  PROVE  SchedInv'
  BY DEF SchedInv, Forgotten, NothingLeftBehind, SingleSchedule, OwnersAreTicks

\* A step of the call that leaves schedules and ticks alone.
LEMMA CallMove ==
  ASSUME SchedInv, pc # "unschedule", pc' # "unschedule", call' \in CallRecords,
         UNCHANGED <<cronID, scheduled, tick>>,
         owners' \subseteq owners, cronGen' \in Nat,
         Forgotten'
  PROVE  SchedInv'
  BY DEF SchedInv, NothingLeftBehind, SingleSchedule, OwnersAreTicks

\* A step of a tick: it has an owner only while it runs.
LEMMA TickMove ==
  ASSUME SchedInv, NEW t \in Ticks, NEW p \in TickPcs,
         tick' = [tick EXCEPT ![t] = p],
         UNCHANGED <<cronGen, cronID, scheduled, call, pc>>,
         owners' \subseteq owners \cup {t},
         t \in owners' => p \in {"run", "release"}
  PROVE  SchedInv'
  <1>1. \A u \in owners' : tick'[u] \in {"run", "release"}
    BY DEF SchedInv, NothingLeftBehind, OwnersAreTicks
  <1> QED
    BY <1>1 DEF SchedInv, Forgotten, NothingLeftBehind, SingleSchedule, OwnersAreTicks

LEMMA RecordTypes ==
  ASSUME call \in CallRecords, cronGen \in Nat, cronID \in Nat
  PROVE  /\ NoCall \in CallRecords
         /\ [NoCall EXCEPT !.kind = "start"] \in CallRecords
         /\ [call EXCEPT !.id = cronID] \in CallRecords
         /\ [call EXCEPT !.id = 0] \in CallRecords
         /\ [call EXCEPT !.id = cronID].id = cronID
         /\ \A n \in Nat : [call EXCEPT !.awaited = n] \in CallRecords
         /\ \A a, b \in BOOLEAN :
              /\ [call EXCEPT !.active = a, !.completed = b] \in CallRecords
              /\ [call EXCEPT !.completed = a, !.err = b] \in CallRecords
              /\ [call EXCEPT !.awaited = 0, !.completed = a, !.err = b] \in CallRecords
  BY DEF CallRecords, NoCall

LEMMA CallStepSched ==
  ASSUME SchedInv, CallStep, cronID \in Nat PROVE SchedInv'
  <1> call \in CallRecords /\ cronGen \in Nat
    BY DEF SchedInv
  <1>1. CASE Schedule
    <2>1. CASE cronID = 0
      <3>1. /\ scheduled' = scheduled \cup {cronGen + 1} /\ cronID' = cronGen + 1
            /\ cronGen' = cronGen + 1 /\ pc = "schedule" /\ pc' = "publish"
            /\ UNCHANGED <<call, owners, tick>>
        BY <1>1, <2>1 DEF Schedule
      <3>2. scheduled = {}
        BY <2>1, <3>1 DEF SchedInv, NothingLeftBehind, SingleSchedule
      <3>3. cronGen + 1 # 0 /\ cronGen + 1 \in Nat
        OBVIOUS
      <3> QED
        BY <3>1, <3>2, <3>3
           DEF SchedInv, Forgotten, NothingLeftBehind, SingleSchedule, OwnersAreTicks
    <2>2. CASE cronID # 0
      <3>1. /\ UNCHANGED <<scheduled, cronID, cronGen, call, owners, tick>>
            /\ pc = "schedule" /\ pc' = "publish"
        BY <1>1, <2>2 DEF Schedule
      <3> QED
        BY <3>1 DEF SchedInv, Forgotten, NothingLeftBehind, SingleSchedule, OwnersAreTicks
    <2> QED
      BY <2>1, <2>2
  <1>2. CASE ForgetSchedule
    <2>1. /\ pc = "forget" /\ pc' = "unschedule" /\ cronID' = 0 /\ call' \in CallRecords
          /\ call'.id = cronID /\ UNCHANGED <<scheduled, cronGen, owners, tick>>
      BY <1>2, RecordTypes DEF ForgetSchedule
    <2> QED
      BY <2>1 DEF SchedInv, Forgotten, NothingLeftBehind, SingleSchedule, OwnersAreTicks
  <1>3. CASE Unschedule
    <2>1. /\ pc = "unschedule" /\ pc' = "drain" /\ call' \in CallRecords
          /\ scheduled' = scheduled \ {call.id}
          /\ UNCHANGED <<cronID, cronGen, owners, tick>>
      BY <1>3, RecordTypes DEF Unschedule
    <2> QED
      BY <2>1 DEF SchedInv, Forgotten, NothingLeftBehind, SingleSchedule, OwnersAreTicks
  <1>4. CASE RemoveEntry
    <2>1. /\ pc = "remove" /\ pc' = "sweep" /\ cronID' = 0 /\ cronGen' = cronGen + 1
          /\ UNCHANGED <<call, scheduled, owners, tick>>
      BY <1>4 DEF RemoveEntry
    <2>2. cronID' = cronID /\ cronGen' \in Nat
      BY <2>1 DEF SchedInv, Forgotten
    <2> QED
      BY <2>1, <2>2, CallMove DEF Forgotten, SchedInv
  <1>5. CASE SweepOwners
    <2>1. /\ pc = "sweep" /\ pc' \in {"swap", "idle"} /\ call' \in CallRecords
          /\ owners' = {} /\ UNCHANGED <<cronID, cronGen, scheduled, tick>>
      BY <1>5, RecordTypes DEF SweepOwners
    <2> QED
      BY <2>1, CallMove DEF Forgotten
  <1>6. CASE FinishStop
    <2>1. /\ pc = "finish" /\ pc' \in {"remove", "sweep"}
          /\ UNCHANGED <<cronID, cronGen, scheduled, owners, tick>>
      BY <1>6 DEF FinishStop
    <2>2. call' \in CallRecords
      BY <1>6 DEF FinishStop, NoCall, CallRecords
    <2> QED
      BY <2>1, <2>2, CallMove DEF Forgotten, SchedInv
  <1>7. CASE DrainTicks
    <2>1. /\ pc = "drain" /\ pc' = "begin" /\ call' \in CallRecords
          /\ UNCHANGED <<cronID, cronGen, scheduled, owners, tick>>
      BY <1>7, RecordTypes DEF DrainTicks
    <2> QED
      BY <2>1, CallMove DEF Forgotten, SchedInv
  <1>8. CASE BeginStop \/ StopSequence \/ AwaitTicks \/ AwaitTimedOut
    <2>1. /\ pc \in {"begin", "sequence", "await"} /\ pc' \in {"mark", "await", "finish"}
          /\ UNCHANGED <<cronID, cronGen, scheduled, owners, tick>>
      BY <1>8 DEF BeginStop, StopSequence, AwaitTicks, AwaitTimedOut
    <2>2. call' \in CallRecords
      BY <1>8, RecordTypes DEF BeginStop, StopSequence, AwaitTicks, AwaitTimedOut
    <2> QED
      BY <2>1, <2>2, CallMove DEF Forgotten, SchedInv
  <1>9. CASE MarkStopping \/ SwapService
    <2>1. /\ pc \in {"mark", "swap"} /\ pc' \in {"sequence", "schedule"}
          /\ (pc = "swap" => pc' = "schedule")
          /\ UNCHANGED <<cronID, cronGen, scheduled, owners, tick, call>>
      BY <1>9 DEF MarkStopping, SwapService
    <2> QED
      BY <2>1, CallMove DEF Forgotten, SchedInv
  <1>10. CASE PublishRunning
    <2>1. /\ pc = "publish" /\ pc' = "idle" /\ call' \in CallRecords
          /\ UNCHANGED <<cronID, cronGen, scheduled, owners, tick>>
      BY <1>10, RecordTypes DEF PublishRunning
    <2> QED
      BY <2>1, CallMove DEF Forgotten, SchedInv
  <1> QED
    BY <1>1, <1>2, <1>3, <1>4, <1>5, <1>6, <1>7, <1>8, <1>9, <1>10 DEF CallStep

LEMMA SchedNext == SchedInv /\ TypeOK /\ [Next]_vars => SchedInv'
  <1> SUFFICES ASSUME SchedInv, cronID \in Nat, [Next]_vars PROVE SchedInv'
    BY DEF TypeOK
  <1>1. CASE ClaimStart
    <2>1. /\ pc = "idle" /\ pc' = "schedule" /\ call' \in CallRecords
          /\ UNCHANGED <<cronID, cronGen, scheduled, owners, tick>>
      BY <1>1, RecordTypes DEF ClaimStart, GateOpen, Reserved, SchedInv
    <2> QED
      BY <2>1, CallMove DEF Forgotten, SchedInv
  <1>2. CASE ClaimTeardown
    <2>1. /\ pc = "idle" /\ pc' = "forget"
          /\ UNCHANGED <<cronID, cronGen, scheduled, owners, tick>>
      BY <1>2 DEF ClaimTeardown, GateOpen, Reserved
    <2>2. PICK kind \in Kinds \ {"start"}, deadline \in Deadlines :
             call' = [NoCall EXCEPT !.kind = kind, !.deadline = deadline]
      BY <1>2 DEF ClaimTeardown
    <2>3. kind \in {"stop", "unregister", "replace"} /\ deadline \in BOOLEAN
      BY <2>2, CronAssumption
    <2>4. call' \in CallRecords
      BY <2>2, <2>3 DEF NoCall, CallRecords
    <2> QED
      BY <2>1, <2>4, CallMove DEF Forgotten, SchedInv
  <1>3. CASE HaltGate \/ HaltStep
    BY <1>3, ScheduleKept
       DEF HaltGate, HaltStep, HaltCancel, HaltJobs, HaltBegin, HaltMark, HaltFinish
  <1>4. ASSUME NEW t \in Ticks, Dispatch(t) PROVE SchedInv'
    <2>1. t \notin owners
      BY <1>4 DEF Dispatch, SchedInv, NothingLeftBehind, OwnersAreTicks
    <2> QED
      BY <1>4, <2>1, TickMove DEF Dispatch, TickPcs
  <1>5. ASSUME NEW t \in Ticks, CronBegin(t) PROVE SchedInv'
    <2>1. t \notin owners
      BY <1>5 DEF CronBegin, SchedInv, NothingLeftBehind, OwnersAreTicks
    <2> QED
      BY <1>5, <2>1, TickMove DEF CronBegin, TickPcs
  <1>6. ASSUME NEW t \in Ticks, EnterGate(t) PROVE SchedInv'
    <2>1. t \notin owners
      BY <1>6 DEF EnterGate, SchedInv, NothingLeftBehind, OwnersAreTicks
    <2> QED
      BY <1>6, <2>1, TickMove DEF EnterGate, Skipped, TickPcs
  <1>7. ASSUME NEW t \in Ticks, NewOwner(t) PROVE SchedInv'
    BY <1>7, TickMove DEF NewOwner, TickPcs
  <1>8. ASSUME NEW t \in Ticks, TickReturns(t) PROVE SchedInv'
    BY <1>8, TickMove DEF TickReturns, TickPcs
  <1>9. ASSUME NEW t \in Ticks, LeaveGate(t) PROVE SchedInv'
    <2>1. /\ owners' = owners \ {t} /\ tick' = [tick EXCEPT ![t] = "end"]
          /\ UNCHANGED <<cronGen, cronID, scheduled, call, pc>>
      BY <1>9 DEF LeaveGate, LosesOwner
    <2>2. \A u \in owners' : tick'[u] \in {"run", "release"}
      BY <2>1 DEF SchedInv, NothingLeftBehind, OwnersAreTicks
    <2>3. tick' \in [Ticks -> TickPcs]
      BY <2>1 DEF SchedInv, TickPcs
    <2> QED
      BY <2>1, <2>2, <2>3
         DEF SchedInv, Forgotten, NothingLeftBehind, SingleSchedule, OwnersAreTicks
  <1>10. ASSUME NEW t \in Ticks, CronEnd(t) PROVE SchedInv'
    <2>1. t \notin owners
      BY <1>10 DEF CronEnd, SchedInv, NothingLeftBehind, OwnersAreTicks
    <2> QED
      BY <1>10, <2>1, TickMove DEF CronEnd, TickPcs
  <1>11. CASE UNCHANGED vars
    BY <1>11, ScheduleKept DEF vars
  <1> QED
    BY <1>1, <1>2, <1>3, <1>4, <1>5, <1>6, <1>7, <1>8, <1>9, <1>10, <1>11, CallStepSched
       DEF Next, TickStep

-----------------------------------------------------------------------------
(* Cancellation. *)

\* The context of the accounting is that of its generation; with none, every tick
\* in flight was cancelled.
ContextInv ==
    /\ cronGen \in Nat /\ gen \in [Ticks -> Nat] /\ tick \in [Ticks -> TickPcs]
    /\ cronCtx \in {0, cronGen} /\ cronDraining \in BOOLEAN
    /\ cronCtx = 0 => \A t \in Ticks : Begun(t) => Cancelled(gen[t])
    /\ TicksFollowSchedule

trackedVars == <<cronGen, cronCtx, cronDraining, cancelled, octx, gen, tick>>

LEMMA TrackedKept == ContextInv /\ UNCHANGED trackedVars => ContextInv'
  BY DEF ContextInv, TicksFollowSchedule, Begun, Cancelled, trackedVars

\* A step of a tick that joins no schedule.
LEMMA ContextMove ==
  ASSUME ContextInv, NEW t \in Ticks, NEW p \in TickPcs, NEW g \in Nat,
         tick' = [tick EXCEPT ![t] = p], gen' = [gen EXCEPT ![t] = g],
         p \notin {"idle", "begin"} => Begun(t) /\ g = gen[t],
         UNCHANGED <<cronGen, cronCtx, cronDraining, cancelled, octx>>
  PROVE  ContextInv'
  <1>1. /\ tick' \in [Ticks -> TickPcs] /\ gen' \in [Ticks -> Nat]
        /\ \A u \in Ticks : Begun(u)' => Begun(u) /\ gen'[u] = gen[u]
    BY DEF ContextInv, Begun
  <1> QED
    BY <1>1 DEF ContextInv, TicksFollowSchedule, Begun, Cancelled

\* A step that cancels the context of the accounting leaves no tick unsignalled.
LEMMA ContextCancelled ==
  ASSUME ContextInv, cancelled' = cancelled \cup ({cronCtx} \ {0}),
         UNCHANGED <<octx, gen, tick>>
  PROVE  \A t \in Ticks : Begun(t)' => Cancelled(gen[t])'
  <1> SUFFICES ASSUME NEW t \in Ticks, Begun(t) PROVE octx \/ gen[t] \in cancelled'
    BY DEF Begun, Cancelled
  <1>1. CASE Cancelled(gen[t])
    BY <1>1 DEF Cancelled
  <1>2. CASE ~Cancelled(gen[t])
    <2>1. gen[t] = cronGen
      BY <1>2 DEF ContextInv, TicksFollowSchedule, Begun
    <2>2. cronCtx # 0 /\ cronCtx = cronGen
      BY <1>2 DEF ContextInv
    <2> QED
      BY <2>1, <2>2
  <1> QED
    BY <1>1, <1>2

LEMMA ContextNext == ContextInv /\ TypeOK /\ [Next]_vars => ContextInv'
  <1> SUFFICES ASSUME ContextInv, scheduled \subseteq Nat, [Next]_vars PROVE ContextInv'
    BY DEF TypeOK
  <1>1. CASE ClaimStart \/ ClaimTeardown \/ HaltGate
    BY <1>1, TrackedKept DEF ClaimStart, ClaimTeardown, HaltGate, trackedVars
  <1>2. CASE Schedule
    <2>1. CASE cronID = 0
      <3>1. /\ cancelled' = cancelled \cup ({cronCtx} \ {0})
            /\ cronGen' = cronGen + 1 /\ cronCtx' = cronGen + 1 /\ cronDraining' = FALSE
            /\ UNCHANGED <<octx, gen, tick>>
        BY <1>2, <2>1 DEF Schedule
      <3>2. cronGen + 1 \in Nat /\ cronGen + 1 # 0
        BY DEF ContextInv
      <3> QED
        BY <3>1, <3>2, ContextCancelled
           DEF ContextInv, TicksFollowSchedule, Begun
    <2>2. CASE cronID # 0
      BY <1>2, <2>2, TrackedKept DEF Schedule, trackedVars
    <2> QED
      BY <2>1, <2>2
  <1>3. CASE DrainTicks
    <2>1. /\ cancelled' = cancelled \cup ({cronCtx} \ {0}) /\ cronDraining' = TRUE
          /\ UNCHANGED <<octx, gen, tick, cronGen, cronCtx>>
      BY <1>3 DEF DrainTicks, CancelSchedule
    <2> QED
      BY <2>1, ContextCancelled DEF ContextInv, TicksFollowSchedule, Begun
  <1>4. CASE RemoveEntry
    <2>1. /\ cancelled' = cancelled \cup ({cronCtx} \ {0}) /\ cronDraining' = FALSE
          /\ cronGen' = cronGen + 1 /\ cronCtx' = 0 /\ UNCHANGED <<octx, gen, tick>>
      BY <1>4 DEF RemoveEntry, CancelSchedule
    <2>2. cronGen + 1 \in Nat
      BY DEF ContextInv
    <2> QED
      BY <2>1, <2>2, ContextCancelled DEF ContextInv, TicksFollowSchedule, Begun
  <1>5. CASE CallStep /\ ~Schedule /\ ~DrainTicks /\ ~RemoveEntry
    BY <1>5, TrackedKept
       DEF CallStep, PublishRunning, ForgetSchedule, Unschedule, BeginStop, MarkStopping,
           StopSequence, AwaitTicks, AwaitTimedOut, FinishStop, SweepOwners, SwapService,
           trackedVars
  <1>6. CASE HaltCancel
    <2>1. octx' = TRUE /\ UNCHANGED <<cronGen, cronCtx, cronDraining, cancelled, gen, tick>>
      BY <1>6 DEF HaltCancel
    <2> QED
      BY <2>1 DEF ContextInv, TicksFollowSchedule, Begun, Cancelled
  <1>7. CASE HaltStep /\ ~HaltCancel
    BY <1>7, TrackedKept
       DEF HaltStep, HaltJobs, HaltBegin, HaltMark, HaltFinish, trackedVars
  <1>8. ASSUME NEW t \in Ticks, Dispatch(t) PROVE ContextInv'
    BY <1>8, ContextMove DEF Dispatch, TickPcs
  <1>9. ASSUME NEW t \in Ticks, CronBegin(t) PROVE ContextInv'
    <2>1. CASE RefusesTick(gen[t])
      BY <1>9, <2>1, ContextMove DEF CronBegin, TickPcs
    <2>2. CASE ~RefusesTick(gen[t])
      <3>1. /\ cronCtx # 0 /\ gen[t] = cronGen /\ ~cronDraining
            /\ tick' = [tick EXCEPT ![t] = "gate"]
            /\ UNCHANGED <<cronGen, cronCtx, cronDraining, cancelled, octx, gen>>
        BY <1>9, <2>2 DEF CronBegin, RefusesTick
      <3>2. /\ tick' \in [Ticks -> TickPcs]
            /\ \A u \in Ticks : Begun(u)' => u = t \/ Begun(u)
        BY <3>1 DEF ContextInv, Begun, TickPcs
      <3> QED
        BY <3>1, <3>2 DEF ContextInv, TicksFollowSchedule, Begun, Cancelled
    <2> QED
      BY <2>1, <2>2
  <1>10. ASSUME NEW t \in Ticks, EnterGate(t) \/ NewOwner(t) \/ TickReturns(t) \/ LeaveGate(t)
         PROVE  ContextInv'
    <2>1. gen[t] \in Nat /\ gen' = [gen EXCEPT ![t] = gen[t]]
      BY <1>10 DEF ContextInv, EnterGate, NewOwner, TickReturns, LeaveGate
    <2>2. PICK p \in TickPcs \ {"idle", "begin"} : tick' = [tick EXCEPT ![t] = p]
      BY <1>10 DEF EnterGate, Skipped, NewOwner, TickReturns, LeaveGate, TickPcs
    <2>3. Begun(t) /\ UNCHANGED <<cronGen, cronCtx, cronDraining, cancelled, octx>>
      BY <1>10 DEF Begun, EnterGate, NewOwner, TickReturns, LeaveGate
    <2> QED
      BY <2>1, <2>2, <2>3, ContextMove
  <1>11. ASSUME NEW t \in Ticks, CronEnd(t) PROVE ContextInv'
    BY <1>11, ContextMove DEF CronEnd, TickPcs
  <1>12. CASE UNCHANGED vars
    BY <1>12, TrackedKept DEF vars, trackedVars
  <1> QED
    BY <1>1, <1>2, <1>3, <1>4, <1>5, <1>6, <1>7, <1>8, <1>9, <1>10, <1>11, <1>12
       DEF Next, TickStep, CallStep, HaltStep

-----------------------------------------------------------------------------
(* The theorems. *)

\* CronQueue and CronSkip hold across timed-out stops, replacements and new
\* schedules (cron.go:29-80), for any number of ticks and generations.
THEOREM PolicyKept == Spec => []OneTickAtATime
  <1>1. Init => GateInv
    BY DEF Init, GateInv, GateHeld, OneTickAtATime, InUserCode, TickPcs
  <1>2. GateInv => OneTickAtATime
    BY DEF GateInv
  <1> QED
    BY <1>1, <1>2, GateNext, PTL DEF Spec

\* No teardown leaves a tick unsignalled (cron.go:86-124, entry.go:261-279): a tick
\* in flight whose context nobody cancelled is one of the installed schedule, and
\* that is not being drained.
THEOREM StaleTicksCancelled == Spec => []TicksFollowSchedule
  <1>1. Init => ContextInv
    <2> SUFFICES ASSUME Init PROVE ContextInv
      OBVIOUS
    <2>1. tick \in [Ticks -> TickPcs] /\ \A t \in Ticks : ~Begun(t)
      BY DEF Init, TickPcs, Begun
    <2>2. gen \in [Ticks -> Nat] /\ cronGen = 0 /\ cronCtx = 0 /\ ~cronDraining
      BY DEF Init
    <2>3. cronDraining \in BOOLEAN
      BY DEF Init
    <2> QED
      BY <2>1, <2>2, <2>3 DEF ContextInv, TicksFollowSchedule, Begun
  <1>2. ContextInv => TicksFollowSchedule
    BY DEF ContextInv
  <1>3. ContextInv /\ TypeOK /\ [Next]_vars => ContextInv'
    BY ContextNext
  <1>4. Spec => []TypeOK
    BY CronTypeCorrect
  <1> QED
    BY <1>1, <1>2, <1>3, <1>4, PTL DEF Spec

\* The scheduler never keeps a schedule its entry forgot (cron.go:137-145), and no
\* owner outlives its tick (cron.go:66-80).
THEOREM LeftoversCorrect == Spec => []NothingLeftBehind
  <1>1. Init => SchedInv
    <2> SUFFICES ASSUME Init PROVE SchedInv
      OBVIOUS
    <2>1. tick \in [Ticks -> TickPcs]
      BY DEF Init, TickPcs
    <2>2. cronGen = 0 /\ scheduled = {} /\ owners = {} /\ pc = "idle" /\ call \in CallRecords
      BY CallTypes DEF Init
    <2> QED
      BY <2>1, <2>2 DEF SchedInv, Forgotten, NothingLeftBehind, SingleSchedule,
         OwnersAreTicks
  <1>2. SchedInv => NothingLeftBehind
    BY DEF SchedInv
  <1>3. SchedInv /\ TypeOK /\ [Next]_vars => SchedInv'
    BY SchedNext
  <1>4. Spec => []TypeOK
    BY CronTypeCorrect
  <1> QED
    BY <1>1, <1>2, <1>3, <1>4, PTL DEF Spec

=============================================================================
