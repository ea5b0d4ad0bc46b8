----------------------------- MODULE Scheduler -----------------------------
(***************************************************************************)
(* Scheduled runs of Peggy: the scheduler of `peggy serve` (scheduler.go)    *)
(* over a ScheduleStore (schedule_store.go, schedule.go), and the commands   *)
(* `peggy schedule add|remove` (runner.go), each a process with a store of  *)
(* its own over the same file. A store reads the file when it is opened and *)
(* writes all it holds when it changes.                                    *)
(***************************************************************************)
EXTENDS Integers, FiniteSets

CONSTANTS
  Ids,         \* schedules
  Every,       \* per id, the interval in whole seconds, or 0 for one that runs once
  Fraction,    \* per id, the part of a second the interval was given with
  Commands,    \* slots for processes of `peggy schedule`
  MaxTime,     \* bound: the clock
  MaxCommands, \* bound: commands run
  MaxCrashes   \* bound: ends of the daemon and saves of it that fail

ASSUME SchedAssumption ==
  /\ Every \in [Ids -> Nat] /\ Fraction \in [Ids -> Nat]
  /\ {MaxTime, MaxCommands, MaxCrashes} \subseteq Nat

VARIABLES
  now,
  file,      \* the file: schedules by id
  store,     \* the daemon's ScheduleStore, or Closed
  due,       \* the schedules, as listed, the current Tick has still to look at
  flights,   \* per id, the goroutine that executes it
  command,   \* per slot, the process in it
  crashes,
  \* History.
  given,     \* ids that were added
  removed,   \* ids a command reported removed
  shared     \* ids that were changed while another store was open

schedVars == <<now, file, store, due, flights, command, crashes, given, removed, shared>>

Nothing   == [i \in {} |-> 0]
Closed    == [open |-> FALSE, has |-> Nothing]
Opened(f) == [open |-> TRUE, has |-> f]
NoFlight  == [pc |-> "none"]
NoCommand == [pc |-> "none"]

SchedInit ==
  /\ now = 0 /\ file = Nothing /\ store = Closed /\ due = {}
  /\ flights = [i \in Ids |-> NoFlight] /\ command = [c \in Commands |-> NoCommand]
  /\ crashes = 0 /\ given = {} /\ removed = {} /\ shared = {}

-----------------------------------------------------------------------------
(* Schedules. *)

\* NewSchedule: the first interval is the one that was given and counts from the
\* creation; the schedule keeps whole seconds of it.
FirstRun(i, at) == IF Every[i] > 0 THEN at + Every[i] + Fraction[i] ELSE at + 1
New(i, at) == [next |-> FirstRun(i, at), last |-> -1, first |-> FirstRun(i, at)]

HasFired(i, s) == Every[i] = 0 /\ s.last # -1
Due(i, s)  == ~HasFired(i, s) /\ s.next <= now

\* The instants after now of the cadence that has one at t.
Coming(i, t) == {u \in now + 1 .. now + Every[i] + t : u > t /\ (u - t) % Every[i] = 0}

\* Mutant: the next interval counts from the end of the run.
AdvanceAfresh(i, s) == [s EXCEPT !.last = now, !.next = IF Every[i] = 0 THEN @ ELSE now + Every[i]]
\* advance: forward from the recorded fire time past what was missed.
Advance(i, s) ==
  [s EXCEPT !.last = now,
            !.next = IF Every[i] = 0 THEN @
                     ELSE CHOOSE t \in Coming(i, @) : \A u \in Coming(i, @) : t <= u]

Without(f, i) == [j \in DOMAIN f \ {i} |-> f[j]]
With(f, i, s) == [j \in DOMAIN f \cup {i} |-> IF j = i THEN s ELSE f[j]]

-----------------------------------------------------------------------------
(* The daemon. *)

Serve ==
  /\ store = Closed /\ store' = Opened(file)
  /\ UNCHANGED <<now, file, due, flights, command, crashes, given, removed, shared>>

\* Tick takes the list and the time, then goes through the schedules.
Tick ==
  /\ store.open /\ due = {}
  /\ due' = {[id |-> i, copy |-> store.has[i]] : i \in {j \in DOMAIN store.has : Due(j, store.has[j])}}
  /\ due' # {}
  /\ UNCHANGED <<now, file, store, flights, command, crashes, given, removed, shared>>

\* tryStart: a schedule that is in flight is skipped.
TryStart(i, copy) ==
  IF flights[i] = NoFlight THEN flights' = [flights EXCEPT ![i] = [pc |-> "running", copy |-> copy]]
  ELSE UNCHANGED flights
Dispatch(d) ==
  /\ d \in due /\ due' = due \ {d} /\ TryStart(d.id, d.copy)
  /\ UNCHANGED <<now, file, store, command, crashes, given, removed, shared>>

\* saveLocked may fail; what is in memory stays changed.
Update(f) ==
  /\ store' = Opened(f)
  /\ \/ file' = f /\ UNCHANGED crashes
     \/ crashes < MaxCrashes /\ crashes' = crashes + 1 /\ UNCHANGED file

\* execute: the run, however it ends, then Update with the advanced copy.
Execute(i) ==
  /\ flights[i].pc = "running"
  /\ IF i \in DOMAIN store.has THEN Update(With(store.has, i, Advance(i, flights[i].copy)))
     ELSE UNCHANGED <<file, store, crashes>>
  /\ flights' = [flights EXCEPT ![i].pc = "updated"]
  /\ UNCHANGED <<now, due, command, given, removed, shared>>
\* Mutant: the id stays in running.
FinishStuck(i) == flights[i].pc = "updated" /\ UNCHANGED schedVars
Finish(i) ==
  /\ flights[i].pc = "updated" /\ flights' = [flights EXCEPT ![i] = NoFlight]
  /\ UNCHANGED <<now, file, store, due, command, crashes, given, removed, shared>>

\* The daemon ends, also in an orderly way: serve does not wait for Run.
Crash ==
  /\ store.open /\ crashes < MaxCrashes /\ crashes' = crashes + 1
  /\ store' = Closed /\ due' = {} /\ flights' = [i \in Ids |-> NoFlight]
  /\ UNCHANGED <<now, file, command, given, removed, shared>>

-----------------------------------------------------------------------------
(* `peggy schedule add` and `peggy schedule remove`. *)

Active(c) == command[c].pc # "none"
Begun     == Cardinality(given) + Cardinality(removed) + Cardinality({c \in Commands : Active(c)})

StartCommand(c, op, i) ==
  /\ ~Active(c) /\ Begun < MaxCommands
  /\ IF op = "add" THEN i \notin given /\ \A d \in Commands : Active(d) => command[d].id # i ELSE i \in DOMAIN file
  /\ command' = [command EXCEPT ![c] = [pc |-> "opened", op |-> op, id |-> i, has |-> file]]
  /\ UNCHANGED <<now, file, store, due, flights, crashes, given, removed, shared>>

\* The file a command writes, and the ids it adds, removes or changes in the file.
Written(c) ==
  IF command[c].op = "add" THEN With(command[c].has, command[c].id, New(command[c].id, now))
  ELSE Without(command[c].has, command[c].id)
Touched(c) ==
  {command[c].id} \cup {i \in Ids : ~(i \in DOMAIN file <=> i \in DOMAIN command[c].has)}

\* Add or Remove, with its save; another store may be open by now.
Alone(c) == ~store.open /\ \A d \in Commands \ {c} : ~Active(d)
Commit(c) ==
  /\ Active(c)
  /\ file' = Written(c)
  /\ given' = IF command[c].op = "add" THEN given \cup {command[c].id} ELSE given
  /\ removed' = IF command[c].op = "remove" THEN removed \cup {command[c].id} ELSE removed
  /\ shared' = IF Alone(c) /\ command[c].has = file THEN shared ELSE shared \cup Touched(c)
  /\ command' = [command EXCEPT ![c] = NoCommand]
  /\ UNCHANGED <<now, store, due, flights, crashes>>

Clock ==
  /\ now < MaxTime /\ now' = now + 1
  /\ UNCHANGED <<file, store, due, flights, command, crashes, given, removed, shared>>

SchedNext ==
  \/ Clock \/ Serve \/ Tick \/ Crash
  \/ \E d \in due : Dispatch(d)
  \/ \E i \in Ids : Execute(i) \/ Finish(i)
  \/ \E c \in Commands : Commit(c) \/ \E op \in {"add", "remove"}, i \in Ids : StartCommand(c, op, i)

SchedSpec == SchedInit /\ [][SchedNext]_schedVars
FairSched ==
  /\ SchedSpec /\ WF_schedVars(Tick) /\ WF_schedVars(Serve)
  /\ WF_schedVars(\E d \in due : Dispatch(d))
  /\ \A i \in Ids : WF_schedVars(Execute(i)) /\ WF_schedVars(Finish(i))

-----------------------------------------------------------------------------
\* A recurring schedule keeps to the instants its first one fixed, whatever runs
\* late, takes long, overlaps a tick or is missed; no run starts before its fire
\* time; and once a run was recorded the next one is in its future, so nothing
\* missed is made up for (advance, Due, execute).
CadenceIsKept ==
  store.open => \A i \in DOMAIN store.has :
    LET s == store.has[i]
    IN  /\ Every[i] > 0 => (s.next - s.first) % Every[i] = 0 /\ s.next > s.last
        /\ flights[i] # NoFlight => flights[i].copy.next <= now /\ flights[i].copy.next <= s.next

\* What a command reported holds if no other store was open when it wrote: a
\* schedule it removed is not in the file again, one it added is until it is
\* removed (ScheduleStore is safe within a process only).
LoneChangesLast ==
  /\ (removed \ shared) \cap DOMAIN file = {}
  /\ given \ (removed \cup shared) \subseteq DOMAIN file

\* Scheduler: cadence, overlap, and commands that have the file for themselves.
SchedulesAreKept == CadenceIsKept /\ LoneChangesLast

IsDue(i) == store.open /\ i \in DOMAIN store.has /\ Due(i, store.has[i])

\* Documented, and not what happens: schedule_store.go:102-103, "a run completing
\* after the schedule was removed does not resurrect it".
RemovedIsNotResurrected == [][\A i \in removed : i \notin DOMAIN file => i \notin DOMAIN file']_schedVars

-----------------------------------------------------------------------------
(* The inductive invariant of SchedulesAreKept. *)

Copies == [next : Nat, last : Int, first : Nat]

\* A copy of schedule i keeps the cadence, wherever it is held.
OnCadence(i, s) == Every[i] > 0 => (s.next - s.first) % Every[i] = 0 /\ s.next > s.last

\* A file or a store of schedules that were given.
IsTable(f, g) == DOMAIN f \subseteq g /\ f \in [DOMAIN f -> Copies] /\ \A i \in DOMAIN f : OnCadence(i, f[i])

\* A copy that is dispatched at t was due, and the store f has it or a later one.
Follows(i, s, f, t) ==
  /\ s \in Copies /\ OnCadence(i, s) /\ i \in DOMAIN f /\ s.next <= t /\ s.next <= f[i].next
  /\ Every[i] = 0 => s.next = f[i].next

TablesInv ==
  /\ now \in Nat /\ crashes \in Nat /\ given \subseteq Ids /\ removed \subseteq given /\ shared \subseteq Ids
  /\ IsTable(file, given)
  /\ store = Closed \/ (store = Opened(store.has) /\ IsTable(store.has, given))

\* What the daemon has under way.
FlightsInv ==
  /\ DOMAIN flights = Ids /\ flights = [i \in Ids |-> flights[i]]
  /\ ~store.open => due = {} /\ \A i \in Ids : flights[i] = NoFlight
  /\ \A d \in due : d.id \in Ids /\ Follows(d.id, d.copy, store.has, now)
  /\ \A i \in Ids : flights[i] # NoFlight =>
       /\ flights[i] \in [pc : {"running", "updated"}, copy : Copies]
       /\ Follows(i, flights[i].copy, store.has, now)

\* What the commands have under way: an id that is being added is nowhere else.
CommandsInv ==
  /\ DOMAIN command = Commands /\ command = [c \in Commands |-> command[c]]
  /\ \A c \in Commands : command[c] # NoCommand =>
       /\ command[c] = [pc |-> "opened", op |-> command[c].op, id |-> command[c].id, has |-> command[c].has]
       /\ command[c].op \in {"add", "remove"} /\ command[c].id \in Ids /\ IsTable(command[c].has, given)
       /\ command[c].op = "remove" => command[c].id \in given
       /\ command[c].op = "add" =>
            /\ command[c].id \notin given
            /\ \A d \in Commands \ {c} : command[d] # NoCommand => command[d].id # command[c].id

\* The daemon and the file have the same ids, but for those that are shared.
SameIds == store.open => \A i \in Ids \ shared : i \in DOMAIN store.has <=> i \in DOMAIN file

SchedInv == TablesInv /\ FlightsInv /\ CommandsInv /\ SameIds /\ LoneChangesLast
=============================================================================
