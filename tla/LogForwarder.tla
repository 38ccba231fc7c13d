---------------------------- MODULE LogForwarder ----------------------------
(***************************************************************************)
(* persistent_log.go on top of RotatingLog: one goroutine of the Go core   *)
(* takes the events of Mihomo's log in their order, filters them, and      *)
(* writes the rest through the platform's writer, which appends them to    *)
(* the rotating log.  The service sets and clears the writer and appends   *)
(* lines of its own to the same log.                                       *)
(*                                                                         *)
(* The goroutine reads the writer under a lock and calls it without.  The  *)
(* subscription is external: it delivers in order.                         *)
(***************************************************************************)
EXTENDS RotatingLog, SequencesExt

CONSTANTS
  Writer,     \* the writers the service may install
  NoWriter,   \* nil
  MaxEvent    \* bound: events ever logged

ASSUME ForwarderAssumption == NoWriter \notin Writer /\ MaxEvent \in Nat

VARIABLES
  events,  \* the number of events so far
  bus,     \* the undelivered events, with what the filter will say of them
  writer,  \* persistentLogWriter
  pc,      \* where the goroutine is
  held,    \* the writer it has read
  event,   \* the event it writes
  kept,    \* history: [1 .. MaxEntry -> the event of each entry, 0 for the service's]
  late     \* history: writes begun through another writer than the installed one

forwarderVars == <<events, bus, writer, pc, held, event, kept, late>>
allVars       == <<vars, forwarderVars>>

\* What the filter looks at.
Payload == [from : {"core", "tailscale", "other"}, warning : BOOLEAN, marker : BOOLEAN]

ForwarderTypeOK ==
  /\ TypeOK
  /\ events \in 0 .. MaxEvent
  /\ \A i \in DOMAIN bus : bus[i] \in [id : 1 .. events, persists : BOOLEAN]
  /\ writer \in Writer \cup {NoWriter}
  /\ pc \in {"wait", "write", "append"}
  /\ held \in Writer \cup {NoWriter}
  /\ event \in 0 .. MaxEvent
  /\ kept \in [1 .. MaxEntry -> 0 .. MaxEvent]
  /\ late \in Nat

ForwarderInit ==
  /\ Init
  /\ events = 0
  /\ bus = << >>
  /\ writer = NoWriter
  /\ pc = "wait"
  /\ held = NoWriter
  /\ event = 0
  /\ kept = [i \in 1 .. MaxEntry |-> 0]
  /\ late = 0

----------------------------------------------------------------------------
\* shouldPersistCoreLog
ShouldPersist(p) ==
  p.from = "core" \/ (p.from = "tailscale" /\ (p.warning \/ p.marker))

Log(p) ==
  /\ events < MaxEvent
  /\ events' = events + 1
  /\ bus' = Append(bus, [id |-> events + 1, persists |-> ShouldPersist(p)])
  /\ UNCHANGED <<vars, writer, pc, held, event, kept, late>>

\* SetPersistentLogWriter, ClearPersistentLogWriter
SetWriter(w) ==
  /\ w # writer
  /\ writer' = w
  /\ late' = 0
  /\ UNCHANGED <<vars, events, bus, pc, held, event, kept>>

\* Fault: a writer once read is used as long as it lasts.
WriterOnceRead == IF held # NoWriter THEN held ELSE writer

InstalledWriter == writer

\* Fault: the newest event is taken first.
NewestFirst == Len(bus)

NextEvent == 1

\* The goroutine takes an event, and drops it when it does not pass the filter
\* or there is no writer.
Take ==
  LET e == bus[NextEvent]
      w == InstalledWriter
  IN  /\ pc = "wait"
      /\ bus # << >>
      /\ bus' = RemoveAt(bus, NextEvent)
      /\ IF e.persists /\ w # NoWriter
         THEN pc' = "write" /\ held' = w /\ event' = e.id
         ELSE UNCHANGED <<pc, held, event>>
      /\ UNCHANGED <<vars, events, writer, kept, late>>

\* The writer appends.
ForwardAppend(n) ==
  /\ pc = "write"
  /\ AppendEntry(n)
  /\ pc' = "append"
  /\ kept' = [kept EXCEPT ![entries'] = event]
  /\ late' = IF held = writer THEN late ELSE late + 1
  /\ UNCHANGED <<events, bus, writer, held, event>>

\* Fault: nobody recovers.
PanicUnrecovered ==
  /\ pc = "write"
  /\ pc' = "append"
  /\ UNCHANGED <<vars, events, bus, writer, held, event, kept, late>>

\* The writer panics, or returns without appending.
Panic ==
  /\ pc = "write"
  /\ pc' = "wait"
  /\ UNCHANGED <<vars, events, bus, writer, held, event, kept, late>>

\* lifecycleLog of the service.
ServiceAppend(n) ==
  /\ AppendEntry(n)
  /\ UNCHANGED forwarderVars

\* append goes on; the writer returns to the goroutine when it is done.
AppendStep ==
  /\ \/ \E n \in 1 .. MaxFileBytes : Write(n)
     \/ RemoveExpired
     \/ \E k \in 1 .. MaxFileCount - 1 : Move(k)
     \/ Interrupt
  /\ pc' = IF pc = "append" /\ step' = "idle" THEN "wait" ELSE pc
  /\ UNCHANGED <<events, bus, writer, held, event, kept, late>>

\* The process is killed and started again.
Restart ==
  /\ step' = "idle"
  /\ bus' = << >>
  /\ writer' = NoWriter
  /\ pc' = "wait"
  /\ held' = NoWriter
  /\ late' = 0
  /\ UNCHANGED <<files, entries, size, slot, events, event, kept>>

----------------------------------------------------------------------------
ForwarderNext ==
  \/ \E p \in Payload : Log(p)
  \/ \E w \in Writer \cup {NoWriter} : SetWriter(w)
  \/ Take \/ Panic \/ AppendStep \/ Restart
  \/ \E n \in 1 .. MaxFileBytes : ForwardAppend(n) \/ ServiceAppend(n)

ForwarderSpec == ForwarderInit /\ [][ForwarderNext]_allVars

(* The goroutine runs and an append goes on; a writer that waits for another *)
(* append gets its turn or gives up.                                         *)
ForwarderFairness ==
  /\ WF_allVars(Take)
  /\ WF_allVars(AppendStep)
  /\ WF_allVars(Panic \/ \E n \in 1 .. MaxFileBytes : ForwardAppend(n))

ForwarderFairSpec == ForwarderSpec /\ ForwarderFairness

----------------------------------------------------------------------------
(* Properties.                                                             *)

\* The rotating log has the core's events in the order Mihomo logged them, each
\* at most once, whatever lines of the service and failures come between.
ForwardedInOrder ==
  \A i, j \in 1 .. entries :
    (i < j /\ kept[i] # 0 /\ kept[j] # 0) => kept[i] < kept[j]

\* "ClearPersistentLogWriter releases the platform callback": after a writer was
\* cleared or replaced at most one more event goes through it.
AtMostOneLateWrite == late <= 1

\* "Logging can never terminate Mihomo's shared observable goroutine": whatever
\* writers do, every event is taken.
EventsAreTaken == []<>(bus = << >>)
=============================================================================
