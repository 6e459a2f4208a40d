-------------------------------- MODULE Watch --------------------------------
(***************************************************************************)
(* `scan --watch`: one scan, then a file-system watcher whose events go    *)
(* through an unbounded channel to a loop that waits for a relevant event, *)
(* drains whatever arrives for 300 ms, scans the tree again, and waits.    *)
(* Nothing else is shared between the editor and the loop, so an event     *)
(* that is dropped at the wrong moment is a change nobody ever sees.       *)
(*                                                                         *)
(* A file is the number of times it has been changed. A scan reads the     *)
(* files one after the other while they keep changing, and prints at the   *)
(* end what it has read.                                                   *)
(***************************************************************************)
EXTENDS Naturals, Sequences

CONSTANTS
  Files,      \* the .rs files below the scan path
  MaxSaves,   \* bound: changes of one file
  MaxQueue,   \* bound: queued events beyond which nothing irrelevant arrives
  Surprises   \* behaviours of the machine switched on: see Environment

ASSUME WatchAssumption ==
  /\ Files # {}
  /\ MaxSaves \in Nat /\ MaxQueue \in Nat
  /\ Surprises \subseteq {"early_save", "moved_directory", "queue_overflow"}

VARIABLES
  pc,         \* "scan", "register", "recv", "debounce" or "exited"
  version,    \* per file, changes made to it
  unread,     \* files the scan in progress has still to read
  read,       \* per file, the version the latest scan has read
  shown,      \* per file, the version behind what the terminal shows
  watching,   \* watcher.watch has been called
  chan,       \* the mpsc channel: "rs" for an event the loop reacts to
  sent,       \* "rs" events sent so far
  announced,  \* per file, its version when the latest "rs" event was sent
  rescans     \* scans started by the loop

scan_vars == <<unread, read, shown>>
env_vars  == <<version, sent, announced>>
vars      == <<pc, scan_vars, env_vars, watching, chan, rescans>>

Init ==
  /\ pc = "scan"
  /\ version = [f \in Files |-> 0]
  /\ unread = Files
  /\ read = [f \in Files |-> 0]
  /\ shown = [f \in Files |-> 0]
  /\ watching = FALSE
  /\ chan = <<>>
  /\ sent = 0 /\ rescans = 0
  /\ announced = [f \in Files |-> 0]

-----------------------------------------------------------------------------
(* The process *)

ReadFile(f) ==
  /\ pc = "scan" /\ f \in unread
  /\ read' = [read EXCEPT ![f] = version[f]]
  /\ unread' = unread \ {f}
  /\ UNCHANGED <<pc, shown, env_vars, watching, chan, rescans>>

ReportAndFlush ==
  /\ pc = "scan" /\ unread = {}
  /\ shown' = read
  /\ pc' = IF watching THEN "recv" ELSE "register"
  /\ chan' = <<>>
  /\ UNCHANGED <<unread, read, env_vars, watching, rescans>>
\* run_scan returns; in watch mode its exit code is dropped.
Report ==
  /\ pc = "scan" /\ unread = {}
  /\ shown' = read
  /\ pc' = IF watching THEN "recv" ELSE "register"
  /\ UNCHANGED <<unread, read, env_vars, watching, chan, rescans>>

\* The watcher cannot be created, or refuses the path: exit code 2.
RegisterFails ==
  /\ pc = "register"
  /\ pc' = "exited"
  /\ UNCHANGED <<scan_vars, env_vars, watching, chan, rescans>>

\* The watcher is created only after the first scan has been printed.
Register ==
  /\ pc = "register"
  /\ watching' = TRUE
  /\ pc' = "recv"
  /\ UNCHANGED <<scan_vars, env_vars, chan, rescans>>

ReceiveAny ==
  /\ pc = "recv" /\ chan # <<>>
  /\ chan' = Tail(chan)
  /\ pc' = "debounce"
  /\ UNCHANGED <<scan_vars, env_vars, watching, rescans>>
\* rx.recv(): an irrelevant event or a watcher error is dropped.
Receive ==
  /\ pc = "recv" /\ chan # <<>>
  /\ chan' = Tail(chan)
  /\ pc' = IF Head(chan) = "rs" THEN "debounce" ELSE "recv"
  /\ UNCHANGED <<scan_vars, env_vars, watching, rescans>>

\* recv_timeout inside the window: every event is dropped, relevant or not.
Drain ==
  /\ pc = "debounce" /\ chan # <<>>
  /\ chan' = Tail(chan)
  /\ UNCHANGED <<pc, scan_vars, env_vars, watching, rescans>>

RescanWhenQuiet ==
  /\ pc = "debounce" /\ chan = <<>>
  /\ pc' = "scan"
  /\ unread' = Files
  /\ rescans' = rescans + 1
  /\ UNCHANGED <<read, shown, env_vars, watching, chan>>
\* The deadline has passed: the whole tree is scanned again.
Rescan ==
  /\ pc = "debounce"
  /\ pc' = "scan"
  /\ unread' = Files
  /\ rescans' = rescans + 1
  /\ UNCHANGED <<read, shown, env_vars, watching, chan>>

-----------------------------------------------------------------------------
(* Editors, builds and the kernel *)

\* A save is one or more writes; each changes the file and, once the watcher
\* is there, queues an event of kind Create, Modify or Remove for its path.
Save(f) ==
  /\ version[f] < MaxSaves
  /\ watching \/ "early_save" \in Surprises
  /\ version' = [version EXCEPT ![f] = @ + 1]
  /\ IF watching
     THEN chan' = Append(chan, "rs") /\ sent' = sent + 1 /\ announced' = version'
     ELSE UNCHANGED <<chan, sent, announced>>
  /\ UNCHANGED <<pc, scan_vars, watching, rescans>>

\* Access events, other extensions, paths under target/ or .git/, errors. They
\* may keep coming for ever.
Noise ==
  /\ watching /\ Len(chan) < MaxQueue
  /\ chan' = Append(chan, "other")
  /\ UNCHANGED <<pc, scan_vars, version, sent, announced, watching, rescans>>

\* A directory with sources in it is moved in, out or away: the event names
\* the directory, whose path has no .rs extension.
MoveDirectory ==
  /\ "moved_directory" \in Surprises /\ watching
  /\ \E moved \in SUBSET Files \ {{}} :
       /\ \A f \in moved : version[f] < MaxSaves
       /\ version' = [f \in Files |-> IF f \in moved THEN version[f] + 1 ELSE version[f]]
  /\ chan' = Append(chan, "other")
  /\ UNCHANGED <<pc, scan_vars, sent, announced, watching, rescans>>

\* The kernel's queue is full: the change itself is not queued, only a notice
\* of kind Other that asks for a rescan.
Overflow(f) ==
  /\ "queue_overflow" \in Surprises /\ watching /\ version[f] < MaxSaves
  /\ version' = [version EXCEPT ![f] = @ + 1]
  /\ chan' = Append(chan, "other")
  /\ UNCHANGED <<pc, scan_vars, sent, announced, watching, rescans>>

Process ==
  \/ \E f \in Files : ReadFile(f)
  \/ Report \/ Register \/ RegisterFails \/ Receive \/ Drain \/ Rescan

Environment == (\E f \in Files : Save(f) \/ Overflow(f)) \/ Noise \/ MoveDirectory

Next == Process \/ Environment

\* The loop runs whenever it can, and its window ends at a deadline however
\* many events keep arriving. Nobody has to save anything.
Fairness == WF_vars(Process) /\ WF_vars(Rescan)

Spec == Init /\ [][Next]_vars /\ Fairness

-----------------------------------------------------------------------------
(* Properties *)

EventPending == \E i \in 1..Len(chan) : chan[i] = "rs"

\* No lost wakeup: whatever had changed when the latest relevant event was
\* sent, saves and silent changes alike, is on the screen, or such an event is
\* still in the channel, or the loop has taken one and will read the tree, or
\* the scan in progress has still to read the file or has read that version.
\* A change made while a scan is running is not swallowed by it, although the
\* debounce window throws relevant events away.
NoLostWakeup ==
  \A f \in Files :
    \/ shown[f] >= announced[f]
    \/ EventPending
    \/ pc = "debounce"
    \/ pc = "scan" /\ (f \in unread \/ read[f] >= announced[f])

\* A tree is scanned again only because of a .rs change: at most one scan per
\* relevant event, so a build that fills target/ starts none, and events that
\* were drained together cost one scan.
RescansAreEarned ==
  rescans + (IF pc = "debounce" THEN 1 ELSE 0) <= sent

\* Every change is on the screen sooner or later, once a relevant event has
\* been sent after it, however long events that start no scan keep coming: the
\* window ends at a deadline set when it began. A change made by a directory
\* move, by an overflow of the kernel's queue or before the watcher is
\* registered has no such event of its own: it waits for the next save of any
\* .rs file.
AnnouncedIsShown ==
  \A f \in Files : \A v \in 1..MaxSaves : announced[f] >= v ~> shown[f] >= v

\* README: the scan is run again whenever a .rs file changes. Every version a
\* file reaches is, sooner or later, the one shown or older than it, unless
\* there is no watch mode because the watcher could not be started.
EveryChangeIsShown ==
  \A f \in Files : \A v \in 1..MaxSaves : version[f] >= v ~> shown[f] >= v \/ pc = "exited"
==============================================================================
