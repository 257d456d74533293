---------------------------- MODULE RuntimeLoop ----------------------------
(***************************************************************************)
(* The event loop of the runner: the Runtime of crates/vmrp-runtime (clock *)
(* and one-shot timer, queue of events), the part of ExtHost the loop      *)
(* drains (timer command slot, application events, dirty flag, exit flag), *)
(* the window presenter, and the two loops of apps/vmrp-windows/src/main.rs*)
(* that tie them to the guest: run_loop, which steps the guest until its   *)
(* call returns or its budget is spent, and drive_runtime_events, which    *)
(* turns each queued event into a call of the guest's helper.              *)
(*                                                                         *)
(* The runner is one thread.  What runs beside it is the user at the       *)
(* window and the clock: they may act between any two of its steps.        *)
(*                                                                         *)
(* The clock is kept relative: `due' is timer_deadline_ms - now_ms (what   *)
(* time_until_next_timer_ms returns) and `lag' is how far now_ms is behind *)
(* the wall clock.  Nothing in the code looks at now_ms in another way.    *)
(*                                                                         *)
(* An event has a tag: up to MaxMark events of each source are marked 1,   *)
(* 2, ... in the order in which they arise, the others are 0.  The marked  *)
(* ones stand for any choice of events: the loop does not look at tags.    *)
(***************************************************************************)
EXTENDS Integers, Sequences, FiniteSets, SequencesExt

CONSTANTS
  StepLimit,    (* config.step_limit, of a stage and of the idle polls     *)
  Delays,       (* what the guest asks of TimerStart                       *)
  MaxSleep,     (* the most one idle poll sleeps: 10 ms                    *)
  BootStages,   (* stages run between ext_init and drive_runtime_events    *)
  Windows,      (* "none" without --window, "open" with it                 *)
  HasLimit,     (* is --runtime-ms given                                   *)
  MaxMark,      (* events of a source that are marked                      *)
  MaxQueue,     (* bound: events in flight when another one, or a timer,   *)
                (* may be added                                          *)
  None, Stop    (* no timer (command), HostTimerCommand::Stop              *)

Horizon == Max(Delays \cup {MaxSleep})

ASSUME LimitAssumption ==
  /\ StepLimit \in Nat
  /\ IsFiniteSet(Delays) /\ Delays \subseteq Nat
  /\ MaxSleep \in Nat \ {0}
  /\ BootStages \in Nat
  /\ Windows \subseteq {"none", "open"}
  /\ HasLimit \in BOOLEAN
  /\ MaxMark \in Nat \ {0}
  /\ {None, Stop} \cap Nat = {} /\ None # Stop

VARIABLES
  rt,       (* Runtime: due, lag, queue                                    *)
  host,     (* ExtHost: command, events, dirty, exit                       *)
  win,      (* WindowPresenter: mode, pending; the system's inbox for it   *)
  running,  (* the guest's pc is not null                                  *)
  ctl,      (* where the runner is, and the locals of its loops            *)
  expired,  (* runtime_limit_reached                                       *)
  asked,    (* history: the last timer command the guest gave              *)
  waited,   (* history: wall time since, while armed                       *)
  fires,    (* history: Timer events queued since then                     *)
  marked,   (* history: marked events that arose, of each source           *)
  seen      (* history: tags of the marked events dispatched, in order     *)

clock == <<asked, waited, fires>>
vars == <<rt, host, win, running, ctl, expired, clock, marked, seen>>

Sources == {"app", "key", "quit"}
Event == [src : Sources \cup {"timer"}, tag : 0 .. MaxMark]
Timer == [src |-> "timer", tag |-> 0]
Places == {"boot", "head", "exec", "top", "pop", "idle",
           "done", "failed", "undriven"}
Ended == ctl.at \in {"done", "failed", "undriven"}

-----------------------------------------------------------------------------
(* Runtime.                                                                *)

(* Mutant of SyncClock: a deadline that has passed is below zero. *)
SyncClockUnclamped(r) ==
  [r EXCEPT !.due = IF @ = None THEN None ELSE @ - r.lag, !.lag = 0]

(* Mutant of SyncClock: the same time is counted again at the next sync. *)
SyncClockTwice(r) ==
  [r EXCEPT !.due = IF @ = None THEN None ELSE Max({0, @ - r.lag})]

SyncClock(r) ==
  [r EXCEPT !.due = IF @ = None THEN None ELSE Max({0, @ - r.lag}), !.lag = 0]

PollTimers(r) ==
  IF r.due = 0
  THEN [r EXCEPT !.due = None, !.queue = Append(@, Timer)]
  ELSE r

(* sync_wall_clock, then poll_timers: as the loops call them. *)
Polled(r) == PollTimers(SyncClock(r))

(* The history of a poll that takes the runtime from r to Polled(r). *)
Fires(r) == Polled(r).due = None /\ r.due # None
CountFires(r) ==
  /\ fires'  = IF Fires(r) THEN Min({fires + 1, 2}) ELSE fires
  /\ waited' = IF Fires(r) THEN 0 ELSE waited
  /\ UNCHANGED asked

-----------------------------------------------------------------------------
(* The window.  A pump takes every message: WM_QUIT comes last.            *)

Pumped(w) ==
  IF w.mode = "none" THEN w
  ELSE [mode    |-> IF \E i \in DOMAIN w.inbox : w.inbox[i].src = "quit"
                    THEN "closed" ELSE w.mode,
        inbox   |-> << >>,
        pending |-> w.pending \o w.inbox]

(* present pumps unless the window is closed; with nothing to present the  *)
(* loop pumps itself.                                                      *)
Shown(w, dirty) == IF dirty /\ w.mode = "closed" THEN w ELSE Pumped(w)

(* GetDC can refuse: only when there is a frame for an open window. *)
Presents(w, dirty) ==
  IF dirty /\ Shown(w, dirty).mode = "open" THEN BOOLEAN ELSE {TRUE}

(* Mutant of UiWin: the presenter keeps the events it handed over. *)
UiWinKeeps(w, dirty, ok) == Shown(w, dirty)

(* drain_host_ui, ok saying whether present succeeded: what it makes of    *)
(* the window and, with drain_presenter_events, of the queue.              *)
UiWin(w, dirty, ok) ==
  IF ok THEN [Shown(w, dirty) EXCEPT !.pending = << >>] ELSE Shown(w, dirty)
UiQueued(r, w, dirty, ok) ==
  IF ok THEN [r EXCEPT !.queue = @ \o Shown(w, dirty).pending] ELSE r

-----------------------------------------------------------------------------
(* What ExtHost holds for the loop, and how the loop takes it.             *)

NoRequests(h) == [h EXCEPT !.command = None, !.events = << >>]
Undirtied(h) == [h EXCEPT !.dirty = FALSE]

(* Mutant of Drained: the timer command is taken, events are left behind. *)
DrainedCommandOnly(r, h) ==
  [r EXCEPT !.due = CASE h.command = None -> @
                      [] h.command = Stop -> None
                      [] OTHER            -> h.command]

(* drain_host_runtime_events: the command slot, then the events. *)
Drained(r, h) ==
  [r EXCEPT !.due   = CASE h.command = None -> @
                        [] h.command = Stop -> None
                        [] OTHER            -> h.command,
            !.queue = @ \o h.events]

-----------------------------------------------------------------------------
Init ==
  /\ rt = [due |-> None, lag |-> 0, queue |-> << >>]
  /\ host = [command |-> None, events |-> << >>, dirty |-> FALSE, exit |-> FALSE]
  /\ win \in [mode : Windows, inbox : {<< >>}, pending : {<< >>}]
  /\ running = TRUE
  /\ ctl = [at |-> "head", back |-> "boot", left |-> StepLimit,
            boots |-> BootStages, idle |-> 0, busy |-> FALSE]
  /\ expired = FALSE
  /\ asked = None /\ waited = 0 /\ fires = 0
  /\ marked = [s \in Sources |-> 0]
  /\ seen = [s \in Sources |-> << >>]

(* The stage is over: run_loop returns to its caller. *)
EndStage == ctl' = [ctl EXCEPT !.at = ctl.back, !.left = 0]

(* setup_helper_call and the call of run_loop.  Whatever the guest was in  *)
(* the middle of when an earlier stage ran out of budget is abandoned.     *)
CallGuest == running' = TRUE

(* Tags for an event that arises at source s. *)
Tags(s) == {0} \cup IF marked[s] < MaxMark THEN {marked[s] + 1} ELSE {}
Marking(s, tag) == marked' = [marked EXCEPT ![s] = Max({@, tag})]
Room == Len(rt.queue) + Len(win.inbox) + Len(win.pending) < MaxQueue

-----------------------------------------------------------------------------
(* run_loop.                                                               *)

BudgetExhausted ==
  /\ ctl.at = "head" /\ ctl.left = 0
  /\ EndStage
  /\ UNCHANGED <<rt, host, win, running, expired, clock, marked, seen>>

MayStep == running /\ ~host.exit

(* The first half of a step: ui, requests of the host, clock, timer; the   *)
(* stage stops if the guest asked for it or its call has returned.         *)
StepHead ==
  /\ ctl.at = "head" /\ ctl.left > 0
  /\ \E ok \in Presents(win, host.dirty) :
       LET drained == Drained(UiQueued(rt, win, host.dirty, ok), host)
       IN  /\ win' = UiWin(win, host.dirty, ok)
           /\ IF ok
              THEN /\ rt' = Polled(drained)
                   /\ host' = NoRequests(Undirtied(host))
                   /\ CountFires(drained)
              ELSE /\ host' = Undirtied(host)
                   /\ UNCHANGED <<rt, clock>>
           /\ IF ok /\ MayStep
              THEN ctl' = [ctl EXCEPT !.at = "exec"]
              ELSE EndStage
  /\ UNCHANGED <<running, expired, marked, seen>>

StepDone == ctl' = [ctl EXCEPT !.at = "head", !.left = @ - 1]

(* Mutant of HostReturns: what the call asks for waits for the next step.  *)
HostReturnsLater(h) ==
  /\ ctl.at = "exec"
  /\ \E ok \in Presents(win, h.dirty) :
       /\ rt' = UiQueued(rt, win, h.dirty, ok)
       /\ win' = UiWin(win, h.dirty, ok)
       /\ host' = Undirtied(h)
       /\ IF ok THEN StepDone ELSE EndStage
  /\ running' \in BOOLEAN
  /\ UNCHANGED <<expired, seen>>

(* ExtHost::handle has served the call and left the host as h; what it     *)
(* asks of the loop is taken at once.  The guest's lr may be null.         *)
HostReturns(h) ==
  /\ ctl.at = "exec"
  /\ \E ok \in Presents(win, h.dirty) :
       /\ rt' = UiQueued(Drained(rt, h), win, h.dirty, ok)
       /\ win' = UiWin(win, h.dirty, ok)
       /\ host' = NoRequests(Undirtied(h))
       /\ IF ok THEN StepDone ELSE EndStage
  /\ running' \in BOOLEAN
  /\ UNCHANGED <<expired, seen>>

TimerStart ==
  /\ Room
  /\ \E delay \in Delays :
       /\ HostReturns([host EXCEPT !.command = delay])
       /\ asked' = delay /\ waited' = rt.lag /\ fires' = 0
  /\ UNCHANGED marked

TimerStop ==
  /\ HostReturns([host EXCEPT !.command = Stop])
  /\ asked' = Stop /\ waited' = 0 /\ fires' = 0
  /\ UNCHANGED marked

(* handle_send_app_event, in the form that carries an event. *)
SendAppEvent ==
  /\ Room
  /\ \E tag \in Tags("app") :
       /\ HostReturns([host EXCEPT
                         !.events = Append(@, [src |-> "app", tag |-> tag])])
       /\ Marking("app", tag)
  /\ UNCHANGED clock

Exit ==
  /\ HostReturns([host EXCEPT !.exit = TRUE])
  /\ UNCHANGED <<clock, marked>>

Draw ==
  /\ HostReturns([host EXCEPT !.dirty = TRUE])
  /\ UNCHANGED <<clock, marked>>

(* A host function that asks nothing of the loop. *)
OtherCall ==
  /\ HostReturns(host)
  /\ UNCHANGED <<clock, marked>>

GuestStep ==
  /\ ctl.at = "exec"
  /\ running' \in BOOLEAN
  /\ StepDone
  /\ UNCHANGED <<rt, host, win, expired, clock, marked, seen>>

(* A host function or an instruction faults. *)
Fault ==
  /\ ctl.at = "exec"
  /\ EndStage
  /\ UNCHANGED <<rt, host, win, running, expired, clock, marked, seen>>

-----------------------------------------------------------------------------
(* run_mrp, up to drive_runtime_events.                                    *)

NextStage ==
  /\ ctl.at = "boot" /\ ctl.boots > 0
  /\ ctl' = [ctl EXCEPT !.at = "head", !.left = StepLimit, !.boots = @ - 1]
  /\ CallGuest
  /\ UNCHANGED <<rt, host, win, expired, clock, marked, seen>>

EnterDrive ==
  /\ ctl.at = "boot" /\ ctl.boots = 0
  /\ ctl' = [ctl EXCEPT !.at = "top", !.back = "pop"]
  /\ UNCHANGED <<rt, host, win, running, expired, clock, marked, seen>>

(* No helper was registered, preparing a stage failed, or the package only *)
(* holds plugins: the runner reports and returns without driving events.   *)
ReturnUndriven ==
  /\ ctl.at = "boot"
  /\ ctl' = [ctl EXCEPT !.at = "undriven"]
  /\ UNCHANGED <<rt, host, win, running, expired, clock, marked, seen>>

-----------------------------------------------------------------------------
(* drive_runtime_events.                                                   *)

Top ==
  /\ ctl.at = "top"
  /\ \E ok \in Presents(win, host.dirty) :
       LET queued == UiQueued(rt, win, host.dirty, ok)
       IN  /\ win' = UiWin(win, host.dirty, ok)
           /\ host' = Undirtied(host)
           /\ IF ok
              THEN rt' = Polled(queued) /\ CountFires(queued)
              ELSE UNCHANGED <<rt, clock>>
           /\ ctl' = [ctl EXCEPT !.busy = FALSE,
                        !.at = IF ~ok THEN "failed"
                               ELSE IF expired THEN "done" ELSE "pop"]
  /\ UNCHANGED <<running, expired, marked, seen>>

(* One event off the queue becomes a call of the helper, in a stage of its *)
(* own; `busy' is the local `dispatched'.                                  *)
Dispatch ==
  /\ ctl.at = "pop" /\ rt.queue # << >>
  /\ LET event == Head(rt.queue)
     IN  seen' = IF event.tag = 0 THEN seen
                 ELSE [seen EXCEPT ![event.src] = Append(@, event.tag)]
  /\ rt' = [rt EXCEPT !.queue = Tail(@)]
  /\ ctl' = [ctl EXCEPT !.at = "head", !.left = StepLimit, !.busy = TRUE]
  /\ CallGuest
  /\ UNCHANGED <<host, win, expired, clock, marked>>

(* Mutant of AfterEvents: the idle polls are not counted afresh. *)
AfterEventsKeepsIdle == ctl' = [ctl EXCEPT !.at = "top"]

AfterEvents == ctl' = [ctl EXCEPT !.at = "top", !.idle = 0]

(* The queue has been emptied by dispatching: poll again at once. *)
Repoll ==
  /\ ctl.at = "pop" /\ rt.queue = << >> /\ ctl.busy
  /\ AfterEvents
  /\ UNCHANGED <<rt, host, win, running, expired, clock, marked, seen>>

(* Mutant of KeepsWaiting: a window that was closed still counts. *)
KeepsWaitingClosed ==
  IF rt.due # None THEN ctl.idle < StepLimit ELSE win.mode # "none"

(* should_keep_waiting_for_host_events. *)
KeepsWaiting ==
  IF rt.due # None THEN ctl.idle < StepLimit ELSE win.mode = "open"

(* Mutant of Sleeps: the window is looked at again after the pump. *)
SleepsUnlessClosed ==
  ctl' = [ctl EXCEPT !.at = IF Pumped(win).mode = "closed"
                            THEN "done" ELSE "idle",
                     !.idle = Min({@ + 1, StepLimit})]

(* idle_polls is only compared with step_limit: it may stop counting there. *)
Sleeps ==
  ctl' = [ctl EXCEPT !.at = "idle", !.idle = Min({@ + 1, StepLimit})]

(* Nothing was dispatched, and there may be something to wait for. *)
Wait ==
  /\ ctl.at = "pop" /\ rt.queue = << >> /\ ~ctl.busy
  /\ KeepsWaiting
  /\ rt' = UiQueued(rt, win, FALSE, TRUE)
  /\ win' = UiWin(win, FALSE, TRUE)
  /\ Sleeps
  /\ UNCHANGED <<host, running, expired, clock, marked, seen>>

GiveUp ==
  /\ ctl.at = "pop" /\ rt.queue = << >> /\ ~ctl.busy
  /\ ~KeepsWaiting
  /\ ctl' = [ctl EXCEPT !.at = "done"]
  /\ UNCHANGED <<rt, host, win, running, expired, clock, marked, seen>>

(* thread::sleep lasts at least as long as it was asked to. *)
SleepTime == IF rt.due = None THEN MaxSleep ELSE Min({Max({rt.due, 1}), MaxSleep})
Wake ==
  /\ ctl.at = "idle" /\ rt.lag >= SleepTime
  /\ ctl' = [ctl EXCEPT !.at = "top"]
  /\ UNCHANGED <<rt, host, win, running, expired, clock, marked, seen>>

-----------------------------------------------------------------------------
(* Beside the runner.                                                      *)

Posted(event) == win' = [win EXCEPT !.inbox = Append(@, event)]
QuitPosted == \E i \in DOMAIN win.inbox : win.inbox[i].src = "quit"

(* A key or the pointer. *)
UserInput ==
  /\ win.mode = "open" /\ ~QuitPosted /\ Room /\ ~Ended
  /\ \E tag \in Tags("key") :
       Posted([src |-> "key", tag |-> tag]) /\ Marking("key", tag)
  /\ UNCHANGED <<rt, host, running, ctl, expired, clock, seen>>

(* WM_DESTROY posts WM_QUIT, which pump turns into MR_EVENT_EXIT.  There   *)
(* is one such event, and it is marked.                                    *)
UserCloses ==
  /\ win.mode = "open" /\ ~QuitPosted /\ ~Ended
  /\ Posted([src |-> "quit", tag |-> 1]) /\ Marking("quit", 1)
  /\ UNCHANGED <<rt, host, running, ctl, expired, clock, seen>>

(* Time passes; past Horizon, no comparison can tell how much. *)
Tick ==
  /\ ~Ended
  /\ rt.lag < Horizon \/ (rt.due # None /\ waited < Horizon)
  /\ rt' = [rt EXCEPT !.lag = Min({@ + 1, Horizon})]
  /\ waited' = IF rt.due = None THEN waited ELSE Min({waited + 1, Horizon})
  /\ UNCHANGED <<host, win, running, ctl, expired, asked, fires, marked, seen>>

LimitPasses ==
  /\ HasLimit /\ ~expired /\ ~Ended
  /\ expired' = TRUE
  /\ UNCHANGED <<rt, host, win, running, ctl, clock, marked, seen>>

(* The process has left the loop for good. *)
Over == Ended /\ UNCHANGED vars

-----------------------------------------------------------------------------
HostCall ==
  TimerStart \/ TimerStop \/ SendAppEvent \/ Exit \/ Draw \/ OtherCall
RunLoop == BudgetExhausted \/ StepHead \/ HostCall \/ GuestStep \/ Fault
RunMrp == NextStage \/ EnterDrive \/ ReturnUndriven
Drive == Top \/ Dispatch \/ Repoll \/ Wait \/ GiveUp \/ Wake
Runner == RunLoop \/ RunMrp \/ Drive
World == UserInput \/ UserCloses \/ Tick \/ LimitPasses

Next == Runner \/ World \/ Over

Spec == Init /\ [][Next]_vars

(* The runner's thread is always ready to take its next step, but for      *)
(* sleeping, and time passes.  Nothing is asked of the user.               *)
FairSpec == Spec /\ WF_vars(Runner) /\ WF_vars(Tick)

-----------------------------------------------------------------------------
(* Properties.                                                             *)

(* Every field keeps its type.  In particular the time left to a timer is  *)
(* never below zero (time_until_next_timer_ms subtracts two u64), and the  *)
(* host's request slots are empty whenever the runner is between two steps.*)
TypeOK ==
  /\ rt \in [due : 0 .. Horizon \cup {None}, lag : 0 .. Horizon,
             queue : Seq(Event)]
  /\ host \in [command : {None}, events : {<< >>},
               dirty : BOOLEAN, exit : BOOLEAN]
  /\ win \in [mode : {"none", "open", "closed"},
              inbox : Seq(Event), pending : Seq(Event)]
  /\ running \in BOOLEAN /\ expired \in BOOLEAN
  /\ ctl \in [at : Places, back : {"boot", "pop"}, left : 0 .. StepLimit,
              boots : 0 .. BootStages, idle : 0 .. StepLimit, busy : BOOLEAN]
  /\ asked \in Delays \cup {None, Stop}
  /\ waited \in 0 .. Horizon /\ fires \in 0 .. 2
  /\ marked \in [Sources -> 0 .. MaxMark]
  /\ seen \in [Sources -> Seq(1 .. MaxMark)]

(* Every event that is not dispatched yet, the next one first.  Whatever   *)
(* path an event takes, these are the places it passes, in this order.     *)
Way == rt.queue \o host.events \o win.pending \o win.inbox

(* On a way, the marked events of a source have tags from to upto, each of *)
(* them once and in this order.                                            *)
Marks(s, way) == {i \in DOMAIN way : way[i].src = s /\ way[i].tag > 0}
InOrder(s, way, from, upto) ==
  /\ {way[i].tag : i \in Marks(s, way)} = from .. upto
  /\ \A i, j \in Marks(s, way) : i < j => way[i].tag < way[j].tag

(* Whatever path events take (the host's slot, the presenter, the queue),  *)
(* those of a source reach the helper in the order in which they arose,    *)
(* none twice, and none is lost on the way: every event not dispatched yet *)
(* is still somewhere, also when presenting a frame failed half way        *)
(* through drain_host_ui.                                                  *)
EventsInOrder ==
  \A s \in Sources :
    LET told == Len(seen[s])
    IN  /\ seen[s] = [i \in 1 .. told |-> i]
        /\ told <= marked[s]
        /\ InOrder(s, Way, told + 1, marked[s])

(* The runtime's timer is the one the guest asked for last: after a stop   *)
(* no timer is armed, an armed timer is the last one started and never has *)
(* more time left than it was given, and one start queues one Timer event  *)
(* at most - also when the start was the last step of a stage's budget.    *)
TimerAsCommanded ==
  /\ asked \notin Nat => rt.due = None
  /\ rt.due # None => rt.due <= asked /\ fires = 0
  /\ asked \in Nat /\ rt.due = None => fires = 1

(* A Timer event is queued only when at least the delay the guest asked    *)
(* for has passed since the clock the runtime had when it asked.           *)
NeverEarly == [][fires' > fires => waited >= asked]_vars

(* When the runner leaves drive_runtime_events of its own accord and the   *)
(* window has been closed, the guest has been handed MR_EVENT_EXIT: the    *)
(* closing is noticed in a pump and the event it leaves there is always    *)
(* dispatched before should_keep_waiting_for_host_events can say no.       *)
CloseIsTold ==
  ctl.at = "done" /\ ~expired /\ win.mode = "closed" => seen["quit"] # << >>

(* The runner gives up on an armed timer only if the timer is longer than  *)
(* all the idle polls it has: step_limit sleeps of up to 10 ms.            *)
OnlyLongTimersDropped ==
  ctl.at = "done" /\ ~expired /\ rt.due # None => asked > StepLimit * MaxSleep

(* An event of the guest's own, and the closing of the window, are         *)
(* dispatched in the end unless the runner ends before.                    *)
EventsServed ==
  \A s \in {"app", "quit"} :
    marked[s] = 1 ~> (seen[s] # << >> \/ Ended)

(* After the guest asked to exit and with no window left open, the runner  *)
(* ends, whatever timers and events were pending.                          *)
ExitEnds == (host.exit /\ win.mode # "open") ~> Ended

=============================================================================
