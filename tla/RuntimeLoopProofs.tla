------------------------- MODULE RuntimeLoopProofs -------------------------
(***************************************************************************)
(* Proofs about RuntimeLoop, for every step limit, set of delays, length   *)
(* of an idle sleep and number of stages and marked events.                *)
(***************************************************************************)
EXTENDS RuntimeLoop, SequenceTheorems, FiniteSetTheorems, WellFoundedInduction, TLAPS

-----------------------------------------------------------------------------
(* The inductive invariant. *)

(* Where the runner may be: what brings it there tells where it was. *)
PlacesAgree ==
  /\ ctl.at = "exec" => ctl.left > 0
  /\ ctl.at \in {"head", "exec"} /\ ctl.back = "pop" => ctl.busy
  /\ ctl.back = "boot" => ctl.idle = 0 /\ ctl.at \in {"boot", "head", "exec", "undriven"}
  /\ ctl.at = "boot" => ctl.back = "boot"

(* While a timer is armed, the time that has passed and the time left add  *)
(* up to what was asked; what the clock lags behind is counted in both.    *)
TimeAddsUp ==
  rt.due # None =>
    /\ rt.lag <= waited
    /\ asked + rt.lag <= rt.due + waited \/ waited = Horizon

(* What the runtime will say is left, once it has looked at the clock. *)
Left == IF rt.due <= rt.lag THEN 0 ELSE rt.due - rt.lag

(* Each idle poll with a timer armed has slept as long as it was to. *)
IdleAddsUp ==
  rt.due # None =>
    /\ ctl.at = "pop" /\ ~ctl.busy => rt.due # 0 /\ rt.due + ctl.idle * MaxSleep <= asked
    /\ ctl.at = "idle" => ctl.idle > 0 /\ rt.due + (ctl.idle - 1) * MaxSleep <= asked
    /\ ctl.at = "top" => Left = 0 \/ Left + ctl.idle * MaxSleep <= asked
    /\ ctl.at = "done" /\ ~expired => rt.due # 0 /\ rt.due + StepLimit * MaxSleep <= asked

(* The mark of a closed window is in the sequence. *)
QuitIn(s) == \E i \in 1 .. Len(s) : s[i].src = "quit" /\ s[i].tag = 1

(* The closing of a window is on its way, or has been told. *)
QuitTold ==
  /\ \A i \in 1 .. Len(win.inbox) : win.inbox[i].src = "quit" => win.inbox[i].tag = 1
  /\ win.mode = "closed" => QuitIn(rt.queue) \/ QuitIn(win.pending) \/ seen["quit"] # << >>
NothingPending ==
  /\ ctl.at = "pop" /\ ~ctl.busy => win.pending = << >>
  /\ ctl.at = "done" /\ ~expired => rt.queue = << >> /\ win.pending = << >>

LoopInv ==
  /\ TypeOK
  /\ PlacesAgree
  /\ TimerAsCommanded
  /\ TimeAddsUp
  /\ IdleAddsUp
  /\ QuitTold
  /\ NothingPending

-----------------------------------------------------------------------------
(* Numbers. *)

(* Every non-empty set of natural numbers has a least member. *)
LEMMA LeastOfNats ==
  ASSUME NEW T \in SUBSET Nat, T # {}
  PROVE  \E x \in T : \A y \in T : x <= y
<1> DEFINE R == {ss \in Nat \X Nat : ss[1] < ss[2]}
<1>1. IsWellFoundedOn(R, Nat)
  <2>1. OpToRel(<, Nat) = R
    BY DEF OpToRel
  <2> QED BY <2>1, NatLessThanWellFounded, Zenon
<1>2. \A x, y \in Nat : ~ (<<y, x>> \in R) => x <= y
  OBVIOUS
<1> HIDE DEF R
<1>3. \E x \in T : \A y \in T : ~ (<<y, x>> \in R)
  BY <1>1, WFMin
<1> QED BY <1>2, <1>3

(* Max of a finite set of natural numbers is its greatest member. *)
LEMMA MaxOfNats ==
  ASSUME NEW S \in SUBSET Nat, IsFiniteSet(S), S # {}
  PROVE  Max(S) \in S /\ \A y \in S : y <= Max(S)
<1> DEFINE Above(x) == {y \in S : x < y}
           Sizes == {Cardinality(Above(x)) : x \in S}
<1>1. \A x \in S : IsFiniteSet(Above(x)) /\ Cardinality(Above(x)) \in Nat
  <2> TAKE x \in S
  <2>1. Above(x) \subseteq S
    OBVIOUS
  <2> HIDE DEF Above
  <2>2. IsFiniteSet(Above(x))
    BY <2>1, FS_Subset
  <2> QED BY <2>2, FS_CardinalityType
<1>2. Sizes \in SUBSET Nat /\ Sizes # {}
  <2> HIDE DEF Above
  <2> QED BY <1>1
<1>3. PICK n \in Sizes : \A k \in Sizes : n <= k
  <2> HIDE DEF Sizes
  <2> QED BY <1>2, LeastOfNats
<1>4. PICK x \in S : n = Cardinality(Above(x))
  OBVIOUS
<1>5. ASSUME NEW y \in S, x < y PROVE FALSE
  <2>1. Above(y) \subseteq Above(x) \ {y}
    <3> SUFFICES ASSUME NEW z \in S, y < z PROVE x < z /\ z # y
      OBVIOUS
    <3>1. x \in Nat /\ y \in Nat /\ z \in Nat
      OBVIOUS
    <3> QED BY <1>5, <3>1
  <2>2. y \in Above(x)
    BY <1>5
  <2>3. IsFiniteSet(Above(x)) /\ Cardinality(Above(x)) \in Nat /\ Cardinality(Above(y)) \in Nat
    BY <1>1, <1>4
  <2>4. n <= Cardinality(Above(y))
    BY <1>3
  <2> HIDE DEF Above, Sizes
  <2>5. /\ IsFiniteSet(Above(x) \ {y})
        /\ Cardinality(Above(x) \ {y}) = Cardinality(Above(x)) - 1
    BY <2>2, <2>3, FS_RemoveElement
  <2>6. Cardinality(Above(y)) <= Cardinality(Above(x) \ {y})
    BY <2>1, <2>5, FS_Subset
  <2> QED BY <1>4, <2>3, <2>4, <2>5, <2>6
<1>6. \A y \in S : x >= y
  BY <1>5
<1> HIDE DEF Above, Sizes
<1>7. Max(S) \in S /\ \A y \in S : Max(S) >= y
  BY <1>4, <1>6 DEF Max
<1> QED BY <1>7

(* Horizon is a number that no delay and no sleep exceeds. *)
LEMMA HorizonBounds ==
  /\ Horizon \in Nat /\ Delays \subseteq 0 .. Horizon /\ MaxSleep \in 1 .. Horizon
  /\ MaxSleep \in Nat /\ StepLimit \in Nat
<1> DEFINE S == Delays \cup {MaxSleep}
<1>1. S \in SUBSET Nat /\ S # {} /\ IsFiniteSet(S)
  BY LimitAssumption, FS_AddElement
<1>2. Max(S) \in S /\ \A y \in S : y <= Max(S)
  <2> HIDE DEF S
  <2> QED BY <1>1, MaxOfNats
<1>3. Horizon \in S /\ \A y \in S : y <= Horizon
  BY <1>2 DEF Horizon
<1>4. Horizon \in Nat /\ \A y \in S : y \in 0 .. Horizon
  BY <1>1, <1>3
<1>5. MaxSleep \in Nat \ {0} /\ StepLimit \in Nat
  BY LimitAssumption
<1> QED BY <1>4, <1>5

(* Max and Min of two numbers. *)
LEMMA OfTwo ==
  ASSUME NEW a \in Int, NEW b \in Int
  PROVE  /\ Max({a, b}) = (IF a <= b THEN b ELSE a)
         /\ Min({a, b}) = (IF a <= b THEN a ELSE b)
<1>1. Max({a, b}) \in {a, b} /\ \A y \in {a, b} : Max({a, b}) >= y
  <2>1. \E x \in {a, b} : \A y \in {a, b} : x >= y
    OBVIOUS
  <2> QED BY <2>1 DEF Max
<1>2. Min({a, b}) \in {a, b} /\ \A y \in {a, b} : Min({a, b}) <= y
  <2>1. \E x \in {a, b} : \A y \in {a, b} : x <= y
    OBVIOUS
  <2> QED BY <2>1 DEF Min
<1> QED BY <1>1, <1>2

(* No command is a number, and the two are apart. *)
LEMMA NoneApart == None \notin Nat /\ Stop \notin Nat /\ None # Stop
BY LimitAssumption

-----------------------------------------------------------------------------
(* The runtime, the host and the window as values. *)

Due == 0 .. Horizon \cup {None}
RtType == [due : Due, lag : 0 .. Horizon, queue : Seq(Event)]
WinType == [mode : {"none", "open", "closed"}, inbox : Seq(Event), pending : Seq(Event)]
HostType == [command : Delays \cup {None, Stop}, events : Seq(Event),
             dirty : BOOLEAN, exit : BOOLEAN]
CtlType == [at : Places, back : {"boot", "pop"}, left : 0 .. StepLimit,
            boots : 0 .. BootStages, idle : 0 .. StepLimit, busy : BOOLEAN]

(* A runtime with other fields. *)
LEMMA Updated ==
  ASSUME NEW r \in RtType, NEW d, NEW l, NEW q
  PROVE  /\ [[r EXCEPT !.due = d] EXCEPT !.lag = l] = [due |-> d, lag |-> l, queue |-> r.queue]
         /\ [[r EXCEPT !.due = d] EXCEPT !.queue = q] = [due |-> d, lag |-> r.lag, queue |-> q]
<1>1. [r EXCEPT !.due = d] = [due |-> d, lag |-> r.lag, queue |-> r.queue]
  BY DEF RtType
<1>2. [[due |-> d, lag |-> r.lag, queue |-> r.queue] EXCEPT !.lag = l]
        = [due |-> d, lag |-> l, queue |-> r.queue]
  OBVIOUS
<1>3. [[due |-> d, lag |-> r.lag, queue |-> r.queue] EXCEPT !.queue = q]
        = [due |-> d, lag |-> r.lag, queue |-> q]
  OBVIOUS
<1> QED BY <1>1, <1>2, <1>3, Zenon

(* One look at the clock: the timer fires, or has that much less to go. *)
LEMMA PolledIs ==
  ASSUME NEW r \in RtType
  PROVE  /\ Polled(r) \in RtType
         /\ Polled(r).lag = 0
         /\ Polled(r).due = (IF r.due = None \/ r.due <= r.lag THEN None
                             ELSE r.due - r.lag)
         /\ Polled(r).queue \in {r.queue, Append(r.queue, Timer)}
         /\ Polled(r).queue = IF Fires(r) THEN Append(r.queue, Timer) ELSE r.queue
         /\ Fires(r) <=> r.due # None /\ r.due <= r.lag
<1> DEFINE s == SyncClock(r)
<1>1. /\ r.due \in Due /\ r.lag \in 0 .. Horizon /\ r.queue \in Seq(Event)
      /\ r = [due |-> r.due, lag |-> r.lag, queue |-> r.queue]
  BY DEF RtType
<1>2. Horizon \in Nat /\ None \notin Nat
  BY HorizonBounds, NoneApart
<1>3. r.due # None =>
        Max({0, r.due - r.lag}) = IF r.due <= r.lag THEN 0 ELSE r.due - r.lag
  <2> SUFFICES ASSUME r.due # None
               PROVE  Max({0, r.due - r.lag}) = IF r.due <= r.lag THEN 0 ELSE r.due - r.lag
    OBVIOUS
  <2>1. r.due \in Nat /\ r.lag \in Nat /\ r.due - r.lag \in Int
    BY <1>1, <1>2 DEF Due
  <2>2. Max({0, r.due - r.lag}) = IF 0 <= r.due - r.lag THEN r.due - r.lag ELSE 0
    BY <2>1, OfTwo
  <2> QED BY <2>1, <2>2
<1>4. /\ s.due = IF r.due = None THEN None ELSE IF r.due <= r.lag THEN 0 ELSE r.due - r.lag
      /\ s.lag = 0 /\ s.queue = r.queue
      /\ s = [due |-> s.due, lag |-> s.lag, queue |-> s.queue]
  <2> DEFINE e == IF r.due = None THEN None ELSE Max({0, r.due - r.lag})
  <2>1. s = [[r EXCEPT !.due = e] EXCEPT !.lag = 0]
    BY DEF SyncClock
  <2>2. e = IF r.due = None THEN None ELSE IF r.due <= r.lag THEN 0 ELSE r.due - r.lag
    BY <1>3
  <2> HIDE DEF e, s
  <2>3. s = [due |-> e, lag |-> 0, queue |-> r.queue]
    BY <2>1, Updated, Zenon
  <2> QED BY <2>2, <2>3
<1>5. s.due \in Due
  BY <1>1, <1>2, <1>4 DEF Due
<1>6. Timer \in Event
  BY LimitAssumption DEF Timer, Event
<1>7. Append(r.queue, Timer) \in Seq(Event)
  BY <1>1, <1>6, AppendProperties
<1> HIDE DEF s
<1>8. Polled(r) = IF s.due = 0 THEN [s EXCEPT !.due = None, !.queue = Append(s.queue, Timer)] ELSE s
  BY DEF Polled, PollTimers, s
<1>9. /\ Polled(r).lag = 0
      /\ Polled(r).due = IF s.due = 0 THEN None ELSE s.due
      /\ Polled(r).queue = IF s.due = 0 THEN Append(r.queue, Timer) ELSE r.queue
      /\ Polled(r) = [due |-> Polled(r).due, lag |-> Polled(r).lag, queue |-> Polled(r).queue]
  BY <1>4, <1>8
<1>10. Polled(r).due = (IF r.due = None \/ r.due <= r.lag THEN None ELSE r.due - r.lag)
  BY <1>1, <1>2, <1>4, <1>9 DEF Due
<1>11. Fires(r) <=> r.due # None /\ r.due <= r.lag
  BY <1>1, <1>2, <1>10 DEF Fires, Due
<1>12. Polled(r).due \in Due /\ Polled(r).queue \in {r.queue, Append(r.queue, Timer)}
  BY <1>5, <1>9 DEF Due
<1>13. Polled(r) \in RtType
  BY SMTT(30), <1>1, <1>2, <1>7, <1>9, <1>12 DEF RtType
<1>14. Polled(r).queue = IF Fires(r) THEN Append(r.queue, Timer) ELSE r.queue
  <2>1. s.due = 0 <=> r.due # None /\ r.due <= r.lag
    BY <1>1, <1>2, <1>4 DEF Due
  <2> QED BY <1>9, <1>11, <2>1
<1> QED BY <1>9, <1>10, <1>11, <1>12, <1>13, <1>14

(* What draining the host's requests makes of the runtime. *)
LEMMA DrainedIs ==
  ASSUME NEW r \in RtType, NEW h \in HostType
  PROVE  /\ Drained(r, h) \in RtType
         /\ Drained(r, h).lag = r.lag
         /\ Drained(r, h).queue = r.queue \o h.events
         /\ Drained(r, h).due = (IF h.command = None THEN r.due
                                 ELSE IF h.command = Stop THEN None ELSE h.command)
<1> DEFINE d == IF h.command = None THEN r.due
                ELSE IF h.command = Stop THEN None ELSE h.command
           e == CASE h.command = None -> r.due
                  [] h.command = Stop -> None
                  [] OTHER -> h.command
           q == r.queue \o h.events
<1>1. /\ r.due \in Due /\ r.lag \in 0 .. Horizon /\ r.queue \in Seq(Event)
      /\ h.command \in Delays \cup {None, Stop} /\ h.events \in Seq(Event)
  BY DEF RtType, HostType
<1>2. Drained(r, h) = [[r EXCEPT !.due = e] EXCEPT !.queue = q]
  BY DEF Drained
<1>3. e = d
  BY NoneApart
<1>4. d \in Due
  BY <1>1, HorizonBounds DEF Due
<1>5. q \in Seq(Event)
  BY <1>1, ConcatProperties
<1> HIDE DEF d, e, q
<1>6. Drained(r, h) = [due |-> d, lag |-> r.lag, queue |-> q]
  BY <1>2, <1>3, Updated, Zenon
<1>7. Drained(r, h) \in RtType
  BY <1>1, <1>4, <1>5, <1>6 DEF RtType
<1>8. Drained(r, h).lag = r.lag /\ Drained(r, h).queue = q /\ Drained(r, h).due = d
  BY <1>6
<1> USE DEF d, q
<1> QED BY <1>7, <1>8, Zenon

(* A pump keeps what is pending, and nothing of the inbox is lost. *)
LEMMA ShownIs ==
  ASSUME NEW w \in WinType, NEW dirty \in BOOLEAN
  PROVE  LET s == Shown(w, dirty)
         IN  /\ s \in WinType
             /\ \/ s = w
                \/ /\ s.inbox = << >> /\ s.pending = w.pending \o w.inbox
                   /\ s.mode = "closed" => \/ w.mode = "closed"
                                           \/ \E i \in 1 .. Len(w.inbox) : w.inbox[i].src = "quit"
<1>1. /\ w.mode \in {"none", "open", "closed"} /\ w.inbox \in Seq(Event) /\ w.pending \in Seq(Event)
  BY DEF WinType
<1>2. w.pending \o w.inbox \in Seq(Event) /\ << >> \in Seq(Event)
      /\ DOMAIN w.inbox = 1 .. Len(w.inbox)
  BY <1>1, ConcatProperties, EmptySeq, LenProperties
<1>3. ASSUME w.mode # "none"
      PROVE  /\ Pumped(w) \in WinType
             /\ Pumped(w).inbox = << >> /\ Pumped(w).pending = w.pending \o w.inbox
             /\ Pumped(w).mode = "closed" => \/ w.mode = "closed"
                     \/ \E i \in 1 .. Len(w.inbox) : w.inbox[i].src = "quit"
  BY <1>1, <1>2, <1>3 DEF Pumped, WinType
<1>4. CASE Shown(w, dirty) = w
  BY <1>4
<1>5. CASE Shown(w, dirty) # w
  <2>1. Shown(w, dirty) = Pumped(w) /\ w.mode # "none"
    BY <1>5 DEF Shown, Pumped
  <2> QED BY <1>3, <2>1
<1> QED BY <1>4, <1>5

(* What drain_host_ui makes of the window and of the runtime. *)
LEMMA UiIs ==
  ASSUME NEW r \in RtType, NEW w \in WinType, NEW dirty \in BOOLEAN, NEW ok \in BOOLEAN
  PROVE  LET s == Shown(w, dirty)
             u == UiWin(w, dirty, ok)
             q == UiQueued(r, w, dirty, ok)
         IN  /\ u \in WinType /\ q \in RtType
             /\ q.due = r.due /\ q.lag = r.lag
             /\ u.mode = s.mode /\ u.inbox = s.inbox
             /\ u.pending = IF ok THEN << >> ELSE s.pending
             /\ q.queue = IF ok THEN r.queue \o s.pending ELSE r.queue
<1> DEFINE s == Shown(w, dirty)
<1>1. s \in WinType
  BY ShownIs
<1> HIDE DEF s
<1>2. /\ s.pending \in Seq(Event) /\ s.inbox \in Seq(Event) /\ s.mode \in {"none", "open", "closed"}
      /\ s = [mode |-> s.mode, inbox |-> s.inbox, pending |-> s.pending]
  BY <1>1 DEF WinType
<1>3. r = [due |-> r.due, lag |-> r.lag, queue |-> r.queue] /\ r.queue \in Seq(Event)
      /\ r.due \in Due /\ r.lag \in 0 .. Horizon
  BY DEF RtType
<1>4. r.queue \o s.pending \in Seq(Event) /\ << >> \in Seq(Event)
  BY <1>2, <1>3, ConcatProperties, EmptySeq
<1>5. UiWin(w, dirty, ok) = [mode |-> s.mode, inbox |-> s.inbox,
                             pending |-> IF ok THEN << >> ELSE s.pending]
  BY <1>2 DEF UiWin, s
<1>6. UiQueued(r, w, dirty, ok) = [due |-> r.due, lag |-> r.lag,
                                   queue |-> IF ok THEN r.queue \o s.pending ELSE r.queue]
  BY <1>3 DEF UiQueued, s
<1>7. UiWin(w, dirty, ok) \in WinType
  BY <1>1, <1>2, <1>4, <1>5 DEF WinType
<1>8. UiQueued(r, w, dirty, ok) \in RtType
  BY <1>3, <1>4, <1>6 DEF RtType
<1> QED BY <1>5, <1>6, <1>7, <1>8 DEF s
-----------------------------------------------------------------------------
(* The steps, by what they do to the window, the runtime and the clock.    *)

IdleHost == [command : {None}, events : {<< >>}, dirty : BOOLEAN, exit : BOOLEAN]

(* The window after drain_host_ui. *)
Shows(dirty, ok) ==
  LET s == Shown(win, dirty)
  IN  /\ win' \in WinType
      /\ win'.mode = s.mode /\ win'.inbox = s.inbox
      /\ win'.pending = IF ok THEN << >> ELSE s.pending
(* The queue gets the window's events, if it was shown, and other ones.    *)
Delivers(dirty, ok) ==
  /\ QuitIn(rt.queue) => QuitIn(rt'.queue)
  /\ ok /\ QuitIn(Shown(win, dirty).pending) => QuitIn(rt'.queue)
(* The timer as it was, but for what a look at the clock may do.           *)
Looks(r) == /\ r \in RtType /\ r.due = rt.due /\ r.lag = rt.lag
            /\ rt' = Polled(r) /\ CountFires(r)

LEMMA QuitInConcat ==
  ASSUME NEW a \in Seq(Event), NEW b \in Seq(Event)
  PROVE  QuitIn(a \o b) <=> QuitIn(a) \/ QuitIn(b)
<1>1. /\ a \o b \in Seq(Event) /\ Len(a \o b) = Len(a) + Len(b)
      /\ \A i \in 1 .. Len(a) + Len(b) :
           (a \o b)[i] = IF i <= Len(a) THEN a[i] ELSE b[i - Len(a)]
      /\ Len(a) \in Nat /\ Len(b) \in Nat
  BY ConcatProperties, LenProperties
<1>2. ASSUME QuitIn(a) PROVE QuitIn(a \o b)
  <2>1. PICK i \in 1 .. Len(a) : a[i].src = "quit" /\ a[i].tag = 1
    BY <1>2 DEF QuitIn
  <2>2. i \in 1 .. Len(a \o b) /\ (a \o b)[i] = a[i]
    BY <1>1
  <2> QED BY <2>1, <2>2 DEF QuitIn
<1>3. ASSUME QuitIn(b) PROVE QuitIn(a \o b)
  <2>1. PICK i \in 1 .. Len(b) : b[i].src = "quit" /\ b[i].tag = 1
    BY <1>3 DEF QuitIn
  <2>2. Len(a) + i \in 1 .. Len(a \o b) /\ (a \o b)[Len(a) + i] = b[i]
    BY <1>1
  <2> QED BY <2>1, <2>2 DEF QuitIn
<1>4. ASSUME QuitIn(a \o b) PROVE QuitIn(a) \/ QuitIn(b)
  <2>1. PICK i \in 1 .. Len(a \o b) : (a \o b)[i].src = "quit" /\ (a \o b)[i].tag = 1
    BY <1>4 DEF QuitIn
  <2>2. CASE i <= Len(a)
    <3>1. i \in 1 .. Len(a) /\ (a \o b)[i] = a[i]
      BY <1>1, <2>2
    <3> QED BY <2>1, <3>1 DEF QuitIn
  <2>3. CASE ~ (i <= Len(a))
    <3>1. i - Len(a) \in 1 .. Len(b) /\ (a \o b)[i] = b[i - Len(a)]
      BY <1>1, <2>3
    <3> QED BY <2>1, <3>1 DEF QuitIn
  <2> QED BY <2>2, <2>3
<1> QED BY <1>2, <1>3, <1>4

LEMMA QuitInAppend ==
  ASSUME NEW a \in Seq(Event), NEW e \in Event, QuitIn(a)
  PROVE  QuitIn(Append(a, e))
<1>1. PICK i \in 1 .. Len(a) : a[i].src = "quit" /\ a[i].tag = 1
  BY DEF QuitIn
<1>2. i \in 1 .. Len(Append(a, e)) /\ Append(a, e)[i] = a[i]
  BY AppendProperties, LenProperties
<1> QED BY <1>1, <1>2 DEF QuitIn

LEMMA TimerIsEvent == Timer \in Event
BY LimitAssumption DEF Timer, Event

LEMMA Reset ==
  ASSUME NEW h,
         h = [command |-> h.command, events |-> h.events, dirty |-> h.dirty, exit |-> h.exit]
  PROVE  /\ Undirtied(h) = [command |-> h.command, events |-> h.events,
                            dirty |-> FALSE, exit |-> h.exit]
         /\ NoRequests(Undirtied(h)) = [command |-> None, events |-> << >>,
                                        dirty |-> FALSE, exit |-> h.exit]
<1>1. PICK d, e : d = FALSE /\ e = << >>
  OBVIOUS
<1> DEFINE g == [h EXCEPT !.dirty = d]
           k == [g EXCEPT !.command = None]
<1>2. g = [command |-> h.command, events |-> h.events, dirty |-> d, exit |-> h.exit]
  OBVIOUS
<1> HIDE DEF g
<1>3. k = [command |-> None, events |-> h.events, dirty |-> d, exit |-> h.exit]
  BY <1>2
<1> HIDE DEF k
<1>4. [k EXCEPT !.events = e] = [command |-> None, events |-> e, dirty |-> d, exit |-> h.exit]
  BY <1>3
<1>5. Undirtied(h) = g
  BY <1>1 DEF Undirtied, g
<1>6. NoRequests(g) = [k EXCEPT !.events = e]
  BY <1>1 DEF NoRequests, k
<1> QED BY <1>1, <1>2, <1>4, <1>5, <1>6

LEMMA HostIs ==
  ASSUME NEW h \in HostType
  PROVE  /\ NoRequests(Undirtied(h)) \in IdleHost
         /\ h \in IdleHost => /\ Undirtied(h) \in IdleHost
                              /\ h.command = None /\ h.events = << >>
<1>1. /\ h.exit \in BOOLEAN
      /\ h = [command |-> h.command, events |-> h.events, dirty |-> h.dirty, exit |-> h.exit]
  BY DEF HostType
<1>2. NoRequests(Undirtied(h)) \in IdleHost
  <2>1. NoRequests(Undirtied(h)) = [command |-> None, events |-> << >>,
                                    dirty |-> FALSE, exit |-> h.exit]
    BY <1>1, Reset, Zenon
  <2> QED BY <1>1, <2>1 DEF IdleHost
<1>3. ASSUME h \in IdleHost
      PROVE  Undirtied(h) \in IdleHost /\ h.command = None /\ h.events = << >>
  <2>1. h.command = None /\ h.events = << >>
    BY <1>3 DEF IdleHost
  <2>2. Undirtied(h) = [command |-> h.command, events |-> h.events,
                        dirty |-> FALSE, exit |-> h.exit]
    BY <1>1, Reset, Zenon
  <2> QED BY <1>1, <2>1, <2>2 DEF IdleHost
<1> QED BY <1>2, <1>3

LEMMA IdleHosts == IdleHost \subseteq HostType
BY EmptySeq DEF IdleHost, HostType

(* What a look at the clock does to the queue. *)
LEMMA PollDelivers ==
  ASSUME NEW r \in RtType, QuitIn(r.queue)
  PROVE  QuitIn(Polled(r).queue)
<1>1. r.queue \in Seq(Event)
  BY DEF RtType
<1> QED BY <1>1, PolledIs, QuitInAppend, TimerIsEvent

(* drain_host_ui, drain_host_runtime_events and the look at the clock, at  *)
(* the head of a step.                                                     *)
LEMMA StepHeadIs ==
  ASSUME TypeOK, StepHead
  PROVE  /\ host' \in IdleHost
         /\ \E ok \in BOOLEAN :
              /\ Shows(host.dirty, ok) /\ Delivers(host.dirty, ok)
              /\ (\E r \in RtType : Looks(r)) \/ (~ok /\ UNCHANGED <<rt, clock>>)
<1>1. rt \in RtType /\ win \in WinType /\ host \in IdleHost /\ host \in HostType
  BY IdleHosts DEF TypeOK, RtType, WinType, IdleHost, Due
<1>2. host.dirty \in BOOLEAN /\ host.events = << >> /\ host.command = None
  BY <1>1 DEF IdleHost
<1>3. PICK ok \in Presents(win, host.dirty) :
        LET drained == Drained(UiQueued(rt, win, host.dirty, ok), host)
        IN  /\ win' = UiWin(win, host.dirty, ok)
            /\ IF ok
               THEN /\ rt' = Polled(drained)
                    /\ host' = NoRequests(Undirtied(host))
                    /\ CountFires(drained)
               ELSE /\ host' = Undirtied(host)
                    /\ UNCHANGED <<rt, clock>>
  BY Zenon DEF StepHead
<1>4. ok \in BOOLEAN
  BY DEF Presents
<1> DEFINE s == Shown(win, host.dirty)
           q == UiQueued(rt, win, host.dirty, ok)
           d == Drained(q, host)
<1>5. host' \in IdleHost
  BY <1>1, <1>3, HostIs
<1>6. /\ Shows(host.dirty, ok)
      /\ q \in RtType /\ q.due = rt.due /\ q.lag = rt.lag
      /\ q.queue = IF ok THEN rt.queue \o s.pending ELSE rt.queue
  <2>1. LET u == UiWin(win, host.dirty, ok)
        IN  /\ u \in WinType /\ q \in RtType
            /\ q.due = rt.due /\ q.lag = rt.lag
            /\ u.mode = s.mode /\ u.inbox = s.inbox
            /\ u.pending = IF ok THEN << >> ELSE s.pending
            /\ q.queue = IF ok THEN rt.queue \o s.pending ELSE rt.queue
    BY <1>1, <1>2, <1>4, UiIs
  <2> HIDE DEF q, s
  <2>2. /\ win' \in WinType /\ win'.mode = s.mode /\ win'.inbox = s.inbox
        /\ win'.pending = IF ok THEN << >> ELSE s.pending
    BY <1>3, <2>1
  <2>3. Shows(host.dirty, ok)
    BY <2>2 DEF Shows, s
  <2> QED BY <2>1, <2>3
<1>7. s \in WinType
  BY <1>1, <1>2, ShownIs
<1> HIDE DEF q
<1>8. d \in RtType /\ d.due = rt.due /\ d.lag = rt.lag /\ d.queue = q.queue
  <2>1. q.queue \in Seq(Event)
    BY <1>6 DEF RtType
  <2>2. q.queue \o << >> = q.queue
    BY <2>1, ConcatEmptySeq
  <2> QED BY <1>1, <1>2, <1>6, <2>2, DrainedIs
<1> HIDE DEF d, s
<1>9. CASE ok
  <2>1. Looks(d)
    BY <1>3, <1>8, <1>9 DEF Looks, d, q
  <2>2. rt.queue \in Seq(Event) /\ s.pending \in Seq(Event)
    BY <1>1, <1>7 DEF RtType, WinType
  <2>3. QuitIn(rt.queue) \/ QuitIn(s.pending) => QuitIn(rt'.queue)
    <3>1. d.queue = rt.queue \o s.pending
      BY <1>6, <1>8, <1>9
    <3>2. QuitIn(rt.queue) \/ QuitIn(s.pending) => QuitIn(d.queue)
      BY <2>2, <3>1, QuitInConcat
    <3>3. QuitIn(d.queue) => QuitIn(Polled(d).queue)
      BY <1>8, PollDelivers
    <3> QED BY <2>1, <3>2, <3>3 DEF Looks
  <2> QED BY <1>4, <1>5, <1>6, <1>8, <2>1, <2>3 DEF Delivers, s
<1>10. CASE ~ok
  BY <1>3, <1>4, <1>5, <1>6, <1>10 DEF Delivers
<1> QED BY <1>9, <1>10

(* The same at the top of drive_runtime_events, where there is no request. *)
LEMMA TopIs ==
  ASSUME TypeOK, Top
  PROVE  /\ host' \in IdleHost
         /\ \E ok \in BOOLEAN :
              /\ Shows(host.dirty, ok) /\ Delivers(host.dirty, ok)
              /\ \/ (\E r \in RtType : Looks(r))
                    /\ ctl' = [ctl EXCEPT !.busy = FALSE, !.at = IF expired THEN "done" ELSE "pop"]
                    /\ ok
                 \/ UNCHANGED <<rt, clock>>
                    /\ ctl' = [ctl EXCEPT !.busy = FALSE, !.at = "failed"]
<1>1. rt \in RtType /\ win \in WinType /\ host \in IdleHost /\ host \in HostType
  BY IdleHosts DEF TypeOK, RtType, WinType, IdleHost, Due
<1>2. host.dirty \in BOOLEAN
  BY <1>1 DEF IdleHost
<1>3. PICK ok \in Presents(win, host.dirty) :
        LET queued == UiQueued(rt, win, host.dirty, ok)
        IN  /\ win' = UiWin(win, host.dirty, ok)
            /\ host' = Undirtied(host)
            /\ IF ok
               THEN rt' = Polled(queued) /\ CountFires(queued)
               ELSE UNCHANGED <<rt, clock>>
            /\ ctl' = [ctl EXCEPT !.busy = FALSE,
                         !.at = IF ~ok THEN "failed"
                                ELSE IF expired THEN "done" ELSE "pop"]
  BY Zenon DEF Top
<1>4. ok \in BOOLEAN
  BY DEF Presents
<1> DEFINE s == Shown(win, host.dirty)
           q == UiQueued(rt, win, host.dirty, ok)
<1>5. host' \in IdleHost
  BY <1>1, <1>3, HostIs
<1>6. /\ Shows(host.dirty, ok)
      /\ q \in RtType /\ q.due = rt.due /\ q.lag = rt.lag
      /\ q.queue = IF ok THEN rt.queue \o s.pending ELSE rt.queue
  <2>1. LET u == UiWin(win, host.dirty, ok)
        IN  /\ u \in WinType /\ q \in RtType
            /\ q.due = rt.due /\ q.lag = rt.lag
            /\ u.mode = s.mode /\ u.inbox = s.inbox
            /\ u.pending = IF ok THEN << >> ELSE s.pending
            /\ q.queue = IF ok THEN rt.queue \o s.pending ELSE rt.queue
    BY <1>1, <1>2, <1>4, UiIs
  <2> HIDE DEF q, s
  <2>2. /\ win' \in WinType /\ win'.mode = s.mode /\ win'.inbox = s.inbox
        /\ win'.pending = IF ok THEN << >> ELSE s.pending
    BY <1>3, <2>1
  <2>3. Shows(host.dirty, ok)
    BY <2>2 DEF Shows, s
  <2> QED BY <2>1, <2>3
<1>7. s \in WinType
  BY <1>1, <1>2, ShownIs
<1> HIDE DEF q, s
<1>8. CASE ok
  <2>1. Looks(q)
    BY <1>3, <1>6, <1>8 DEF Looks, q
  <2>2. rt.queue \in Seq(Event) /\ s.pending \in Seq(Event)
    BY <1>1, <1>7 DEF RtType, WinType
  <2>3. QuitIn(rt.queue) \/ QuitIn(s.pending) => QuitIn(rt'.queue)
    <3>1. q.queue = rt.queue \o s.pending
      BY <1>6, <1>8
    <3>2. QuitIn(rt.queue) \/ QuitIn(s.pending) => QuitIn(q.queue)
      BY <2>2, <3>1, QuitInConcat
    <3>3. QuitIn(q.queue) => QuitIn(Polled(q).queue)
      BY <1>6, PollDelivers
    <3> QED BY <2>1, <3>2, <3>3 DEF Looks
  <2>4. ctl' = [ctl EXCEPT !.busy = FALSE, !.at = IF expired THEN "done" ELSE "pop"]
    BY <1>3, <1>8, Zenon
  <2>5. Delivers(host.dirty, ok)
    BY <2>3 DEF Delivers, s
  <2> QED BY <1>4, <1>5, <1>6, <1>8, <2>1, <2>4, <2>5
<1>9. CASE ~ok
  <2>1. ctl' = [ctl EXCEPT !.busy = FALSE, !.at = "failed"]
    BY <1>3, <1>9, Zenon
  <2>2. UNCHANGED <<rt, clock>>
    BY <1>3, <1>9
  <2>3. Delivers(host.dirty, ok)
    BY <1>9, <2>2 DEF Delivers
  <2> QED BY <1>4, <1>5, <1>6, <2>1, <2>2, <2>3
<1> QED BY <1>8, <1>9

(* A host function that leaves the host as h. *)
LEMMA HostReturnsIs ==
  ASSUME TypeOK, NEW h \in HostType, HostReturns(h)
  PROVE  /\ host' \in IdleHost /\ rt' \in RtType /\ rt'.lag = rt.lag
         /\ rt'.due = (IF h.command = None THEN rt.due
                       ELSE IF h.command = Stop THEN None ELSE h.command)
         /\ \E ok \in BOOLEAN : Shows(h.dirty, ok) /\ Delivers(h.dirty, ok)
<1>1. rt \in RtType /\ win \in WinType
  BY DEF TypeOK, RtType, WinType, Due
<1>2. h.dirty \in BOOLEAN /\ h.events \in Seq(Event)
  BY DEF HostType
<1>3. PICK ok \in Presents(win, h.dirty) :
        /\ rt' = UiQueued(Drained(rt, h), win, h.dirty, ok)
        /\ win' = UiWin(win, h.dirty, ok)
        /\ host' = NoRequests(Undirtied(h))
  BY Zenon DEF HostReturns
<1>4. ok \in BOOLEAN
  BY DEF Presents
<1> DEFINE s == Shown(win, h.dirty)
           d == Drained(rt, h)
<1>5. host' \in IdleHost
  BY <1>3, HostIs
<1>6. d \in RtType
  BY <1>1, DrainedIs
<1>12. /\ d.lag = rt.lag /\ d.queue = rt.queue \o h.events
      /\ d.due = (IF h.command = None THEN rt.due
                  ELSE IF h.command = Stop THEN None ELSE h.command)
  BY <1>1, DrainedIs
<1> HIDE DEF d
<1>7. LET u == UiWin(win, h.dirty, ok)
          q == UiQueued(d, win, h.dirty, ok)
      IN  /\ u \in WinType /\ q \in RtType
          /\ q.due = d.due /\ q.lag = d.lag
          /\ u.mode = s.mode /\ u.inbox = s.inbox
          /\ u.pending = IF ok THEN << >> ELSE s.pending
          /\ q.queue = IF ok THEN d.queue \o s.pending ELSE d.queue
  BY <1>1, <1>2, <1>4, <1>6, UiIs
<1>8. s \in WinType
  BY <1>1, <1>2, ShownIs
<1> HIDE DEF s
<1>9. /\ rt' \in RtType /\ rt'.due = d.due /\ rt'.lag = d.lag
      /\ rt'.queue = IF ok THEN d.queue \o s.pending ELSE d.queue
      /\ win' \in WinType /\ win'.mode = s.mode /\ win'.inbox = s.inbox
      /\ win'.pending = IF ok THEN << >> ELSE s.pending
  BY <1>3, <1>7 DEF d
<1>10. Shows(h.dirty, ok)
  BY <1>9 DEF Shows, s
<1>11. Delivers(h.dirty, ok)
  <2>1. rt.queue \in Seq(Event) /\ d.queue \in Seq(Event) /\ s.pending \in Seq(Event)
    BY <1>1, <1>6, <1>8 DEF RtType, WinType
  <2>2. QuitIn(rt.queue) => QuitIn(d.queue)
    BY <1>2, <1>12, <2>1, QuitInConcat
  <2>3. QuitIn(d.queue) => QuitIn(rt'.queue)
    BY <1>9, <2>1, QuitInConcat
  <2>4. ok /\ QuitIn(s.pending) => QuitIn(rt'.queue)
    BY <1>9, <2>1, QuitInConcat
  <2> QED BY <2>2, <2>3, <2>4 DEF Delivers, s
<1> QED BY <1>4, <1>5, <1>12, <1>9, <1>10, <1>11

-----------------------------------------------------------------------------
(* What a step may do to the timer and its history.                        *)

TimeStays == rt'.due = rt.due /\ rt'.lag = rt.lag /\ UNCHANGED clock
Armed == \E delay \in Delays : /\ rt'.due = delay /\ rt'.lag = rt.lag
                               /\ asked' = delay /\ waited' = rt.lag /\ fires' = 0
Stopped == /\ rt'.due = None /\ rt'.lag = rt.lag
           /\ asked' = Stop /\ waited' = 0 /\ fires' = 0

LEMMA MarkingIs ==
  ASSUME TypeOK, NEW s \in Sources, NEW tag \in 0 .. MaxMark, Marking(s, tag)
  PROVE  marked' \in [Sources -> 0 .. MaxMark]
<1>1. marked \in [Sources -> 0 .. MaxMark] /\ MaxMark \in Nat
  BY LimitAssumption DEF TypeOK
<1>2. Max({marked[s], tag}) \in 0 .. MaxMark
  <2>1. marked[s] \in Int /\ tag \in Int /\ marked[s] \in 0 .. MaxMark
    BY <1>1
  <2> QED BY <2>1, OfTwo
<1>3. marked' = [marked EXCEPT ![s] = Max({marked[s], tag})]
  BY DEF Marking
<1> QED BY <1>1, <1>2, <1>3

LEMMA TagsAre ==
  ASSUME TypeOK, NEW s \in Sources, NEW tag \in Tags(s)
  PROVE  tag \in 0 .. MaxMark
<1>1. marked[s] \in 0 .. MaxMark /\ MaxMark \in Nat
  BY LimitAssumption DEF TypeOK
<1> QED BY <1>1 DEF Tags

(* What the functions of the host leave in its slots. *)
LEMMA Requests ==
  ASSUME TypeOK
  PROVE  /\ host \in HostType /\ host.command = None
         /\ \A delay \in Delays :
              /\ [host EXCEPT !.command = delay] \in HostType
              /\ [host EXCEPT !.command = delay].command = delay
         /\ [host EXCEPT !.command = Stop] \in HostType
         /\ [host EXCEPT !.command = Stop].command = Stop
         /\ \A e \in Event :
              /\ [host EXCEPT !.events = Append(@, e)] \in HostType
              /\ [host EXCEPT !.events = Append(@, e)].command = None
         /\ [host EXCEPT !.exit = TRUE] \in HostType
         /\ [host EXCEPT !.exit = TRUE].command = None
         /\ [host EXCEPT !.dirty = TRUE] \in HostType
         /\ [host EXCEPT !.dirty = TRUE].command = None
<1>1. host \in IdleHost
  BY DEF TypeOK, IdleHost
<1>2. host \in HostType /\ host.command = None
  BY <1>1, HostIs, IdleHosts
<1>3. \A delay \in Delays :
              /\ [host EXCEPT !.command = delay] \in HostType
              /\ [host EXCEPT !.command = delay].command = delay
  BY <1>2 DEF HostType
<1>4. [host EXCEPT !.command = Stop] \in HostType
         /\ [host EXCEPT !.command = Stop].command = Stop
  BY <1>2 DEF HostType
<1>5. ASSUME NEW e \in Event
      PROVE  /\ [host EXCEPT !.events = Append(@, e)] \in HostType
             /\ [host EXCEPT !.events = Append(@, e)].command = None
  <2>1. host.events \in Seq(Event)
    BY <1>2 DEF HostType
  <2>2. Append(host.events, e) \in Seq(Event)
    BY <2>1, AppendProperties
  <2> QED BY <1>2, <2>2 DEF HostType
<1>6. [host EXCEPT !.exit = TRUE] \in HostType /\ [host EXCEPT !.exit = TRUE].command = None
  BY <1>2 DEF HostType
<1>7. [host EXCEPT !.dirty = TRUE] \in HostType /\ [host EXCEPT !.dirty = TRUE].command = None
  BY <1>2 DEF HostType
<1> QED BY <1>2, <1>3, <1>4, <1>5, <1>6, <1>7

(* A call of a host function. *)
LEMMA HostCallIs ==
  ASSUME TypeOK, HostCall
  PROVE  /\ ctl.at = "exec" /\ (StepDone \/ EndStage)
         /\ running' \in BOOLEAN /\ expired' = expired /\ seen' = seen
         /\ marked' \in [Sources -> 0 .. MaxMark]
         /\ host' \in IdleHost /\ rt' \in RtType
         /\ TimeStays \/ Armed \/ Stopped
         /\ \E dirty, ok \in BOOLEAN : Shows(dirty, ok) /\ Delivers(dirty, ok)
<1> DEFINE Calls(h) ==
      /\ ctl.at = "exec" /\ (StepDone \/ EndStage)
      /\ running' \in BOOLEAN /\ expired' = expired /\ seen' = seen
      /\ host' \in IdleHost /\ rt' \in RtType /\ rt'.lag = rt.lag
      /\ rt'.due = (IF h.command = None THEN rt.due
                    ELSE IF h.command = Stop THEN None ELSE h.command)
      /\ \E dirty, ok \in BOOLEAN : Shows(dirty, ok) /\ Delivers(dirty, ok)
<1>1. ASSUME NEW h \in HostType, HostReturns(h) PROVE Calls(h)
  <2>1. /\ ctl.at = "exec" /\ (StepDone \/ EndStage)
        /\ running' \in BOOLEAN /\ expired' = expired /\ seen' = seen
    BY <1>1, Zenon DEF HostReturns
  <2>2. h.dirty \in BOOLEAN
    BY DEF HostType
  <2> QED BY <1>1, <2>1, <2>2, HostReturnsIs
<1> HIDE DEF Calls
<1>2. marked \in [Sources -> 0 .. MaxMark]
  BY DEF TypeOK
<1>3. None \notin Delays /\ Stop \notin Delays /\ None # Stop
  BY LimitAssumption
<1>4. CASE TimerStart
  <2>1. PICK delay \in Delays :
          /\ HostReturns([host EXCEPT !.command = delay])
          /\ asked' = delay /\ waited' = rt.lag /\ fires' = 0
    BY <1>4, Zenon DEF TimerStart
  <2>2. Calls([host EXCEPT !.command = delay])
    BY <1>1, <2>1, Requests, Zenon
  <2>3. marked' = marked
    BY <1>4 DEF TimerStart
  <2>4. rt'.due = delay /\ rt'.lag = rt.lag
    <3>1. [host EXCEPT !.command = delay].command = delay
      BY Requests
    <3> QED BY <1>3, <2>2, <3>1 DEF Calls
  <2>5. Armed
    BY <2>1, <2>4 DEF Armed
  <2> QED BY <1>2, <2>2, <2>3, <2>5, Zenon DEF Calls
<1>5. CASE TimerStop
  <2>1. /\ HostReturns([host EXCEPT !.command = Stop])
        /\ asked' = Stop /\ waited' = 0 /\ fires' = 0 /\ marked' = marked
    BY <1>5, Zenon DEF TimerStop
  <2>2. Calls([host EXCEPT !.command = Stop])
    BY <1>1, <2>1, Requests, Zenon
  <2>3. rt'.due = None /\ rt'.lag = rt.lag
    <3>1. [host EXCEPT !.command = Stop].command = Stop
      BY Requests
    <3> QED BY <1>3, <2>2, <3>1 DEF Calls
  <2>4. Stopped
    BY <2>1, <2>3 DEF Stopped
  <2> QED BY <1>2, <2>1, <2>2, <2>4, Zenon DEF Calls
<1>6. ASSUME NEW h \in HostType, h.command = None, HostReturns(h), UNCHANGED clock,
             marked' \in [Sources -> 0 .. MaxMark]
      PROVE  /\ Calls(h) /\ TimeStays /\ marked' \in [Sources -> 0 .. MaxMark]
  <2>1. Calls(h)
    BY <1>1, <1>6
  <2>2. rt'.due = rt.due /\ rt'.lag = rt.lag
    BY <1>6, <2>1 DEF Calls
  <2> QED BY <1>6, <2>1, <2>2 DEF TimeStays
<1>7. CASE SendAppEvent
  <2>1. PICK tag \in Tags("app") :
          /\ HostReturns([host EXCEPT !.events = Append(@, [src |-> "app", tag |-> tag])])
          /\ Marking("app", tag)
    BY <1>7, Zenon DEF SendAppEvent
  <2>2. UNCHANGED clock
    BY <1>7 DEF SendAppEvent
  <2>3. "app" \in Sources
    BY DEF Sources
  <2>4. tag \in 0 .. MaxMark
    BY <2>3, TagsAre
  <2>5. [src |-> "app", tag |-> tag] \in Event
    BY <2>3, <2>4 DEF Event
  <2>6. marked' \in [Sources -> 0 .. MaxMark]
    BY <2>1, <2>3, <2>4, MarkingIs
  <2>7. /\ [host EXCEPT !.events = Append(@, [src |-> "app", tag |-> tag])] \in HostType
        /\ [host EXCEPT !.events = Append(@, [src |-> "app", tag |-> tag])].command = None
    BY <2>5, Requests, Zenon
  <2>8. /\ Calls([host EXCEPT !.events = Append(@, [src |-> "app", tag |-> tag])])
        /\ TimeStays
    BY <1>6, <2>1, <2>2, <2>6, <2>7, Zenon
  <2> QED BY <2>6, <2>8, Zenon DEF Calls
<1>8. CASE Exit
  <2>1. HostReturns([host EXCEPT !.exit = TRUE]) /\ UNCHANGED clock /\ marked' = marked
    BY <1>8, Zenon DEF Exit
  <2>2. Calls([host EXCEPT !.exit = TRUE]) /\ TimeStays
    BY <1>2, <1>6, <2>1, Requests, Zenon
  <2> QED BY <1>2, <2>1, <2>2, Zenon DEF Calls
<1>9. CASE Draw
  <2>1. HostReturns([host EXCEPT !.dirty = TRUE]) /\ UNCHANGED clock /\ marked' = marked
    BY <1>9, Zenon DEF Draw
  <2>2. Calls([host EXCEPT !.dirty = TRUE]) /\ TimeStays
    BY <1>2, <1>6, <2>1, Requests, Zenon
  <2> QED BY <1>2, <2>1, <2>2, Zenon DEF Calls
<1>10. CASE OtherCall
  <2>1. HostReturns(host) /\ UNCHANGED clock /\ marked' = marked
    BY <1>10, Zenon DEF OtherCall
  <2>2. Calls(host) /\ TimeStays
    BY <1>2, <1>6, <2>1, Requests, Zenon
  <2> QED BY <1>2, <2>1, <2>2, Zenon DEF Calls
<1> QED BY <1>4, <1>5, <1>7, <1>8, <1>9, <1>10 DEF HostCall

-----------------------------------------------------------------------------
(* Where a step takes the runner.                                          *)

Idles == ctl' = [ctl EXCEPT !.at = "idle", !.idle = Min({@ + 1, StepLimit})]
CtlMove ==
  \/ ctl' = ctl
  \/ ctl.at \in {"head", "exec"} /\ EndStage
  \/ ctl.at = "head" /\ ctl.left > 0 /\ ctl' = [ctl EXCEPT !.at = "exec"]
  \/ ctl.at = "exec" /\ StepDone
  \/ /\ ctl.at = "boot" /\ ctl.boots > 0
     /\ ctl' = [ctl EXCEPT !.at = "head", !.left = StepLimit, !.boots = @ - 1]
  \/ ctl.at = "boot" /\ ctl' = [ctl EXCEPT !.at = "top", !.back = "pop"]
  \/ ctl.at = "boot" /\ ctl' = [ctl EXCEPT !.at = "undriven"]
  \/ /\ ctl.at = "top"
     /\ \E a \in {"failed", "done", "pop"} : ctl' = [ctl EXCEPT !.busy = FALSE, !.at = a]
  \/ ctl.at = "pop" /\ ctl' = [ctl EXCEPT !.at = "head", !.left = StepLimit, !.busy = TRUE]
  \/ ctl.at = "pop" /\ AfterEvents
  \/ ctl.at = "pop" /\ Idles
  \/ ctl.at = "pop" /\ ctl' = [ctl EXCEPT !.at = "done"]
  \/ ctl.at = "idle" /\ ctl' = [ctl EXCEPT !.at = "top"]

LEMMA CtlMoves ==
  ASSUME TypeOK, [Next]_vars
  PROVE  CtlMove
<1>1. CASE BudgetExhausted
  BY <1>1, Zenon DEF BudgetExhausted, CtlMove
<1>2. CASE StepHead
  <2>1. ctl.at = "head" /\ ctl.left > 0 /\ (ctl' = [ctl EXCEPT !.at = "exec"] \/ EndStage)
    BY <1>2, Zenon DEF StepHead
  <2> QED BY <2>1, Zenon DEF CtlMove
<1>3. CASE HostCall
  BY <1>3, HostCallIs, Zenon DEF CtlMove
<1>4. CASE GuestStep
  BY <1>4, Zenon DEF GuestStep, CtlMove
<1>5. CASE Fault
  BY <1>5, Zenon DEF Fault, CtlMove
<1>6. CASE NextStage
  BY <1>6, Zenon DEF NextStage, CtlMove
<1>7. CASE EnterDrive
  BY <1>7, Zenon DEF EnterDrive, CtlMove
<1>8. CASE ReturnUndriven
  BY <1>8, Zenon DEF ReturnUndriven, CtlMove
<1>9. CASE Top
  <2>1. ctl.at = "top"
    BY <1>9 DEF Top
  <2>2. \E a \in {"failed", "done", "pop"} : ctl' = [ctl EXCEPT !.busy = FALSE, !.at = a]
    <3>1. \/ ctl' = [ctl EXCEPT !.busy = FALSE, !.at = IF expired THEN "done" ELSE "pop"]
          \/ ctl' = [ctl EXCEPT !.busy = FALSE, !.at = "failed"]
      BY <1>9, TopIs, Zenon
    <3>2. PICK a : a = IF expired THEN "done" ELSE "pop"
      OBVIOUS
    <3>3. a \in {"failed", "done", "pop"} /\ "failed" \in {"failed", "done", "pop"}
      BY <3>2
    <3> QED BY <3>1, <3>2, <3>3, Zenon
  <2> QED BY <2>1, <2>2, Zenon DEF CtlMove
<1>10. CASE Dispatch
  BY <1>10, Zenon DEF Dispatch, CtlMove
<1>11. CASE Repoll
  BY <1>11, Zenon DEF Repoll, CtlMove
<1>12. CASE Wait
  BY <1>12, Zenon DEF Wait, Sleeps, Idles, CtlMove
<1>13. CASE GiveUp
  BY <1>13, Zenon DEF GiveUp, CtlMove
<1>14. CASE Wake
  BY <1>14, Zenon DEF Wake, CtlMove
<1>15. CASE World \/ Over \/ UNCHANGED vars
  BY <1>15, Zenon DEF World, UserInput, UserCloses, Tick, LimitPasses, Over, vars, CtlMove
<1> QED BY <1>1, <1>2, <1>3, <1>4, <1>5, <1>6, <1>7, <1>8, <1>9, <1>10, <1>11, <1>12,
           <1>13, <1>14, <1>15 DEF Next, Runner, RunLoop, RunMrp, Drive

LEMMA PlacesStep ==
  ASSUME ctl \in CtlType, PlacesAgree, CtlMove
  PROVE  ctl' \in CtlType /\ PlacesAgree'
<1>1. /\ ctl.at \in Places /\ ctl.back \in {"boot", "pop"} /\ ctl.left \in 0 .. StepLimit
      /\ ctl.boots \in 0 .. BootStages /\ ctl.idle \in 0 .. StepLimit /\ ctl.busy \in BOOLEAN
  BY DEF CtlType
<1>2. StepLimit \in Nat /\ BootStages \in Nat
  BY LimitAssumption
<1>3. CASE ctl' = ctl
  BY <1>3 DEF PlacesAgree
<1>4. CASE ctl.at \in {"head", "exec"} /\ EndStage
  <2>1. ctl.back \in Places
    BY <1>1 DEF Places
  <2>2. ctl' \in CtlType /\ ctl'.at = ctl.back /\ ctl'.back = ctl.back /\ ctl'.left = 0
        /\ ctl'.idle = ctl.idle /\ ctl'.busy = ctl.busy
    <3>1. PICK b \in Places : b = ctl.back
      BY <2>1
    <3>2. 0 \in 0 .. StepLimit
      BY <1>2
    <3>3. ctl' = [ctl EXCEPT !.at = b, !.left = 0]
      BY <1>4, <3>1, Zenon DEF EndStage
    <3>4. ctl' \in CtlType /\ ctl'.at = b /\ ctl'.back = ctl.back /\ ctl'.left = 0
          /\ ctl'.idle = ctl.idle /\ ctl'.busy = ctl.busy
      BY <3>2, <3>3 DEF CtlType
    <3> QED BY <3>1, <3>4
  <2> QED BY <1>1, <1>4, <2>2 DEF PlacesAgree
<1>5. CASE ctl.at = "head" /\ ctl.left > 0 /\ ctl' = [ctl EXCEPT !.at = "exec"]
  <2>1. ctl' \in CtlType /\ ctl'.at = "exec" /\ ctl'.back = ctl.back /\ ctl'.left = ctl.left
        /\ ctl'.idle = ctl.idle /\ ctl'.busy = ctl.busy
    BY <1>1, <1>5 DEF CtlType, Places
  <2> QED BY <1>1, <1>5, <2>1 DEF PlacesAgree
<1>6. CASE ctl.at = "exec" /\ StepDone
  <2>1. ctl.left - 1 \in 0 .. StepLimit
    BY <1>1, <1>2, <1>6 DEF PlacesAgree
  <2>2. ctl' \in CtlType /\ ctl'.at = "head" /\ ctl'.back = ctl.back
        /\ ctl'.idle = ctl.idle /\ ctl'.busy = ctl.busy
    BY <1>1, <1>6, <2>1 DEF StepDone, CtlType, Places
  <2> QED BY <1>1, <1>6, <2>2 DEF PlacesAgree
<1>7. CASE /\ ctl.at = "boot" /\ ctl.boots > 0
           /\ ctl' = [ctl EXCEPT !.at = "head", !.left = StepLimit, !.boots = @ - 1]
  <2>1. ctl.boots - 1 \in 0 .. BootStages /\ StepLimit \in 0 .. StepLimit
    BY <1>1, <1>2, <1>7
  <2>2. ctl' \in CtlType /\ ctl'.at = "head" /\ ctl'.back = ctl.back
        /\ ctl'.idle = ctl.idle /\ ctl'.busy = ctl.busy
    BY <1>1, <1>7, <2>1 DEF CtlType, Places
  <2> QED BY <1>1, <1>7, <2>2 DEF PlacesAgree
<1>8. CASE ctl.at = "boot" /\ ctl' = [ctl EXCEPT !.at = "top", !.back = "pop"]
  <2>1. ctl' \in CtlType /\ ctl'.at = "top" /\ ctl'.back = "pop"
    BY <1>1, <1>8 DEF CtlType, Places
  <2> QED BY <2>1 DEF PlacesAgree
<1>9. CASE ctl.at = "boot" /\ ctl' = [ctl EXCEPT !.at = "undriven"]
  <2>1. ctl' \in CtlType /\ ctl'.at = "undriven" /\ ctl'.back = ctl.back /\ ctl'.idle = ctl.idle
    BY <1>1, <1>9 DEF CtlType, Places
  <2> QED BY <1>9, <2>1 DEF PlacesAgree
<1>10. CASE /\ ctl.at = "top"
            /\ \E a \in {"failed", "done", "pop"} : ctl' = [ctl EXCEPT !.busy = FALSE, !.at = a]
  <2>1. PICK a \in {"failed", "done", "pop"} : ctl' = [ctl EXCEPT !.busy = FALSE, !.at = a]
    BY <1>10
  <2>2. ctl' \in CtlType /\ ctl'.at = a /\ ctl'.back = ctl.back
    BY <1>1, <2>1 DEF CtlType, Places
  <2>3. ctl.back = "pop"
    BY <1>1, <1>10 DEF PlacesAgree
  <2> QED BY <2>2, <2>3 DEF PlacesAgree
<1>11. CASE ctl.at = "pop" /\ ctl' = [ctl EXCEPT !.at = "head", !.left = StepLimit, !.busy = TRUE]
  <2>1. StepLimit \in 0 .. StepLimit
    BY <1>2
  <2>2. ctl' \in CtlType /\ ctl'.at = "head" /\ ctl'.back = ctl.back /\ ctl'.busy = TRUE
    BY <1>1, <1>11, <2>1 DEF CtlType, Places
  <2>3. ctl.back = "pop"
    BY <1>1, <1>11 DEF PlacesAgree
  <2> QED BY <2>2, <2>3 DEF PlacesAgree
<1>12. CASE ctl.at = "pop" /\ AfterEvents
  <2>1. 0 \in 0 .. StepLimit
    BY <1>2
  <2>2. ctl' \in CtlType /\ ctl'.at = "top" /\ ctl'.back = ctl.back
    BY <1>1, <1>12, <2>1 DEF AfterEvents, CtlType, Places
  <2>3. ctl.back = "pop"
    BY <1>1, <1>12 DEF PlacesAgree
  <2> QED BY <2>2, <2>3 DEF PlacesAgree
<1>13. CASE ctl.at = "pop" /\ Idles
  <2>1. Min({ctl.idle + 1, StepLimit}) \in 0 .. StepLimit
    <3>1. ctl.idle + 1 \in Int /\ StepLimit \in Int /\ ctl.idle + 1 >= 0
      BY <1>1, <1>2
    <3>2. Min({ctl.idle + 1, StepLimit})
            = IF ctl.idle + 1 <= StepLimit THEN ctl.idle + 1 ELSE StepLimit
      BY <3>1, OfTwo
    <3> QED BY <1>2, <3>1, <3>2
  <2>2. ctl' \in CtlType /\ ctl'.at = "idle" /\ ctl'.back = ctl.back
    BY <1>1, <1>13, <2>1 DEF Idles, CtlType, Places
  <2>3. ctl.back = "pop"
    BY <1>1, <1>13 DEF PlacesAgree
  <2> QED BY <2>2, <2>3 DEF PlacesAgree
<1>14. CASE ctl.at = "pop" /\ ctl' = [ctl EXCEPT !.at = "done"]
  <2>1. ctl' \in CtlType /\ ctl'.at = "done" /\ ctl'.back = ctl.back
    BY <1>1, <1>14 DEF CtlType, Places
  <2>2. ctl.back = "pop"
    BY <1>1, <1>14 DEF PlacesAgree
  <2> QED BY <2>1, <2>2 DEF PlacesAgree
<1>15. CASE ctl.at = "idle" /\ ctl' = [ctl EXCEPT !.at = "top"]
  <2>1. ctl' \in CtlType /\ ctl'.at = "top" /\ ctl'.back = ctl.back
    BY <1>1, <1>15 DEF CtlType, Places
  <2>2. ctl.back = "pop"
    BY <1>1, <1>15 DEF PlacesAgree
  <2> QED BY <2>1, <2>2 DEF PlacesAgree
<1> QED BY <1>3, <1>4, <1>5, <1>6, <1>7, <1>8, <1>9, <1>10, <1>11, <1>12, <1>13, <1>14,
           <1>15, Zenon DEF CtlMove

-----------------------------------------------------------------------------
(* The timer and its history.                                              *)

Ticks == /\ rt'.due = rt.due /\ rt'.lag = Min({rt.lag + 1, Horizon})
         /\ waited' = (IF rt.due = None THEN waited ELSE Min({waited + 1, Horizon}))
         /\ UNCHANGED <<asked, fires>>
TimeMove == \/ TimeStays \/ Armed \/ Stopped \/ Ticks
            \/ \E r \in RtType : Looks(r)

ClockType == /\ asked \in Delays \cup {None, Stop}
             /\ waited \in 0 .. Horizon /\ fires \in 0 .. 2

(* A deadline that a look at the clock has passed is one event more, and   *)
(* what was asked for has passed by then.                                  *)
LEMMA LookIs ==
  ASSUME TypeOK, NEW r \in RtType, Looks(r)
  PROVE  /\ asked' = asked
         /\ rt'.lag = 0
         /\ rt'.due = (IF rt.due = None \/ rt.due <= rt.lag THEN None ELSE rt.due - rt.lag)
         /\ fires' = (IF rt.due # None /\ rt.due <= rt.lag
                      THEN IF fires + 1 <= 2 THEN fires + 1 ELSE 2 ELSE fires)
         /\ waited' = (IF rt.due # None /\ rt.due <= rt.lag THEN 0 ELSE waited)
<1>1. r.due = rt.due /\ r.lag = rt.lag /\ rt' = Polled(r) /\ CountFires(r)
  BY DEF Looks
<1>2. /\ rt'.lag = 0
      /\ rt'.due = (IF rt.due = None \/ rt.due <= rt.lag THEN None ELSE rt.due - rt.lag)
      /\ Fires(r) <=> rt.due # None /\ rt.due <= rt.lag
  BY <1>1, PolledIs
<1>3. Min({fires + 1, 2}) = IF fires + 1 <= 2 THEN fires + 1 ELSE 2
  <2>1. fires + 1 \in Int /\ 2 \in Int
    BY DEF TypeOK
  <2> QED BY <2>1, OfTwo
<1>4. /\ fires'  = (IF Fires(r) THEN Min({fires + 1, 2}) ELSE fires)
      /\ waited' = (IF Fires(r) THEN 0 ELSE waited)
      /\ asked' = asked
  BY <1>1 DEF CountFires
<1> QED BY <1>2, <1>3, <1>4

(* What time does to the numbers. *)
LEMMA TickIs ==
  ASSUME TypeOK, Ticks
  PROVE  /\ rt'.due = rt.due /\ asked' = asked /\ fires' = fires
         /\ rt'.lag = (IF rt.lag + 1 <= Horizon THEN rt.lag + 1 ELSE Horizon)
         /\ waited' = (IF rt.due = None THEN waited
                       ELSE IF waited + 1 <= Horizon THEN waited + 1 ELSE Horizon)
<1>1. rt.lag + 1 \in Int /\ waited + 1 \in Int /\ Horizon \in Int
  <2>1. rt.lag \in 0 .. Horizon /\ waited \in 0 .. Horizon
    BY DEF TypeOK
  <2> QED BY <2>1, HorizonBounds
<1>2. Min({rt.lag + 1, Horizon}) = IF rt.lag + 1 <= Horizon THEN rt.lag + 1 ELSE Horizon
  BY <1>1, OfTwo
<1>3. Min({waited + 1, Horizon}) = IF waited + 1 <= Horizon THEN waited + 1 ELSE Horizon
  BY <1>1, OfTwo
<1> QED BY <1>2, <1>3 DEF Ticks

(* The numbers that the timer's invariants relate. *)
LEMMA TimeTypes ==
  ASSUME TypeOK
  PROVE  /\ rt.due \in Nat \cup {None} /\ (rt.due # None => rt.due \in 0 .. Horizon)
         /\ rt.lag \in 0 .. Horizon /\ Horizon \in Nat
         /\ waited \in 0 .. Horizon /\ fires \in 0 .. 2
         /\ asked \in Delays \cup {None, Stop}
         /\ \A d \in Delays : d \in 0 .. Horizon
         /\ None \notin Nat /\ Stop \notin Nat
<1>1. Horizon \in Nat /\ \A d \in Delays : d \in 0 .. Horizon
  BY HorizonBounds
<1>2. rt.due \in 0 .. Horizon \cup {None} /\ rt.lag \in 0 .. Horizon
  BY DEF TypeOK
<1> QED BY <1>1, <1>2, NoneApart DEF TypeOK

LEMMA ClockStep ==
  ASSUME TypeOK, TimeMove
  PROVE  ClockType'
<1>1. CASE TimeStays
  BY <1>1 DEF TimeStays, clock, ClockType, TypeOK
<1>2. CASE Armed
  BY <1>2, TimeTypes DEF Armed, ClockType
<1>3. CASE Stopped
  BY <1>3, TimeTypes DEF Stopped, ClockType
<1>4. CASE Ticks
  BY <1>4, TimeTypes, TickIs DEF ClockType
<1>5. CASE \E r \in RtType : Looks(r)
  <2>1. PICK r \in RtType : Looks(r)
    BY <1>5
  <2> QED BY <2>1, TimeTypes, LookIs DEF ClockType
<1> QED BY <1>1, <1>2, <1>3, <1>4, <1>5 DEF TimeMove

LEMMA TimeStep ==
  ASSUME TypeOK, TimerAsCommanded, TimeAddsUp, TimeMove
  PROVE  TimerAsCommanded' /\ TimeAddsUp'
<1>1. /\ asked \notin Nat => rt.due = None
      /\ rt.due # None => rt.due <= asked /\ fires = 0
      /\ asked \in Nat /\ rt.due = None => fires = 1
  BY DEF TimerAsCommanded
<1>2. rt.due # None => rt.lag <= waited /\ (asked + rt.lag <= rt.due + waited \/ waited = Horizon)
  BY DEF TimeAddsUp
<1>3. rt.due # None => asked \in Nat
  BY <1>1, TimeTypes
<1>4. CASE TimeStays
  <2>1. rt'.due = rt.due /\ rt'.lag = rt.lag /\ asked' = asked /\ waited' = waited /\ fires' = fires
    BY <1>4 DEF TimeStays, clock
  <2> QED BY <1>1, <1>2, <2>1 DEF TimerAsCommanded, TimeAddsUp
<1>5. CASE Armed
  <2>1. PICK delay \in Delays : /\ rt'.due = delay /\ rt'.lag = rt.lag
                                /\ asked' = delay /\ waited' = rt.lag /\ fires' = 0
    BY <1>5 DEF Armed
  <2>2. delay \in Nat /\ delay # None /\ rt.lag \in Nat
    BY TimeTypes
  <2> QED BY <2>1, <2>2 DEF TimerAsCommanded, TimeAddsUp
<1>6. CASE Stopped
  <2>1. rt'.due = None /\ asked' = Stop /\ Stop \notin Nat
    BY <1>6, TimeTypes DEF Stopped
  <2> QED BY <2>1 DEF TimerAsCommanded, TimeAddsUp
<1>7. CASE Ticks
  <2>1. /\ rt'.due = rt.due /\ asked' = asked /\ fires' = fires
        /\ rt'.lag = (IF rt.lag + 1 <= Horizon THEN rt.lag + 1 ELSE Horizon)
        /\ waited' = (IF rt.due = None THEN waited
                      ELSE IF waited + 1 <= Horizon THEN waited + 1 ELSE Horizon)
    BY <1>7, TickIs
  <2>2. TimerAsCommanded'
    BY <1>1, <2>1 DEF TimerAsCommanded
  <2>3. rt.due # None =>
          /\ rt'.lag <= waited'
          /\ asked + rt'.lag <= rt.due + waited' \/ waited' = Horizon
    BY <1>2, <1>3, <2>1, TimeTypes
  <2> QED BY <2>1, <2>2, <2>3 DEF TimeAddsUp
<1>8. CASE \E r \in RtType : Looks(r)
  <2>1. PICK r \in RtType : Looks(r)
    BY <1>8
  <2>2. /\ asked' = asked
         /\ rt'.lag = 0
         /\ rt'.due = (IF rt.due = None \/ rt.due <= rt.lag THEN None ELSE rt.due - rt.lag)
         /\ fires' = (IF rt.due # None /\ rt.due <= rt.lag
                      THEN IF fires + 1 <= 2 THEN fires + 1 ELSE 2 ELSE fires)
         /\ waited' = (IF rt.due # None /\ rt.due <= rt.lag THEN 0 ELSE waited)
    BY <2>1, LookIs
  <2>3. CASE rt.due = None
    BY <1>1, <2>2, <2>3 DEF TimerAsCommanded, TimeAddsUp
  <2>4. CASE rt.due # None /\ rt.due <= rt.lag
    BY <1>1, <2>2, <2>4 DEF TimerAsCommanded, TimeAddsUp
  <2>5. CASE rt.due # None /\ ~ (rt.due <= rt.lag)
    <3>1. /\ rt'.due = rt.due - rt.lag /\ rt'.lag = 0 /\ waited' = waited /\ fires' = fires
          /\ asked' = asked
      BY <2>2, <2>5
    <3>2. /\ asked \in Nat /\ rt.due \in Nat /\ rt.lag \in Nat /\ waited \in Nat
      BY <1>3, <2>5, TimeTypes
    <3>3. rt'.due <= asked' /\ fires' = 0
      BY <1>1, <2>5, <3>1, <3>2
    <3>4. rt'.lag <= waited' /\ (asked' + rt'.lag <= rt'.due + waited' \/ waited' = Horizon)
      BY <1>2, <2>5, <3>1, <3>2
    <3>5. rt'.due # None
      BY <2>5, <3>1, <3>2, TimeTypes
    <3>6. Horizon' = Horizon
      OBVIOUS
    <3> QED BY <3>1, <3>2, <3>3, <3>4, <3>5 DEF TimerAsCommanded, TimeAddsUp
  <2> QED BY <2>3, <2>4, <2>5
<1> QED BY <1>4, <1>5, <1>6, <1>7, <1>8 DEF TimeMove

(* A poll that queues the timer's event comes late enough.                 *)
LEMMA LateEnough ==
  ASSUME TypeOK, TimerAsCommanded, TimeAddsUp, TimeMove, fires' > fires
  PROVE  waited >= asked
<1>1. PICK r \in RtType : Looks(r)
  <2>1. ~ TimeStays
    BY TimeTypes DEF TimeStays, clock
  <2>2. ~ Armed
    BY TimeTypes DEF Armed
  <2>3. ~ Stopped
    BY TimeTypes DEF Stopped
  <2>4. ~ Ticks
    BY TimeTypes DEF Ticks
  <2> QED BY <2>1, <2>2, <2>3, <2>4 DEF TimeMove
<1>2. fires' = (IF rt.due # None /\ rt.due <= rt.lag
                THEN IF fires + 1 <= 2 THEN fires + 1 ELSE 2 ELSE fires)
  BY <1>1, LookIs
<1>3. rt.due # None /\ rt.due <= rt.lag
  BY <1>2, TimeTypes
<1>4. asked \in Delays
  BY <1>3, TimeTypes DEF TimerAsCommanded
<1>5. asked + rt.lag <= rt.due + waited \/ waited = Horizon
  BY <1>3 DEF TimeAddsUp
<1>6. /\ asked \in 0 .. Horizon /\ rt.due \in Nat /\ rt.lag \in Nat /\ waited \in Nat
      /\ Horizon \in Nat
  BY <1>3, <1>4, TimeTypes
<1> QED BY <1>3, <1>5, <1>6

(* The values of the runtime, the host and the window. *)
LEMMA Values ==
  ASSUME TypeOK
  PROVE  /\ rt \in RtType /\ win \in WinType /\ host \in IdleHost /\ ctl \in CtlType
         /\ rt.due \in Due /\ rt.lag \in 0 .. Horizon /\ rt.queue \in Seq(Event)
         /\ host.dirty \in BOOLEAN
BY DEF TypeOK, RtType, WinType, IdleHost, CtlType, Due

(* The first of several events goes; the others stay. *)
LEMMA DispatchIs ==
  ASSUME TypeOK, Dispatch
  PROVE  /\ rt' \in RtType /\ rt'.due = rt.due /\ rt'.lag = rt.lag
         /\ rt'.queue = Tail(rt.queue)
         /\ seen' \in [Sources -> Seq(1 .. MaxMark)]
         /\ QuitIn(rt.queue) \/ seen["quit"] # << >> => QuitIn(rt'.queue) \/ seen'["quit"] # << >>
<1>1. rt \in RtType /\ rt.queue \in Seq(Event) /\ rt.queue # << >>
  BY Values DEF Dispatch
<1> DEFINE q == Tail(rt.queue)
           e == Head(rt.queue)
<1>2. /\ q \in Seq(Event) /\ Len(q) = Len(rt.queue) - 1 /\ e \in Event /\ e = rt.queue[1]
      /\ \A i \in 1 .. Len(q) : q[i] = rt.queue[i + 1]
      /\ Len(rt.queue) \in Nat \ {0}
  BY <1>1, HeadTailProperties, LenProperties, EmptySeq
<1>3. rt' = [rt EXCEPT !.queue = q]
  BY DEF Dispatch
<1>4. seen' = IF e.tag = 0 THEN seen ELSE [seen EXCEPT ![e.src] = Append(@, e.tag)]
  BY DEF Dispatch
<1> HIDE DEF q, e
<1>5. rt' \in RtType /\ rt'.due = rt.due /\ rt'.lag = rt.lag /\ rt'.queue = q
  BY <1>1, <1>2, <1>3 DEF RtType
<1>6. seen \in [Sources -> Seq(1 .. MaxMark)]
  BY DEF TypeOK
<1>7. e.tag \in 0 .. MaxMark /\ e.src \in Sources \cup {"timer"} /\ MaxMark \in Nat
  BY <1>2, LimitAssumption DEF Event
<1>8. CASE e.tag = 0 \/ e.src = "timer"
  <2>1. seen' = seen
    BY <1>4, <1>6, <1>8 DEF Sources
  <2>2. e.src # "quit" \/ e.tag # 1
    BY <1>8
  <2>3. QuitIn(rt.queue) => QuitIn(q)
    <3> SUFFICES ASSUME QuitIn(rt.queue) PROVE QuitIn(q)
      OBVIOUS
    <3>1. PICK i \in 1 .. Len(rt.queue) : rt.queue[i].src = "quit" /\ rt.queue[i].tag = 1
      BY DEF QuitIn
    <3>2. i # 1
      BY <1>2, <2>2, <3>1
    <3>3. i - 1 \in 1 .. Len(q) /\ q[i - 1] = rt.queue[i]
      BY <1>2, <3>2
    <3> QED BY <3>1, <3>3 DEF QuitIn
  <2> QED BY <1>5, <1>6, <2>1, <2>3 DEF q
<1>9. CASE e.tag # 0 /\ e.src # "timer"
  <2>1. e.src \in Sources /\ e.tag \in 1 .. MaxMark
    BY <1>7, <1>9
  <2>2. PICK t : t = Append(seen[e.src], e.tag)
    OBVIOUS
  <2>3. seen[e.src] \in Seq(1 .. MaxMark)
    BY <1>6, <2>1
  <2>4. t \in Seq(1 .. MaxMark) /\ t # << >>
    BY <2>1, <2>2, <2>3, AppendProperties, ZenonT(60)
  <2>5. seen' = [seen EXCEPT ![e.src] = t]
    BY <1>4, <1>9, <2>2
  <2>6. seen' \in [Sources -> Seq(1 .. MaxMark)]
    BY <1>6, <2>1, <2>4, <2>5
  <2>7. seen'["quit"] = IF e.src = "quit" THEN t ELSE seen["quit"]
    BY <1>6, <2>1, <2>5 DEF Sources
  <2>8. CASE e.src = "quit"
    BY <1>5, <2>4, <2>6, <2>7, <2>8 DEF q
  <2>9. CASE e.src # "quit"
    <3>1. QuitIn(rt.queue) => QuitIn(q)
      <4> SUFFICES ASSUME QuitIn(rt.queue) PROVE QuitIn(q)
        OBVIOUS
      <4>1. PICK i \in 1 .. Len(rt.queue) : rt.queue[i].src = "quit" /\ rt.queue[i].tag = 1
        BY DEF QuitIn
      <4>2. i # 1
        BY <1>2, <2>9, <4>1
      <4>3. i - 1 \in 1 .. Len(q) /\ q[i - 1] = rt.queue[i]
        BY <1>2, <4>2
      <4> QED BY <4>1, <4>3 DEF QuitIn
    <3> QED BY <1>5, <2>6, <2>7, <2>9, <3>1 DEF q
  <2> QED BY <2>8, <2>9
<1> QED BY <1>8, <1>9

(* A message is added to those that wait for a pump. *)
LEMMA PostedIs ==
  ASSUME TypeOK, NEW e \in Event, Posted(e)
  PROVE  /\ win' \in WinType /\ win'.mode = win.mode /\ win'.pending = win.pending
         /\ \A i \in 1 .. Len(win'.inbox) : win'.inbox[i] = e
              \/ (i \in 1 .. Len(win.inbox) /\ win'.inbox[i] = win.inbox[i])
<1>1. win \in WinType /\ win.inbox \in Seq(Event)
  BY Values DEF WinType
<1>2. PICK q : q = Append(win.inbox, e)
  OBVIOUS
<1>3. /\ q \in Seq(Event) /\ Len(q) = Len(win.inbox) + 1 /\ Len(win.inbox) \in Nat
      /\ \A i \in 1 .. Len(win.inbox) : q[i] = win.inbox[i]
      /\ q[Len(win.inbox) + 1] = e
  BY <1>1, <1>2, AppendProperties, LenProperties
<1>4. win' = [win EXCEPT !.inbox = q]
  BY <1>2 DEF Posted
<1>5. win' \in WinType /\ win'.mode = win.mode /\ win'.pending = win.pending /\ win'.inbox = q
  BY <1>1, <1>3, <1>4 DEF WinType
<1> QED BY <1>3, <1>5

(* What a step may do to the window and to the queue. *)
WinMove ==
  \/ /\ seen' = seen
     /\ \E dirty, ok \in BOOLEAN : Shows(dirty, ok) /\ Delivers(dirty, ok)
  \/ UNCHANGED <<win, seen>> /\ rt'.queue = rt.queue
  \/ Dispatch
  \/ /\ rt' = rt /\ seen' = seen
     /\ \E e \in Event : Posted(e) /\ (e.src = "quit" => e.tag = 1)

(* Every step, by what it does to the runtime and the window. *)
LEMMA Moves ==
  ASSUME TypeOK, [Next]_vars
  PROVE  rt' \in RtType /\ TimeMove /\ WinMove
<1>1. CASE StepHead
  <2>1. PICK ok \in BOOLEAN :
          /\ Shows(host.dirty, ok) /\ Delivers(host.dirty, ok)
          /\ (\E r \in RtType : Looks(r)) \/ (~ok /\ UNCHANGED <<rt, clock>>)
    BY <1>1, StepHeadIs
  <2>2. seen' = seen
    BY <1>1 DEF StepHead
  <2>3. CASE \E r \in RtType : Looks(r)
    <3>1. rt' \in RtType
      BY <2>3, PolledIs DEF Looks
    <3> QED BY <2>1, <2>2, <2>3, <3>1, Values DEF WinMove, TimeMove
  <2>4. CASE UNCHANGED <<rt, clock>>
    <3>1. rt' \in RtType /\ TimeStays
      BY <2>4, Values DEF TimeStays
    <3> QED BY <2>1, <2>2, <3>1, Values DEF WinMove, TimeMove
  <2> QED BY <2>1, <2>3, <2>4
<1>2. CASE HostCall
  BY <1>2, HostCallIs DEF WinMove, TimeMove
<1>3. CASE Top
  <2>1. PICK ok \in BOOLEAN :
          /\ Shows(host.dirty, ok) /\ Delivers(host.dirty, ok)
          /\ (\E r \in RtType : Looks(r)) \/ UNCHANGED <<rt, clock>>
    BY <1>3, TopIs
  <2>2. seen' = seen
    BY <1>3 DEF Top
  <2>3. CASE \E r \in RtType : Looks(r)
    <3>1. rt' \in RtType
      BY <2>3, PolledIs DEF Looks
    <3> QED BY <2>1, <2>2, <2>3, <3>1, Values DEF WinMove, TimeMove
  <2>4. CASE UNCHANGED <<rt, clock>>
    <3>1. rt' \in RtType /\ TimeStays
      BY <2>4, Values DEF TimeStays
    <3> QED BY <2>1, <2>2, <3>1, Values DEF WinMove, TimeMove
  <2> QED BY <2>1, <2>3, <2>4
<1>4. CASE Dispatch
  <2>1. UNCHANGED clock
    BY <1>4 DEF Dispatch
  <2>2. TimeStays
    BY <1>4, <2>1, DispatchIs DEF TimeStays
  <2> QED BY <1>4, <2>2, DispatchIs DEF WinMove, TimeMove
<1>5. CASE Wait
  <2>1. /\ rt' = UiQueued(rt, win, FALSE, TRUE) /\ win' = UiWin(win, FALSE, TRUE)
        /\ UNCHANGED clock /\ seen' = seen
    BY <1>5 DEF Wait
  <2> DEFINE s == Shown(win, FALSE)
  <2>2. /\ win' \in WinType /\ rt' \in RtType
        /\ rt'.due = rt.due /\ rt'.lag = rt.lag
        /\ win'.mode = s.mode /\ win'.inbox = s.inbox
        /\ win'.pending = << >>
        /\ rt'.queue = rt.queue \o s.pending
    BY <2>1, Values, UiIs
  <2>3. s \in WinType
    BY Values, ShownIs
  <2> HIDE DEF s
  <2>4. rt.queue \in Seq(Event) /\ s.pending \in Seq(Event)
    BY <2>3, Values DEF WinType
  <2>5. QuitIn(rt'.queue) <=> QuitIn(rt.queue) \/ QuitIn(s.pending)
    BY <2>2, <2>4, QuitInConcat
  <2>6. Shows(FALSE, TRUE) /\ Delivers(FALSE, TRUE)
    BY <2>2, <2>5 DEF Shows, Delivers, s
  <2>7. WinMove
    BY <2>1, <2>6 DEF WinMove
  <2>8. TimeStays
    BY <2>1, <2>2 DEF TimeStays
  <2> QED BY <2>2, <2>7, <2>8 DEF TimeMove
<1>6. CASE Tick
  <2>1. rt' = [rt EXCEPT !.lag = Min({rt.lag + 1, Horizon})]
        /\ waited' = (IF rt.due = None THEN waited ELSE Min({waited + 1, Horizon}))
        /\ UNCHANGED <<asked, fires, win, seen>>
    BY <1>6, Zenon DEF Tick
  <2>2. Min({rt.lag + 1, Horizon}) \in 0 .. Horizon
    <3>1. rt.lag + 1 \in Int /\ Horizon \in Int /\ rt.lag + 1 >= 0 /\ Horizon >= 0
      BY Values, HorizonBounds
    <3>2. Min({rt.lag + 1, Horizon}) = IF rt.lag + 1 <= Horizon THEN rt.lag + 1 ELSE Horizon
      BY <3>1, OfTwo
    <3> QED BY <3>1, <3>2
  <2>3. PICK l : l = Min({rt.lag + 1, Horizon})
    OBVIOUS
  <2>4. rt' = [rt EXCEPT !.lag = l] /\ l \in 0 .. Horizon
    BY <2>1, <2>2, <2>3
  <2>5. rt' \in RtType /\ rt'.due = rt.due /\ rt'.lag = l /\ rt'.queue = rt.queue
    BY <2>4, Values DEF RtType
  <2>6. Ticks
    BY <2>1, <2>3, <2>5 DEF Ticks
  <2> QED BY <2>1, <2>5, <2>6 DEF WinMove, TimeMove
<1>7. ASSUME rt' = rt, UNCHANGED clock, WinMove
      PROVE  rt' \in RtType /\ TimeMove /\ WinMove
  <2>1. TimeStays
    BY <1>7 DEF TimeStays
  <2> QED BY <1>7, <2>1, Values DEF TimeMove
<1>8. CASE UserInput
  <2>1. rt' = rt /\ UNCHANGED clock /\ seen' = seen
    BY <1>8 DEF UserInput
  <2>2. PICK tag \in Tags("key") : Posted([src |-> "key", tag |-> tag])
    BY <1>8, Zenon DEF UserInput
  <2>3. "key" \in Sources
    BY DEF Sources
  <2>4. [src |-> "key", tag |-> tag] \in Event /\ [src |-> "key", tag |-> tag].src # "quit"
    BY <2>3, TagsAre DEF Event
  <2>5. WinMove
    BY <2>1, <2>2, <2>4, Zenon DEF WinMove
  <2> QED BY <1>7, <2>1, <2>5
<1>9. CASE UserCloses
  <2>1. rt' = rt /\ UNCHANGED clock /\ seen' = seen
    BY <1>9 DEF UserCloses
  <2>2. Posted([src |-> "quit", tag |-> 1])
    BY <1>9, Zenon DEF UserCloses
  <2>3. "quit" \in Sources /\ 1 \in 0 .. MaxMark
    BY LimitAssumption DEF Sources
  <2>4. [src |-> "quit", tag |-> 1] \in Event /\ [src |-> "quit", tag |-> 1].tag = 1
    BY <2>3 DEF Event
  <2>5. WinMove
    BY <2>1, <2>2, <2>4, Zenon DEF WinMove
  <2> QED BY <1>7, <2>1, <2>5
<1>10. CASE \/ BudgetExhausted \/ GuestStep \/ Fault \/ RunMrp \/ Repoll \/ GiveUp \/ Wake
            \/ LimitPasses \/ Over \/ UNCHANGED vars
  <2>1. UNCHANGED <<rt, win, clock, seen>>
    BY <1>10, Zenon DEF BudgetExhausted, GuestStep, Fault, RunMrp, NextStage, EnterDrive,
          ReturnUndriven, Repoll, GiveUp, Wake, LimitPasses, Over, vars
  <2> QED BY <1>7, <2>1 DEF WinMove
<1> QED BY <1>1, <1>2, <1>3, <1>4, <1>5, <1>6, <1>8, <1>9, <1>10, Zenon
        DEF Next, Runner, RunLoop, Drive, World

(* The window and the tags that have been told keep their types. *)
LEMMA WinTypes ==
  ASSUME TypeOK, WinMove
  PROVE  win' \in WinType /\ seen' \in [Sources -> Seq(1 .. MaxMark)]
<1>1. seen \in [Sources -> Seq(1 .. MaxMark)] /\ win \in WinType
  BY Values DEF TypeOK
<1>2. CASE /\ seen' = seen
           /\ \E dirty, ok \in BOOLEAN : Shows(dirty, ok) /\ Delivers(dirty, ok)
  BY <1>1, <1>2 DEF Shows
<1>3. CASE UNCHANGED <<win, seen>>
  BY <1>1, <1>3
<1>4. CASE Dispatch
  <2>1. win' = win
    BY <1>4 DEF Dispatch
  <2> QED BY <1>1, <1>4, <2>1, DispatchIs
<1>5. CASE seen' = seen /\ \E e \in Event : Posted(e)
  BY <1>1, <1>5, PostedIs
<1> QED BY <1>2, <1>3, <1>4, <1>5 DEF WinMove

LEMMA HostTypes ==
  ASSUME TypeOK, [Next]_vars
  PROVE  /\ host' \in IdleHost /\ running' \in BOOLEAN /\ expired' \in BOOLEAN
         /\ marked' \in [Sources -> 0 .. MaxMark]
<1>1. /\ host \in IdleHost /\ running \in BOOLEAN /\ expired \in BOOLEAN
      /\ marked \in [Sources -> 0 .. MaxMark]
  BY Values DEF TypeOK
<1>2. CASE StepHead
  <2>1. UNCHANGED <<running, expired, marked>>
    BY <1>2 DEF StepHead
  <2> QED BY <1>1, <1>2, <2>1, StepHeadIs
<1>3. CASE HostCall
  BY <1>1, <1>3, HostCallIs
<1>4. CASE Top
  <2>1. UNCHANGED <<running, expired, marked>>
    BY <1>4 DEF Top
  <2> QED BY <1>1, <1>4, <2>1, TopIs
<1>5. CASE GuestStep \/ Dispatch \/ NextStage
  <2>1. UNCHANGED <<host, expired, marked>> /\ running' \in BOOLEAN
    BY <1>5 DEF GuestStep, Dispatch, NextStage, CallGuest
  <2> QED BY <1>1, <2>1
<1>6. CASE UserInput
  <2>1. PICK tag \in Tags("key") : Marking("key", tag)
    BY <1>6, Zenon DEF UserInput
  <2>2. "key" \in Sources
    BY DEF Sources
  <2>3. UNCHANGED <<host, running, expired>>
    BY <1>6 DEF UserInput
  <2>4. tag \in 0 .. MaxMark
    BY <2>2, TagsAre
  <2> QED BY <1>1, <2>1, <2>2, <2>3, <2>4, MarkingIs
<1>7. CASE UserCloses
  <2>1. Marking("quit", 1)
    BY <1>7 DEF UserCloses
  <2>2. "quit" \in Sources /\ 1 \in 0 .. MaxMark
    BY LimitAssumption DEF Sources
  <2>3. UNCHANGED <<host, running, expired>>
    BY <1>7 DEF UserCloses
  <2> QED BY <1>1, <2>1, <2>2, <2>3, MarkingIs
<1>8. CASE LimitPasses
  <2>1. UNCHANGED <<host, running, marked>> /\ expired' = TRUE
    BY <1>8 DEF LimitPasses
  <2> QED BY <1>1, <2>1
<1>9. CASE \/ BudgetExhausted \/ Fault \/ EnterDrive \/ ReturnUndriven \/ Repoll \/ Wait
           \/ GiveUp \/ Wake \/ Tick \/ Over \/ UNCHANGED vars
  <2>1. UNCHANGED <<host, running, expired, marked>>
    BY <1>9, Zenon DEF BudgetExhausted, Fault, EnterDrive, ReturnUndriven, Repoll, Wait,
          GiveUp, Wake, Tick, Over, vars
  <2> QED BY <1>1, <2>1
<1> QED BY <1>2, <1>3, <1>4, <1>5, <1>6, <1>7, <1>8, <1>9, Zenon
        DEF Next, Runner, RunLoop, RunMrp, Drive, World

LEMMA TypesStep ==
  ASSUME TypeOK, PlacesAgree, [Next]_vars
  PROVE  TypeOK' /\ PlacesAgree'
<1>1. rt' \in RtType /\ TimeMove /\ WinMove
  BY Moves
<1>2. ctl' \in CtlType /\ PlacesAgree'
  BY CtlMoves, PlacesStep, Values
<1>3. ClockType'
  BY <1>1, ClockStep
<1>4. win' \in WinType /\ seen' \in [Sources -> Seq(1 .. MaxMark)]
  BY <1>1, WinTypes
<1>5. /\ host' \in IdleHost /\ running' \in BOOLEAN /\ expired' \in BOOLEAN
      /\ marked' \in [Sources -> 0 .. MaxMark]
  BY HostTypes
<1> QED BY <1>1, <1>2, <1>3, <1>4, <1>5
        DEF TypeOK, RtType, Due, CtlType, ClockType, WinType, IdleHost

(* The closing of a window is told. *)
LEMMA QuitStep ==
  ASSUME TypeOK, QuitTold, WinMove
  PROVE  QuitTold'
<1>1. /\ \A i \in 1 .. Len(win.inbox) : win.inbox[i].src = "quit" => win.inbox[i].tag = 1
      /\ win.mode = "closed" => QuitIn(rt.queue) \/ QuitIn(win.pending) \/ seen["quit"] # << >>
  BY DEF QuitTold
<1>2. /\ win \in WinType /\ rt.queue \in Seq(Event) /\ win.pending \in Seq(Event)
      /\ win.inbox \in Seq(Event) /\ Len(<< >>) = 0
  BY Values DEF WinType
<1>3. CASE /\ seen' = seen
           /\ \E dirty, ok \in BOOLEAN : Shows(dirty, ok) /\ Delivers(dirty, ok)
  <2>1. PICK dirty \in BOOLEAN, ok \in BOOLEAN : Shows(dirty, ok) /\ Delivers(dirty, ok)
    BY <1>3
  <2> DEFINE s == Shown(win, dirty)
  <2>2. /\ s \in WinType
        /\ \/ s = win
           \/ /\ s.inbox = << >> /\ s.pending = win.pending \o win.inbox
              /\ s.mode = "closed" => \/ win.mode = "closed"
                     \/ \E i \in 1 .. Len(win.inbox) : win.inbox[i].src = "quit"
    BY <1>2, ShownIs
  <2>3. /\ win'.mode = s.mode /\ win'.inbox = s.inbox
        /\ win'.pending = IF ok THEN << >> ELSE s.pending
        /\ QuitIn(rt.queue) => QuitIn(rt'.queue)
        /\ ok /\ QuitIn(s.pending) => QuitIn(rt'.queue)
    BY <2>1 DEF Shows, Delivers
  <2> HIDE DEF s
  <2>4. \A i \in 1 .. Len(s.inbox) : s.inbox[i].src = "quit" => s.inbox[i].tag = 1
    <3>1. CASE s = win
      BY <1>1, <3>1
    <3>2. CASE s.inbox = << >>
      BY <3>2
    <3> QED BY <2>2, <3>1, <3>2
  <2>5. s.mode = "closed" => QuitIn(rt.queue) \/ QuitIn(s.pending) \/ seen["quit"] # << >>
    <3>1. CASE s = win
      BY <1>1, <3>1
    <3>2. CASE s.pending = win.pending \o win.inbox
      <4>1. (\E i \in 1 .. Len(win.inbox) : win.inbox[i].src = "quit") => QuitIn(win.inbox)
        BY <1>1 DEF QuitIn
      <4>2. QuitIn(s.pending) <=> QuitIn(win.pending) \/ QuitIn(win.inbox)
        BY <1>2, <3>2, QuitInConcat
      <4> QED BY <1>1, <2>2, <4>1, <4>2
    <3> QED BY <2>2, <3>1, <3>2
  <2>6. win'.mode = "closed" =>
          QuitIn(rt'.queue) \/ QuitIn(win'.pending) \/ seen'["quit"] # << >>
    BY <1>3, <2>3, <2>5
  <2> QED BY <2>3, <2>4, <2>6 DEF QuitTold
<1>4. CASE UNCHANGED <<win, seen>> /\ rt'.queue = rt.queue
  BY <1>1, <1>4 DEF QuitTold
<1>5. CASE Dispatch
  <2>1. win' = win
    BY <1>5 DEF Dispatch
  <2> QED BY <1>1, <1>5, <2>1, DispatchIs DEF QuitTold
<1>6. CASE /\ rt' = rt /\ seen' = seen
           /\ \E e \in Event : Posted(e) /\ (e.src = "quit" => e.tag = 1)
  <2>1. PICK e \in Event : Posted(e) /\ (e.src = "quit" => e.tag = 1)
    BY <1>6
  <2>2. /\ win'.mode = win.mode /\ win'.pending = win.pending
        /\ \A i \in 1 .. Len(win'.inbox) : win'.inbox[i] = e
              \/ (i \in 1 .. Len(win.inbox) /\ win'.inbox[i] = win.inbox[i])
    BY <2>1, PostedIs
  <2>3. \A i \in 1 .. Len(win'.inbox) : win'.inbox[i].src = "quit" => win'.inbox[i].tag = 1
    BY <1>1, <2>1, <2>2
  <2> QED BY <1>1, <1>6, <2>2, <2>3 DEF QuitTold
<1> QED BY <1>3, <1>4, <1>5, <1>6 DEF WinMove

-----------------------------------------------------------------------------
(* How long the runner waits for a timer.                                  *)

(* Sleeps add up. *)
LEMMA Product ==
  ASSUME NEW n \in Nat
  PROVE  /\ n * MaxSleep \in Nat /\ 0 * MaxSleep = 0
         /\ n > 0 => (n - 1) * MaxSleep = n * MaxSleep - MaxSleep
<1>1. MaxSleep \in Nat
  BY LimitAssumption
<1> QED BY <1>1

(* What the runner does, by the place it goes to. *)
LEMMA IdleQuiet ==
  ASSUME TypeOK, TimerAsCommanded, IdleAddsUp, NothingPending, ctl' = ctl, TimeStays \/ Ticks,
         rt'.queue = rt.queue, win'.pending = win.pending,
         expired' = expired \/ expired' = TRUE
  PROVE  IdleAddsUp' /\ NothingPending'
<1>1. ctl.idle \in Nat /\ StepLimit \in Nat
  BY Values, HorizonBounds DEF CtlType
<1>2. ctl.idle * MaxSleep \in Nat
  BY <1>1, Product
<1>3. /\ rt'.due = rt.due /\ asked' = asked /\ rt'.lag \in Nat
      /\ rt'.lag >= rt.lag
  <2>1. CASE TimeStays
    BY <2>1, TimeTypes DEF TimeStays, clock
  <2>2. CASE Ticks
    BY <2>2, TimeTypes, TickIs
  <2> QED BY <2>1, <2>2
<1>4. rt.due # None => rt.due \in Nat /\ rt.lag \in Nat
  BY TimeTypes
<1>5. NothingPending'
  BY DEF NothingPending
<1>6. ASSUME rt.due # None, Left = 0 \/ Left + ctl.idle * MaxSleep <= asked
      PROVE  Left' = 0 \/ Left' + ctl.idle * MaxSleep <= asked
  <2>1. CASE rt.due <= rt'.lag
    BY <1>3, <2>1 DEF Left
  <2>2. CASE ~ (rt.due <= rt'.lag)
    <3>1. Left' = rt.due - rt'.lag /\ Left = rt.due - rt.lag /\ Left # 0
      BY <1>3, <1>4, <1>6, <2>2 DEF Left
    <3>2. asked \in Int
      BY TimeTypes, <1>6 DEF TimerAsCommanded
    <3> QED BY <1>2, <1>3, <1>4, <1>6, <3>1, <3>2
  <2> QED BY <2>1, <2>2
<1> QED BY <1>3, <1>5, <1>6 DEF IdleAddsUp

LEMMA IdleElsewhere ==
  ASSUME ~ (ctl'.at = "pop" /\ ~ctl'.busy), ctl'.at \notin {"idle", "top", "done"}
  PROVE  IdleAddsUp' /\ NothingPending'
BY DEF IdleAddsUp, NothingPending

(* The end of a stage leads to the events only if one was dispatched.      *)
LEMMA EndOfStage ==
  ASSUME ctl \in CtlType, PlacesAgree, ctl.at \in {"head", "exec"}, EndStage
  PROVE  ~ (ctl'.at = "pop" /\ ~ctl'.busy) /\ ctl'.at \notin {"idle", "top", "done"}
<1>1. ctl.back \in {"boot", "pop"} /\ (ctl.back = "pop" => ctl.busy)
  BY DEF CtlType, PlacesAgree
<1>2. ctl'.at = ctl.back /\ ctl'.busy = ctl.busy
  <2>1. PICK b : b = ctl.back
    OBVIOUS
  <2>2. ctl' = [ctl EXCEPT !.at = b, !.left = 0]
    BY <2>1, Zenon DEF EndStage
  <2> QED BY <2>1, <2>2 DEF CtlType
<1> QED BY <1>1, <1>2

(* The top of the loop, after an empty queue or at the start.              *)
LEMMA ToTop ==
  ASSUME TypeOK, TimerAsCommanded, TimeStays, ctl' \in CtlType,
         ctl'.at = "top", ctl'.idle = 0
  PROVE  IdleAddsUp' /\ NothingPending'
<1>1. rt'.due = rt.due /\ asked' = asked /\ rt'.lag = rt.lag
  BY DEF TimeStays, clock
<1>2. ASSUME rt.due # None PROVE Left' + ctl'.idle * MaxSleep <= asked
  <2>1. rt.due <= asked /\ asked \in Nat /\ rt.due \in Nat /\ rt.lag \in Nat
    BY <1>2, TimeTypes DEF TimerAsCommanded
  <2>2. Left' \in Nat /\ Left' <= rt.due
    BY <1>1, <2>1 DEF Left
  <2>3. 0 * MaxSleep = 0
    BY Product
  <2> QED BY <2>1, <2>2, <2>3
<1> QED BY <1>1, <1>2 DEF IdleAddsUp, NothingPending

LEMMA IdleTop ==
  ASSUME TypeOK, IdleAddsUp, Top
  PROVE  IdleAddsUp' /\ NothingPending'
<1>1. ctl \in CtlType /\ ctl.at = "top" /\ expired' = expired /\ expired \in BOOLEAN
  BY Values DEF Top, TypeOK
<1>2. PICK ok \in BOOLEAN :
        /\ Shows(host.dirty, ok)
        /\ \/ (\E r \in RtType : Looks(r))
              /\ ctl' = [ctl EXCEPT !.busy = FALSE, !.at = IF expired THEN "done" ELSE "pop"]
              /\ ok
           \/ UNCHANGED <<rt, clock>>
              /\ ctl' = [ctl EXCEPT !.busy = FALSE, !.at = "failed"]
  BY TopIs
<1>3. CASE ctl' = [ctl EXCEPT !.busy = FALSE, !.at = "failed"]
  <2>1. ctl'.at = "failed"
    BY <1>1, <1>3 DEF CtlType
  <2> QED BY <2>1, IdleElsewhere
<1>4. CASE /\ \E r \in RtType : Looks(r)
           /\ ctl' = [ctl EXCEPT !.busy = FALSE, !.at = IF expired THEN "done" ELSE "pop"]
           /\ ok
  <2>1. PICK r \in RtType : Looks(r)
    BY <1>4
  <2>2. PICK a : a = IF expired THEN "done" ELSE "pop"
    OBVIOUS
  <2>3. ctl' = [ctl EXCEPT !.busy = FALSE, !.at = a]
    BY <1>4, <2>2
  <2>4. ctl'.at = a /\ ctl'.idle = ctl.idle
    BY <1>1, <2>3 DEF CtlType
  <2>5. win'.pending = << >>
    BY <1>2, <1>4 DEF Shows
  <2>6. asked' = asked
         /\ rt'.due = (IF rt.due = None \/ rt.due <= rt.lag THEN None ELSE rt.due - rt.lag)
    BY <2>1, LookIs
  <2>7. NothingPending'
    BY <1>1, <2>2, <2>4, <2>5 DEF NothingPending
  <2>8. ASSUME rt'.due # None
        PROVE  rt'.due # 0 /\ rt'.due + ctl.idle * MaxSleep <= asked
    <3>1. rt.due # None /\ ~ (rt.due <= rt.lag) /\ rt'.due = rt.due - rt.lag
      BY <2>6, <2>8
    <3>2. rt.due \in Nat /\ rt.lag \in Nat
      BY <3>1, TimeTypes
    <3>3. Left = rt.due - rt.lag /\ Left # 0
      BY <3>1, <3>2 DEF Left
    <3>4. Left + ctl.idle * MaxSleep <= asked
      BY <1>1, <3>1, <3>3 DEF IdleAddsUp
    <3> QED BY <3>1, <3>2, <3>3, <3>4
  <2> QED BY <1>1, <2>2, <2>4, <2>6, <2>7, <2>8 DEF IdleAddsUp
<1> QED BY <1>2, <1>3, <1>4

LEMMA IdleWait ==
  ASSUME TypeOK, TimerAsCommanded, IdleAddsUp, Wait
  PROVE  IdleAddsUp' /\ NothingPending'
<1>1. ctl \in CtlType /\ ctl.at = "pop" /\ ~ctl.busy /\ ctl.idle \in Nat /\ StepLimit \in Nat
  BY Values, HorizonBounds DEF Wait, CtlType
<1>2. PICK n : n = Min({ctl.idle + 1, StepLimit})
  OBVIOUS
<1>3. ctl' = [ctl EXCEPT !.at = "idle", !.idle = n]
  BY <1>2, Zenon DEF Wait, Sleeps
<1>4. ctl'.at = "idle" /\ ctl'.idle = n
  BY <1>1, <1>3 DEF CtlType
<1>5. rt'.due = rt.due /\ asked' = asked
  <2>1. rt' = UiQueued(rt, win, FALSE, TRUE) /\ UNCHANGED clock
    BY DEF Wait
  <2> QED BY <2>1, Values, UiIs DEF clock
<1>6. ASSUME rt.due # None
      PROVE  n > 0 /\ rt.due + (n - 1) * MaxSleep <= asked
  <2>1. ctl.idle < StepLimit
    BY <1>6 DEF Wait, KeepsWaiting
  <2>2. n = ctl.idle + 1
    <3>1. ctl.idle + 1 \in Int /\ StepLimit \in Int /\ ctl.idle + 1 <= StepLimit
      BY <1>1, <2>1
    <3> QED BY <1>2, <3>1, OfTwo
  <2>3. rt.due + ctl.idle * MaxSleep <= asked
    BY <1>1, <1>6 DEF IdleAddsUp
  <2>4. n - 1 = ctl.idle /\ n > 0
    BY <1>1, <2>2
  <2> QED BY <2>3, <2>4
<1> QED BY <1>4, <1>5, <1>6 DEF IdleAddsUp, NothingPending

LEMMA IdleWake ==
  ASSUME TypeOK, TimerAsCommanded, IdleAddsUp, Wake
  PROVE  IdleAddsUp' /\ NothingPending'
<1>1. ctl \in CtlType /\ ctl.at = "idle" /\ ctl.idle \in Nat /\ MaxSleep \in Nat \ {0}
  BY Values, LimitAssumption DEF Wake, CtlType
<1>2. ctl'.at = "top" /\ ctl'.idle = ctl.idle /\ rt' = rt /\ asked' = asked
  BY <1>1 DEF Wake, CtlType, clock
<1>3. ASSUME rt.due # None, rt.lag < rt.due
      PROVE  rt.due - rt.lag + ctl.idle * MaxSleep <= asked
  <2>1. rt.due \in Nat /\ rt.lag \in Nat /\ asked \in Nat
    BY <1>3, TimeTypes DEF TimerAsCommanded
  <2>2. ctl.idle > 0 /\ rt.due + (ctl.idle - 1) * MaxSleep <= asked
    BY <1>1, <1>3 DEF IdleAddsUp
  <2>3. Max({rt.due, 1}) = rt.due
    <3>1. Max({rt.due, 1}) = IF rt.due <= 1 THEN 1 ELSE rt.due
      BY <2>1, OfTwo
    <3> QED BY <1>3, <2>1, <3>1
  <2>4. rt.lag >= Min({rt.due, MaxSleep})
    BY <1>3, <2>3 DEF Wake, SleepTime
  <2>5. Min({rt.due, MaxSleep}) = IF rt.due <= MaxSleep THEN rt.due ELSE MaxSleep
    <3>1. rt.due \in Int /\ MaxSleep \in Int
      BY <1>1, <2>1
    <3> QED BY <3>1, OfTwo
  <2>6. rt.lag >= MaxSleep
    BY <1>1, <1>3, <2>1, <2>4, <2>5
  <2>7. (ctl.idle - 1) * MaxSleep = ctl.idle * MaxSleep - MaxSleep /\ ctl.idle * MaxSleep \in Nat
    BY <1>1, <2>2, Product
  <2> QED BY <1>1, <2>1, <2>2, <2>6, <2>7
<1>4. rt.due # None => rt.due \in Nat /\ rt.lag \in Nat
  BY TimeTypes
<1>5. rt.due # None => Left' = 0 \/ Left' + ctl.idle * MaxSleep <= asked
  BY <1>2, <1>3, <1>4 DEF Left
<1> QED BY <1>2, <1>5 DEF IdleAddsUp, NothingPending

LEMMA IdleGivesUp ==
  ASSUME TypeOK, IdleAddsUp, NothingPending, GiveUp
  PROVE  IdleAddsUp' /\ NothingPending'
<1>1. ctl \in CtlType /\ ctl.at = "pop" /\ ~ctl.busy /\ ctl.idle \in 0 .. StepLimit
      /\ StepLimit \in Nat /\ rt.queue = << >>
  BY Values, HorizonBounds DEF GiveUp, CtlType
<1>2. /\ ctl'.at = "done" /\ UNCHANGED <<rt, win, asked>>
  BY <1>1 DEF GiveUp, CtlType, clock
<1>3. rt.due # None => ctl.idle = StepLimit
  <2>1. rt.due # None => ~ (ctl.idle < StepLimit)
    BY DEF GiveUp, KeepsWaiting
  <2> QED BY <1>1, <2>1
<1>4. NothingPending'
  BY <1>1, <1>2 DEF NothingPending
<1> QED BY <1>1, <1>2, <1>3, <1>4 DEF IdleAddsUp

LEMMA IdleStep ==
  ASSUME TypeOK, PlacesAgree, TimerAsCommanded, IdleAddsUp, NothingPending, [Next]_vars
  PROVE  IdleAddsUp' /\ NothingPending'
<1>1. ctl \in CtlType /\ ctl' \in CtlType
  BY TypesStep, Values DEF TypeOK, CtlType
<1>2. ASSUME EndStage, ctl.at \in {"head", "exec"}
      PROVE  IdleAddsUp' /\ NothingPending'
  BY <1>1, <1>2, EndOfStage, IdleElsewhere
<1>3. ASSUME ctl'.at \in {"head", "exec", "undriven"}
      PROVE  IdleAddsUp' /\ NothingPending'
  BY <1>3, IdleElsewhere
<1>4. CASE BudgetExhausted \/ Fault
  <2>1. EndStage /\ ctl.at \in {"head", "exec"}
    BY <1>4 DEF BudgetExhausted, Fault
  <2> QED BY <1>2, <2>1
<1>5. CASE StepHead
  <2>1. ctl.at = "head" /\ (ctl' = [ctl EXCEPT !.at = "exec"] \/ EndStage)
    BY <1>5, Zenon DEF StepHead
  <2>2. CASE ctl' = [ctl EXCEPT !.at = "exec"]
    <3>1. ctl'.at = "exec"
      BY <1>1, <2>2 DEF CtlType
    <3> QED BY <1>3, <3>1
  <2> QED BY <1>2, <2>1, <2>2
<1>6. CASE HostCall \/ GuestStep
  <2>1. ctl.at = "exec" /\ (StepDone \/ EndStage)
    BY <1>6, HostCallIs, Zenon DEF GuestStep
  <2>2. CASE StepDone
    <3>1. ctl'.at = "head"
      BY <1>1, <2>2 DEF StepDone, CtlType
    <3> QED BY <1>3, <3>1
  <2> QED BY <1>2, <2>1, <2>2
<1>7. CASE NextStage \/ ReturnUndriven \/ Dispatch
  <2>1. ctl'.at \in {"head", "undriven"}
    BY <1>1, <1>7 DEF NextStage, ReturnUndriven, Dispatch, CtlType
  <2> QED BY <1>3, <2>1
<1>8. CASE EnterDrive
  <2>1. ctl'.at = "top" /\ ctl'.idle = ctl.idle
    BY <1>1, <1>8 DEF EnterDrive, CtlType
  <2>2. ctl.idle = 0
    BY <1>8 DEF EnterDrive, PlacesAgree
  <2>3. TimeStays
    BY <1>8 DEF EnterDrive, TimeStays
  <2> QED BY <1>1, <2>1, <2>2, <2>3, ToTop
<1>9. CASE Repoll
  <2>1. ctl'.at = "top" /\ ctl'.idle = 0
    BY <1>1, <1>9 DEF Repoll, AfterEvents, CtlType
  <2>2. TimeStays
    BY <1>9 DEF Repoll, TimeStays
  <2> QED BY <1>1, <2>1, <2>2, ToTop
<1>10. CASE Top
  BY <1>10, IdleTop
<1>11. CASE Wait
  BY <1>11, IdleWait
<1>12. CASE Wake
  BY <1>12, IdleWake
<1>13. CASE GiveUp
  BY <1>13, IdleGivesUp
<1>14. CASE World \/ Over \/ UNCHANGED vars
  <2>1. /\ ctl' = ctl /\ rt'.queue = rt.queue /\ (TimeStays \/ Ticks)
        /\ expired' = expired \/ expired' = TRUE
    <3>1. CASE Tick
      <4>1. PICK l : l = Min({rt.lag + 1, Horizon})
        OBVIOUS
      <4>2. rt' = [rt EXCEPT !.lag = l]
        BY <3>1, <4>1 DEF Tick
      <4>3. rt'.due = rt.due /\ rt'.lag = l /\ rt'.queue = rt.queue
        BY <4>2, Values DEF RtType
      <4>4. /\ waited' = (IF rt.due = None THEN waited ELSE Min({waited + 1, Horizon}))
            /\ UNCHANGED <<asked, fires, ctl, expired>>
        BY <3>1, Zenon DEF Tick
      <4> QED BY <4>1, <4>3, <4>4 DEF Ticks
    <3>2. CASE UserInput \/ UserCloses \/ LimitPasses \/ Over \/ UNCHANGED vars
      <4>1. UNCHANGED <<rt, ctl, clock>>
        BY <3>2, Zenon DEF UserInput, UserCloses, LimitPasses, Over, vars
      <4>2. expired' = expired \/ expired' = TRUE
        BY <3>2, Zenon DEF UserInput, UserCloses, LimitPasses, Over, vars
      <4> QED BY <4>1, <4>2 DEF TimeStays
    <3> QED BY <1>14, <3>1, <3>2 DEF World
  <2>2. win'.pending = win.pending
    <3>1. CASE UserInput \/ UserCloses
      <4>1. PICK e : Posted(e)
        BY <3>1, Zenon DEF UserInput, UserCloses
      <4>2. PICK q : q = Append(win.inbox, e)
        OBVIOUS
      <4>3. win' = [win EXCEPT !.inbox = q]
        BY <4>1, <4>2 DEF Posted
      <4> QED BY <4>3, Values DEF WinType
    <3>2. CASE Tick \/ LimitPasses \/ Over \/ UNCHANGED vars
      <4>1. win' = win
        BY <3>2, Zenon DEF Tick, LimitPasses, Over, vars
      <4> QED BY <4>1
    <3> QED BY <1>14, <3>1, <3>2 DEF World
  <2> QED BY <2>1, <2>2, IdleQuiet
<1> QED BY <1>4, <1>5, <1>6, <1>7, <1>8, <1>9, <1>10, <1>11, <1>12, <1>13, <1>14, Zenon
        DEF Next, Runner, RunLoop, RunMrp, Drive

-----------------------------------------------------------------------------
(* The invariant holds. *)

LEMMA LoopInvInit ==
  ASSUME Init
  PROVE  LoopInv
<1>1. /\ rt = [due |-> None, lag |-> 0, queue |-> << >>]
      /\ host = [command |-> None, events |-> << >>, dirty |-> FALSE, exit |-> FALSE]
      /\ ctl = [at |-> "head", back |-> "boot", left |-> StepLimit,
                boots |-> BootStages, idle |-> 0, busy |-> FALSE]
      /\ running = TRUE /\ expired = FALSE /\ asked = None /\ waited = 0 /\ fires = 0
  BY DEF Init
<1>2. PICK w \in Windows : win = [mode |-> w, inbox |-> << >>, pending |-> << >>]
  BY DEF Init
<1>3. /\ Horizon \in Nat /\ StepLimit \in Nat /\ BootStages \in Nat /\ MaxMark \in Nat \ {0}
      /\ w \in {"none", "open"} /\ None \notin Nat
  BY HorizonBounds, LimitAssumption, NoneApart
<1>4. /\ marked \in [Sources -> 0 .. MaxMark]
      /\ seen \in [Sources -> Seq(1 .. MaxMark)]
  <2>1. << >> \in Seq(1 .. MaxMark)
    BY EmptySeq
  <2>2. PICK e : e = << >>
    OBVIOUS
  <2>3. seen = [s \in Sources |-> e] /\ e \in Seq(1 .. MaxMark)
    BY <2>1, <2>2 DEF Init
  <2> QED BY <1>3, <2>3 DEF Init
<1>5. << >> \in Seq(Event) /\ Len(<< >>) = 0
  BY EmptySeq
<1>6. TypeOK
  <2>1. rt \in [due : 0 .. Horizon \cup {None}, lag : 0 .. Horizon, queue : Seq(Event)]
    BY <1>1, <1>3, <1>5
  <2>2. host \in [command : {None}, events : {<< >>}, dirty : BOOLEAN, exit : BOOLEAN]
    BY <1>1
  <2>3. win \in [mode : {"none", "open", "closed"}, inbox : Seq(Event), pending : Seq(Event)]
    BY <1>2, <1>3, <1>5
  <2>4. ctl \in CtlType
    BY <1>1, <1>3 DEF CtlType, Places
  <2>5. /\ running \in BOOLEAN /\ expired \in BOOLEAN
        /\ asked \in Delays \cup {None, Stop} /\ waited \in 0 .. Horizon /\ fires \in 0 .. 2
    <3>1. waited \in 0 .. Horizon /\ fires \in 0 .. 2
      BY <1>1, <1>3
    <3>2. running \in BOOLEAN /\ expired \in BOOLEAN
      BY <1>1
    <3>3. asked \in Delays \cup {None, Stop}
      BY <1>1
    <3> QED BY <3>1, <3>2, <3>3
  <2> QED BY <1>4, <2>1, <2>2, <2>3, <2>4, <2>5, Zenon DEF TypeOK, CtlType
<1>7. PlacesAgree
  BY <1>1 DEF PlacesAgree
<1>8. TimerAsCommanded /\ TimeAddsUp /\ IdleAddsUp
  BY <1>1, <1>3 DEF TimerAsCommanded, TimeAddsUp, IdleAddsUp
<1>9. QuitTold /\ NothingPending
  BY <1>1, <1>2, <1>3, <1>5 DEF QuitTold, NothingPending
<1> QED BY <1>6, <1>7, <1>8, <1>9 DEF LoopInv

LEMMA LoopInvNext ==
  ASSUME LoopInv, [Next]_vars
  PROVE  LoopInv'
<1>1. /\ TypeOK /\ PlacesAgree /\ TimerAsCommanded /\ TimeAddsUp
      /\ IdleAddsUp /\ QuitTold /\ NothingPending
  BY DEF LoopInv
<1>2. TimeMove /\ WinMove
  BY <1>1, Moves
<1>3. TypeOK' /\ PlacesAgree'
  BY <1>1, TypesStep
<1>4. TimerAsCommanded' /\ TimeAddsUp'
  BY <1>1, <1>2, TimeStep
<1>5. QuitTold'
  BY <1>1, <1>2, QuitStep
<1>6. IdleAddsUp' /\ NothingPending'
  BY <1>1, IdleStep
<1> QED BY <1>3, <1>4, <1>5, <1>6 DEF LoopInv

(* The inductive invariant holds in every reachable state of the loop.     *)
THEOREM LoopInvHolds == Spec => []LoopInv
<1>1. Init => LoopInv
  BY LoopInvInit
<1>2. LoopInv /\ [Next]_vars => LoopInv'
  BY LoopInvNext
<1> QED BY <1>1, <1>2, PTL DEF Spec

(* The clock never goes below a deadline it has reached, the slots of the  *)
(* host are empty between two steps, and every other field keeps its type. *)
THEOREM LoopTypes == Spec => []TypeOK
<1>1. LoopInv => TypeOK
  BY DEF LoopInv
<1> QED BY <1>1, LoopInvHolds, PTL

(* The timer of the runtime is always the one the guest asked for last,    *)
(* with no more time left than it was given, and fires at most once.       *)
THEOREM TimerStaysAsCommanded == Spec => []TimerAsCommanded
<1>1. LoopInv => TimerAsCommanded
  BY DEF LoopInv
<1> QED BY <1>1, LoopInvHolds, PTL

(* poll_timers queues a Timer event only when at least the delay that was  *)
(* asked for has passed since the clock the runtime had at timerStart.     *)
THEOREM TimersNeverEarly == Spec => NeverEarly
<1>1. LoopInv /\ [Next]_vars => [fires' > fires => waited >= asked]_vars
  BY Moves, LateEnough DEF LoopInv
<1> QED BY <1>1, LoopInvHolds, PTL DEF Spec, NeverEarly

(* Leaving the loop with a timer armed, the runner has slept step_limit    *)
(* times as long as an idle poll may: the timer asked for was longer.      *)
THEOREM OnlyLongTimersAreDropped == Spec => []OnlyLongTimersDropped
<1>1. LoopInv => OnlyLongTimersDropped
  <2> SUFFICES ASSUME LoopInv, ctl.at = "done", ~expired, rt.due # None
               PROVE  asked > StepLimit * MaxSleep
    BY DEF OnlyLongTimersDropped
  <2>1. rt.due # 0 /\ rt.due + StepLimit * MaxSleep <= asked
    BY DEF LoopInv, IdleAddsUp
  <2>2. rt.due \in Nat /\ asked \in Nat
    BY TimeTypes DEF LoopInv, TimerAsCommanded
  <2>3. StepLimit * MaxSleep \in Nat
    BY Product, HorizonBounds
  <2> QED BY <2>1, <2>2, <2>3
<1> QED BY <1>1, LoopInvHolds, PTL

(* A runner that leaves the loop of its own accord after the window was    *)
(* closed has handed MR_EVENT_EXIT to the guest before.                    *)
THEOREM ClosesAreTold == Spec => []CloseIsTold
<1>1. LoopInv => CloseIsTold
  <2> SUFFICES ASSUME LoopInv, ctl.at = "done", ~expired, win.mode = "closed"
               PROVE  seen["quit"] # << >>
    BY DEF CloseIsTold
  <2>1. rt.queue = << >> /\ win.pending = << >>
    BY DEF LoopInv, NothingPending
  <2>2. ~ QuitIn(<< >>)
    BY DEF QuitIn
  <2>3. QuitIn(rt.queue) \/ QuitIn(win.pending) \/ seen["quit"] # << >>
    BY DEF LoopInv, QuitTold
  <2> QED BY <2>1, <2>2, <2>3
<1> QED BY <1>1, LoopInvHolds, PTL

-----------------------------------------------------------------------------
(* Events on their way: a second invariant, on top of the first one.       *)

(* The user's events are the only ones the window holds. *)
UserEvents ==
  /\ \A i \in 1 .. Len(win.pending) : win.pending[i].src \in {"key", "quit"}
  /\ \A i \in 1 .. Len(win.inbox) : win.inbox[i].src \in {"key", "quit"}

(* The window is closed once: its message is still to be pumped, or the    *)
(* presenter has noticed.                                                  *)
QuitOnce == marked["quit"] > 0 => win.mode = "closed" \/ QuitPosted

MailInv == EventsInOrder /\ UserEvents /\ QuitOnce

(* Way d with e put in at place k is way c.                                *)
Inserted(d, c, k, e) ==
  /\ d \in Seq(Event) /\ c \in Seq(Event) /\ e \in Event
  /\ k \in 1 .. Len(d) + 1 /\ Len(c) = Len(d) + 1
  /\ \A i \in 1 .. Len(d) : i < k => c[i] = d[i]
  /\ c[k] = e
  /\ \A i \in 1 .. Len(d) : i >= k => c[i + 1] = d[i]

(* Is e a marked event of s?                                               *)
MarkedOf(s, e) == e.src = s /\ e.tag > 0

(* An insertion, by where it puts each place and where each came from.     *)
LEMMA InsertedAt ==
  ASSUME NEW d, NEW c, NEW k, NEW e, Inserted(d, c, k, e)
  PROVE  /\ DOMAIN d = 1 .. Len(d) /\ DOMAIN c = 1 .. Len(c)
         /\ Len(d) \in Nat /\ Len(c) \in Nat /\ k \in Nat \ {0}
         /\ \A i \in DOMAIN d : \E j \in DOMAIN c :
              j = (IF i < k THEN i ELSE i + 1) /\ c[j] = d[i]
         /\ \A j \in DOMAIN c : j # k => \E i \in DOMAIN d :
              i = (IF j < k THEN j ELSE j - 1) /\ c[j] = d[i]
         /\ k \in DOMAIN c /\ c[k] = e
<1>1. /\ Len(d) \in Nat /\ Len(c) \in Nat /\ k \in 1 .. Len(d) + 1 /\ Len(c) = Len(d) + 1
      /\ DOMAIN d = 1 .. Len(d) /\ DOMAIN c = 1 .. Len(c)
      /\ \A i \in 1 .. Len(d) : i < k => c[i] = d[i]
      /\ c[k] = e
      /\ \A i \in 1 .. Len(d) : i >= k => c[i + 1] = d[i]
  BY LenProperties DEF Inserted
<1>2. ASSUME NEW i \in DOMAIN d
      PROVE  \E j \in DOMAIN c : j = (IF i < k THEN i ELSE i + 1) /\ c[j] = d[i]
  BY <1>1
<1>3. ASSUME NEW j \in DOMAIN c, j # k
      PROVE  \E i \in DOMAIN d : i = (IF j < k THEN j ELSE j - 1) /\ c[j] = d[i]
  <2>1. CASE j < k
    BY <1>1, <2>1
  <2>2. CASE j > k
    <3>1. j - 1 \in 1 .. Len(d) /\ j - 1 >= k /\ (j - 1) + 1 = j
      BY <1>1, <2>2
    <3>2. c[(j - 1) + 1] = d[j - 1]
      BY <1>1, <3>1
    <3> QED BY <1>1, <2>2, <3>1, <3>2
  <2> QED BY <1>1, <1>3, <2>1, <2>2
<1> QED BY <1>1, <1>2, <1>3

(* An event of another source, or one without a mark, changes nothing for  *)
(* the order of the marks.                                                 *)
LEMMA InsertOther ==
  ASSUME NEW d, NEW c, NEW k, NEW e, Inserted(d, c, k, e),
         NEW s, NEW from, NEW upto, ~ MarkedOf(s, e)
  PROVE  InOrder(s, c, from, upto) <=> InOrder(s, d, from, upto)
<1>1. /\ DOMAIN d = 1 .. Len(d) /\ DOMAIN c = 1 .. Len(c)
      /\ Len(d) \in Nat /\ Len(c) \in Nat /\ k \in Nat \ {0}
      /\ \A i \in DOMAIN d : \E j \in DOMAIN c :
           j = (IF i < k THEN i ELSE i + 1) /\ c[j] = d[i]
      /\ \A j \in DOMAIN c : j # k => \E i \in DOMAIN d :
           i = (IF j < k THEN j ELSE j - 1) /\ c[j] = d[i]
      /\ c[k] = e
  BY InsertedAt
<1>2. k \notin Marks(s, c)
  BY <1>1 DEF Marks, MarkedOf
<1>3. \A i \in Marks(s, d) : \E j \in Marks(s, c) :
        j = (IF i < k THEN i ELSE i + 1) /\ c[j] = d[i]
  BY <1>1 DEF Marks
<1>4. \A j \in Marks(s, c) : \E i \in Marks(s, d) :
        i = (IF j < k THEN j ELSE j - 1) /\ c[j] = d[i]
  BY <1>1, <1>2 DEF Marks
<1>5. Marks(s, c) \subseteq Nat /\ Marks(s, d) \subseteq Nat
  BY <1>1 DEF Marks
<1>6. {c[j].tag : j \in Marks(s, c)} = {d[i].tag : i \in Marks(s, d)}
  BY <1>3, <1>4
<1>7. (\A i, j \in Marks(s, c) : i < j => c[i].tag < c[j].tag)
        <=> (\A i, j \in Marks(s, d) : i < j => d[i].tag < d[j].tag)
  <2>1. ASSUME \A i, j \in Marks(s, c) : i < j => c[i].tag < c[j].tag,
               NEW i \in Marks(s, d), NEW j \in Marks(s, d), i < j
        PROVE  d[i].tag < d[j].tag
    <3>1. PICK a \in Marks(s, c) : a = (IF i < k THEN i ELSE i + 1) /\ c[a] = d[i]
      BY <1>3
    <3>2. PICK b \in Marks(s, c) : b = (IF j < k THEN j ELSE j + 1) /\ c[b] = d[j]
      BY <1>3
    <3>3. a < b
      BY <1>1, <1>5, <2>1, <3>1, <3>2
    <3> QED BY <2>1, <3>1, <3>2, <3>3
  <2>2. ASSUME \A i, j \in Marks(s, d) : i < j => d[i].tag < d[j].tag,
               NEW i \in Marks(s, c), NEW j \in Marks(s, c), i < j
        PROVE  c[i].tag < c[j].tag
    <3>1. PICK a \in Marks(s, d) : a = (IF i < k THEN i ELSE i - 1) /\ c[i] = d[a]
      BY <1>4
    <3>2. PICK b \in Marks(s, d) : b = (IF j < k THEN j ELSE j - 1) /\ c[j] = d[b]
      BY <1>4
    <3>3. a < b
      <4>1. i # k /\ j # k
        BY <1>2, <2>2
      <4> QED BY <1>1, <1>5, <2>2, <3>1, <3>2, <4>1
    <3> QED BY <2>2, <3>1, <3>2, <3>3
  <2> QED BY <2>1, <2>2
<1> QED BY <1>6, <1>7 DEF InOrder

(* The next marked event of a source, put behind those that are there.     *)
LEMMA InsertMarked ==
  ASSUME NEW d, NEW c, NEW k, NEW e, Inserted(d, c, k, e),
         NEW s, NEW from \in Nat, NEW upto \in Nat, from <= upto + 1,
         MarkedOf(s, e), e.tag = upto + 1,
         \A i \in Marks(s, d) : i < k,
         InOrder(s, d, from, upto)
  PROVE  InOrder(s, c, from, upto + 1)
<1>1. /\ DOMAIN d = 1 .. Len(d) /\ DOMAIN c = 1 .. Len(c)
      /\ Len(d) \in Nat /\ Len(c) \in Nat /\ k \in Nat \ {0}
      /\ \A i \in DOMAIN d : \E j \in DOMAIN c :
           j = (IF i < k THEN i ELSE i + 1) /\ c[j] = d[i]
      /\ \A j \in DOMAIN c : j # k => \E i \in DOMAIN d :
           i = (IF j < k THEN j ELSE j - 1) /\ c[j] = d[i]
      /\ k \in DOMAIN c /\ c[k] = e
  BY InsertedAt
<1>2. k \in Marks(s, c) /\ Marks(s, d) \subseteq Nat /\ Marks(s, c) \subseteq Nat
  BY <1>1 DEF Marks, MarkedOf
<1>3. \A i \in Marks(s, d) : i \in Marks(s, c) /\ c[i] = d[i]
  BY <1>1, <1>2 DEF Marks
<1>4. \A j \in Marks(s, c) : j # k => j < k /\ j \in Marks(s, d) /\ c[j] = d[j]
  <2> TAKE j \in Marks(s, c)
  <2> HAVE j # k
  <2>1. PICK i \in DOMAIN d : i = (IF j < k THEN j ELSE j - 1) /\ c[j] = d[i]
    BY <1>1 DEF Marks
  <2>2. i \in Marks(s, d)
    BY <2>1 DEF Marks
  <2> QED BY <1>2, <2>1, <2>2
<1>5. {d[i].tag : i \in Marks(s, d)} = from .. upto
  BY DEF InOrder
<1>6. {c[j].tag : j \in Marks(s, c)} = from .. upto + 1
  <2>1. ASSUME NEW t \in from .. upto + 1
        PROVE  \E j \in Marks(s, c) : c[j].tag = t
    <3>1. CASE t = upto + 1
      BY <1>1, <1>2, <3>1
    <3>2. CASE t \in from .. upto
      BY <1>3, <1>5, <3>2
    <3> QED BY <3>1, <3>2
  <2>2. ASSUME NEW j \in Marks(s, c)
        PROVE  c[j].tag \in from .. upto + 1
    <3>1. CASE j = k
      BY <1>1, <3>1
    <3>2. CASE j # k
      <4>1. d[j].tag \in from .. upto
        BY <1>4, <1>5, <3>2
      <4> QED BY <1>4, <3>2, <4>1
    <3> QED BY <3>1, <3>2
  <2> QED BY <2>1, <2>2
<1>7. ASSUME NEW i \in Marks(s, c), NEW j \in Marks(s, c), i < j
      PROVE  c[i].tag < c[j].tag
  <2>1. i # k
    BY <1>2, <1>4, <1>7
  <2>2. i \in Marks(s, d) /\ c[i] = d[i]
    BY <1>4, <2>1
  <2>3. CASE j = k
    <3>1. d[i].tag \in from .. upto
      BY <1>5, <2>2
    <3> QED BY <1>1, <2>2, <2>3, <3>1
  <2>4. CASE j # k
    BY <1>4, <1>7, <2>2, <2>4 DEF InOrder
  <2> QED BY <2>3, <2>4
<1> QED BY <1>6, <1>7 DEF InOrder

(* The head of a way, if it is a marked event of s, is the next of s.      *)
LEMMA RemoveMarked ==
  ASSUME NEW d, NEW c, NEW e, Inserted(d, c, 1, e),
         NEW s, NEW from \in Nat, NEW upto \in Nat,
         MarkedOf(s, e), InOrder(s, c, from, upto)
  PROVE  e.tag = from /\ from <= upto /\ InOrder(s, d, from + 1, upto)
<1>1. /\ DOMAIN d = 1 .. Len(d) /\ DOMAIN c = 1 .. Len(c)
      /\ Len(d) \in Nat /\ Len(c) \in Nat
      /\ \A i \in DOMAIN d : \E j \in DOMAIN c : j = i + 1 /\ c[j] = d[i]
      /\ \A j \in DOMAIN c : j # 1 => \E i \in DOMAIN d : i = j - 1 /\ c[j] = d[i]
      /\ 1 \in DOMAIN c /\ c[1] = e
  <2>1. /\ DOMAIN d = 1 .. Len(d) /\ DOMAIN c = 1 .. Len(c)
        /\ Len(d) \in Nat /\ Len(c) \in Nat
        /\ \A i \in DOMAIN d : \E j \in DOMAIN c :
             j = (IF i < 1 THEN i ELSE i + 1) /\ c[j] = d[i]
        /\ \A j \in DOMAIN c : j # 1 => \E i \in DOMAIN d :
             i = (IF j < 1 THEN j ELSE j - 1) /\ c[j] = d[i]
        /\ 1 \in DOMAIN c /\ c[1] = e
    BY InsertedAt
  <2> QED BY <2>1
<1>2. 1 \in Marks(s, c) /\ Marks(s, c) \subseteq Nat \ {0} /\ Marks(s, d) \subseteq Nat \ {0}
  BY <1>1 DEF Marks, MarkedOf
<1>3. \A i \in Marks(s, d) : i + 1 \in Marks(s, c) /\ c[i + 1] = d[i]
  BY <1>1 DEF Marks
<1>4. \A j \in Marks(s, c) : j # 1 => j - 1 \in Marks(s, d) /\ c[j] = d[j - 1]
  BY <1>1 DEF Marks
<1>5. /\ {c[j].tag : j \in Marks(s, c)} = from .. upto
      /\ \A i, j \in Marks(s, c) : i < j => c[i].tag < c[j].tag
  BY DEF InOrder
<1>6. \A j \in Marks(s, c) : c[j].tag \in from .. upto
  BY <1>5
<1>7. e.tag = from /\ from <= upto
  <2>1. e.tag \in from .. upto
    BY <1>1, <1>2, <1>6
  <2>2. PICK j \in Marks(s, c) : c[j].tag = from
    BY <1>5, <2>1
  <2>3. j = 1 \/ e.tag < from
    BY <1>1, <1>2, <1>5, <2>2
  <2> QED BY <1>1, <2>1, <2>2, <2>3
<1>8. {d[i].tag : i \in Marks(s, d)} = from + 1 .. upto
  <2>1. ASSUME NEW t \in from + 1 .. upto
        PROVE  \E i \in Marks(s, d) : d[i].tag = t
    <3>3. t \in from .. upto
      OBVIOUS
    <3>1. PICK j \in Marks(s, c) : c[j].tag = t
      BY <1>5, <3>3
    <3>2. j # 1
      BY <1>1, <1>7, <3>1
    <3> QED BY <1>4, <3>1, <3>2
  <2>2. ASSUME NEW i \in Marks(s, d)
        PROVE  d[i].tag \in from + 1 .. upto
    <3>1. i + 1 \in Marks(s, c) /\ c[i + 1] = d[i] /\ 1 < i + 1
      BY <1>2, <1>3
    <3>2. d[i].tag \in from .. upto /\ e.tag < d[i].tag
      BY <1>1, <1>2, <1>5, <1>6, <3>1
    <3> QED BY <1>7, <3>2
  <2> QED BY <2>1, <2>2
<1>9. ASSUME NEW i \in Marks(s, d), NEW j \in Marks(s, d), i < j
      PROVE  d[i].tag < d[j].tag
  <2>1. i + 1 < j + 1
    BY <1>2, <1>9
  <2> QED BY <1>3, <1>5, <2>1
<1> QED BY <1>7, <1>8, <1>9 DEF InOrder

-----------------------------------------------------------------------------
(* What the steps do to the way.                                           *)

(* The way, when the host's slot is empty, from a queue and a window.      *)
Ahead(q, w) == (q \o w.pending) \o w.inbox

LEMMA WayIs ==
  ASSUME TypeOK, [Next]_vars
  PROVE  Way = Ahead(rt.queue, win) /\ Way' = Ahead(rt'.queue, win')
<1>1. /\ rt.queue \in Seq(Event) /\ host.events = << >>
      /\ rt'.queue \in Seq(Event) /\ host'.events = << >>
  <2>1. host \in IdleHost /\ host' \in IdleHost /\ rt \in RtType /\ rt' \in RtType
    BY Values, HostTypes, Moves
  <2> QED BY <2>1 DEF IdleHost, RtType
<1>2. rt.queue \o << >> = rt.queue /\ rt'.queue \o << >> = rt'.queue
  BY <1>1, ConcatEmptySeq
<1> QED BY <1>1, <1>2 DEF Way, Ahead

(* Insertions at the ends, and in the first of two sequences.              *)
LEMMA InsertedLast ==
  ASSUME NEW a \in Seq(Event), NEW e \in Event
  PROVE  Inserted(a, Append(a, e), Len(a) + 1, e)
<1>1. PICK b : b = Append(a, e)
  OBVIOUS
<1>2. /\ b \in Seq(Event) /\ Len(b) = Len(a) + 1 /\ b[Len(a) + 1] = e /\ Len(a) \in Nat
      /\ \A i \in 1 .. Len(a) : b[i] = a[i]
  BY <1>1, AppendProperties, LenProperties
<1>3. Inserted(a, b, Len(a) + 1, e)
  BY <1>2 DEF Inserted
<1> QED BY <1>1, <1>3

LEMMA InsertedFirst ==
  ASSUME NEW a \in Seq(Event), a # << >>
  PROVE  Inserted(Tail(a), a, 1, Head(a))
<1>1. PICK b : b = Tail(a)
  OBVIOUS
<1>2. /\ b \in Seq(Event) /\ Len(b) = Len(a) - 1 /\ Head(a) \in Event /\ Head(a) = a[1]
      /\ \A i \in 1 .. Len(b) : b[i] = a[i + 1]
      /\ Len(a) \in Nat \ {0}
  BY <1>1, HeadTailProperties, LenProperties, EmptySeq
<1>3. Inserted(b, a, 1, Head(a))
  BY <1>2 DEF Inserted
<1> QED BY <1>1, <1>3

LEMMA InsertedLeft ==
  ASSUME NEW d, NEW c, NEW k, NEW e, Inserted(d, c, k, e), NEW x \in Seq(Event)
  PROVE  Inserted(d \o x, c \o x, k, e)
<1>1. PICK f, g : f = d \o x /\ g = c \o x
  OBVIOUS
<1>2. /\ d \in Seq(Event) /\ c \in Seq(Event) /\ e \in Event
      /\ k \in 1 .. Len(d) + 1 /\ Len(c) = Len(d) + 1 /\ c[k] = e
      /\ \A i \in 1 .. Len(d) : i < k => c[i] = d[i]
      /\ \A i \in 1 .. Len(d) : i >= k => c[i + 1] = d[i]
      /\ Len(d) \in Nat /\ Len(x) \in Nat
  BY LenProperties DEF Inserted
<1>3. /\ f \in Seq(Event) /\ Len(f) = Len(d) + Len(x)
      /\ \A i \in 1 .. Len(f) : f[i] = IF i <= Len(d) THEN d[i] ELSE x[i - Len(d)]
  BY <1>1, <1>2, ConcatProperties
<1>4. /\ g \in Seq(Event) /\ Len(g) = Len(c) + Len(x)
      /\ \A i \in 1 .. Len(g) : g[i] = IF i <= Len(c) THEN c[i] ELSE x[i - Len(c)]
  BY <1>1, <1>2, ConcatProperties
<1>5. k \in 1 .. Len(f) + 1 /\ Len(g) = Len(f) + 1 /\ g[k] = e
  BY <1>2, <1>3, <1>4
<1>6. ASSUME NEW i \in 1 .. Len(f), i < k PROVE g[i] = f[i]
  <2>1. i \in 1 .. Len(d) /\ i \in 1 .. Len(g) /\ i <= Len(c) /\ i <= Len(d)
    BY <1>2, <1>3, <1>4, <1>6
  <2>2. f[i] = d[i] /\ g[i] = c[i]
    BY <1>3, <1>4, <2>1
  <2> QED BY <1>2, <1>6, <2>1, <2>2
<1>7. ASSUME NEW i \in 1 .. Len(f), i >= k PROVE g[i + 1] = f[i]
  <2>1. /\ i + 1 \in 1 .. Len(g) /\ (i + 1 <= Len(c) <=> i <= Len(d))
        /\ i + 1 - Len(c) = i - Len(d)
    BY <1>2, <1>3, <1>4
  <2>2. CASE i <= Len(d)
    <3>1. i \in 1 .. Len(d)
      BY <1>2, <1>3, <2>2
    <3>2. f[i] = d[i] /\ g[i + 1] = c[i + 1]
      BY <1>3, <1>4, <2>1, <2>2
    <3> QED BY <1>2, <1>7, <3>1, <3>2
  <2>3. CASE ~ (i <= Len(d))
    <3>1. f[i] = x[i - Len(d)] /\ g[i + 1] = x[i + 1 - Len(c)]
      BY <1>3, <1>4, <2>1, <2>3
    <3> QED BY <2>1, <3>1
  <2> QED BY <2>2, <2>3
<1>8. Inserted(f, g, k, e)
  BY <1>2, <1>3, <1>4, <1>5, <1>6, <1>7 DEF Inserted
<1> QED BY <1>1, <1>8

(* An event added to the queue, posted to the window, or taken.            *)
LEMMA InsertedAhead ==
  ASSUME NEW q \in Seq(Event), NEW w \in WinType, NEW e \in Event
  PROVE  /\ Inserted(Ahead(q, w), Ahead(Append(q, e), w), Len(q) + 1, e)
         /\ \A v \in WinType :
              v.pending = w.pending /\ v.inbox = Append(w.inbox, e) =>
                Inserted(Ahead(q, w), Ahead(q, v), Len(Ahead(q, w)) + 1, e)
         /\ q # << >> => Inserted(Ahead(Tail(q), w), Ahead(q, w), 1, Head(q))
<1>1. PICK p, x : p = w.pending /\ x = w.inbox
  OBVIOUS
<1>2. p \in Seq(Event) /\ x \in Seq(Event)
  BY <1>1 DEF WinType
<1>3. Inserted((q \o p) \o x, (Append(q, e) \o p) \o x, Len(q) + 1, e)
  <2>1. Inserted(q \o p, Append(q, e) \o p, Len(q) + 1, e)
    BY <1>2, InsertedLast, InsertedLeft
  <2> QED BY <1>2, <2>1, InsertedLeft
<1>4. q # << >> => Inserted((Tail(q) \o p) \o x, (q \o p) \o x, 1, Head(q))
  <2> HAVE q # << >>
  <2>1. Inserted(Tail(q) \o p, q \o p, 1, Head(q))
    BY <1>2, InsertedFirst, InsertedLeft
  <2> QED BY <1>2, <2>1, InsertedLeft
<1>5. Inserted((q \o p) \o x, (q \o p) \o Append(x, e), Len((q \o p) \o x) + 1, e)
  <2>1. PICK d : d = q \o p
    OBVIOUS
  <2>2. d \in Seq(Event) /\ d \o x \in Seq(Event) /\ <<e>> \in Seq(Event)
    BY <1>2, <2>1, ConcatProperties
  <2>3. (d \o x) \o <<e>> = d \o (x \o <<e>>)
    BY SMTT(30), <1>2, <2>2, ConcatAssociative
  <2>4. Append(x, e) = x \o <<e>> /\ Append(d \o x, e) = (d \o x) \o <<e>>
    BY <1>2, <2>2, AppendIsConcat
  <2>5. Inserted(d \o x, Append(d \o x, e), Len(d \o x) + 1, e)
    BY <2>2, InsertedLast
  <2> QED BY <2>1, <2>3, <2>4, <2>5
<1> QED BY <1>1, <1>3, <1>4, <1>5 DEF Ahead

(* What drain_host_ui moves, it moves along the way. *)
LEMMA UiAhead ==
  ASSUME NEW r \in RtType, NEW w \in WinType, NEW dirty \in BOOLEAN, NEW ok \in BOOLEAN
  PROVE  Ahead(UiQueued(r, w, dirty, ok).queue, UiWin(w, dirty, ok)) = Ahead(r.queue, w)
<1> DEFINE s == Shown(w, dirty)
           u == UiWin(w, dirty, ok)
           q == UiQueued(r, w, dirty, ok)
           a == r.queue
<1>1. /\ u.inbox = s.inbox /\ u.pending = IF ok THEN << >> ELSE s.pending
      /\ q.queue = IF ok THEN a \o s.pending ELSE a
  BY UiIs
<1>2. /\ s \in WinType
      /\ s = w \/ (s.inbox = << >> /\ s.pending = w.pending \o w.inbox)
  BY ShownIs
<1>3. a \in Seq(Event) /\ w.pending \in Seq(Event) /\ w.inbox \in Seq(Event)
  BY DEF RtType, WinType
<1> HIDE DEF s, u, q, a
<1>4. s.pending \in Seq(Event) /\ s.inbox \in Seq(Event)
  BY <1>2 DEF WinType
<1>5. a \o s.pending \in Seq(Event)
      /\ a \o (w.pending \o w.inbox) = (a \o w.pending) \o w.inbox
  <2>1. a \o s.pending \in Seq(Event)
    BY <1>3, <1>4, ConcatProperties
  <2>2. PICK x, y : x = w.pending /\ y = w.inbox
    OBVIOUS
  <2>3. x \in Seq(Event) /\ y \in Seq(Event)
    BY <1>3, <2>2
  <2>4. (a \o x) \o y = a \o (x \o y)
    <3>1. a \in Seq(Event)
      BY <1>3
    <3> QED BY SMTT(30), <2>3, <3>1, ConcatAssociative
  <2> QED BY <2>1, <2>2, <2>4
<1>6. Ahead(q.queue, u) = (a \o s.pending) \o s.inbox
  <2>1. CASE ok
    <3>1. (a \o s.pending) \o << >> = a \o s.pending
      BY <1>5, ConcatEmptySeq
    <3> QED BY <1>1, <2>1, <3>1 DEF Ahead
  <2>2. CASE ~ok
    BY <1>1, <2>2 DEF Ahead
  <2> QED BY <2>1, <2>2
<1>7. (a \o s.pending) \o s.inbox = (a \o w.pending) \o w.inbox
  <2>1. CASE s = w
    BY <2>1
  <2>2. CASE s.inbox = << >> /\ s.pending = w.pending \o w.inbox
    <3>1. (a \o s.pending) \o << >> = a \o s.pending
      BY <1>5, ConcatEmptySeq
    <3> QED BY <1>5, <2>2, <3>1
  <2> QED BY <1>2, <2>1, <2>2
<1> QED BY <1>6, <1>7 DEF Ahead, q, u, a

(* What a step may do to the way: nothing; a Timer event is put in; an     *)
(* event of a source is put in, behind every marked one of that source;    *)
(* the first event is told.                                                *)
Told(e) == seen' = IF e.tag = 0 THEN seen
                   ELSE [seen EXCEPT ![e.src] = Append(@, e.tag)]
MailMove ==
  \/ Way' = Way /\ UNCHANGED <<marked, seen>>
  \/ (\E k : Inserted(Way, Way', k, Timer)) /\ UNCHANGED <<marked, seen>>
  \/ \E s \in Sources : \E tag \in Tags(s) : \E k :
       /\ Inserted(Way, Way', k, [src |-> s, tag |-> tag])
       /\ \A i \in Marks(s, Way) : i < k
       /\ Marking(s, tag) /\ seen' = seen
  \/ \E e : Inserted(Way', Way, 1, e) /\ Told(e) /\ marked' = marked

(* What a step may do to the window and the mark of its closing.           *)
WindowMove ==
  \/ win' = win /\ marked'["quit"] = marked["quit"]
  \/ (\E dirty, ok \in BOOLEAN : Shows(dirty, ok)) /\ marked'["quit"] = marked["quit"]
  \/ \E e \in Event : Posted(e) /\ e.src \in {"key", "quit"}
                       /\ (e.src = "key" => marked'["quit"] = marked["quit"])

(* A source's counter after an event with a tag of its own.                *)
LEMMA MarkingCounts ==
  ASSUME TypeOK, NEW s \in Sources, NEW tag \in Tags(s), Marking(s, tag)
  PROVE  /\ tag = 0 \/ (tag = marked[s] + 1 /\ tag \in 1 .. MaxMark)
         /\ marked' = [marked EXCEPT ![s] = IF tag = 0 THEN marked[s] ELSE tag]
<1>1. marked[s] \in Nat /\ marked[s] \in 0 .. MaxMark /\ MaxMark \in Nat
  BY LimitAssumption DEF TypeOK
<1>2. tag = 0 \/ (tag = marked[s] + 1 /\ tag \in 1 .. MaxMark)
  BY <1>1 DEF Tags
<1>3. Max({marked[s], tag}) = IF tag = 0 THEN marked[s] ELSE tag
  <2>1. Max({marked[s], tag}) = IF marked[s] <= tag THEN tag ELSE marked[s]
    BY <1>1, <1>2, OfTwo
  <2> QED BY <1>1, <1>2, <2>1
<1> QED BY <1>2, <1>3 DEF Marking

(* Events stay in order, none lost, whatever a step does to the way.       *)
LEMMA EventsStep ==
  ASSUME TypeOK, EventsInOrder, MailMove
  PROVE  EventsInOrder'
<1> SUFFICES ASSUME NEW s \in Sources
             PROVE  /\ seen'[s] = [i \in 1 .. Len(seen'[s]) |-> i]
                    /\ Len(seen'[s]) <= marked'[s]
                    /\ InOrder(s, Way', Len(seen'[s]) + 1, marked'[s])
  BY Zenon DEF EventsInOrder, InOrder, Marks
<1> DEFINE told == Len(seen[s])
<1>1. /\ seen[s] = [i \in 1 .. told |-> i] /\ told <= marked[s]
      /\ InOrder(s, Way, told + 1, marked[s])
  BY DEF EventsInOrder
<1>2. /\ seen \in [Sources -> Seq(1 .. MaxMark)] /\ seen[s] \in Seq(1 .. MaxMark)
      /\ told \in Nat /\ marked \in [Sources -> 0 .. MaxMark]
      /\ MaxMark \in Nat /\ marked[s] \in Nat
  BY LimitAssumption, LenProperties DEF TypeOK
<1>3. CASE Way' = Way /\ UNCHANGED <<marked, seen>>
  BY <1>1, <1>3
<1>4. CASE (\E k : Inserted(Way, Way', k, Timer)) /\ UNCHANGED <<marked, seen>>
  <2>1. ~ MarkedOf(s, Timer)
    BY DEF MarkedOf, Timer
  <2> HIDE DEF told
  <2>2. InOrder(s, Way', told + 1, marked[s])
    BY <1>1, <1>4, <2>1, InsertOther
  <2> QED BY <1>1, <1>4, <2>2 DEF told
<1>5. ASSUME NEW src \in Sources, NEW tag \in Tags(src), NEW k,
             Inserted(Way, Way', k, [src |-> src, tag |-> tag]),
             \A i \in Marks(src, Way) : i < k,
             Marking(src, tag), seen' = seen
      PROVE  /\ seen'[s] = [i \in 1 .. Len(seen'[s]) |-> i]
             /\ Len(seen'[s]) <= marked'[s]
             /\ InOrder(s, Way', Len(seen'[s]) + 1, marked'[s])
  <2> DEFINE e == [src |-> src, tag |-> tag]
  <2>1. /\ tag = 0 \/ (tag = marked[src] + 1 /\ tag \in 1 .. MaxMark)
        /\ marked' = [marked EXCEPT ![src] = IF tag = 0 THEN marked[src] ELSE tag]
    BY <1>5, MarkingCounts
  <2>2. e.src = src /\ e.tag = tag
    OBVIOUS
  <2> HIDE DEF e, told
  <2>3. Inserted(Way, Way', k, e)
    BY <1>5 DEF e
  <2>4. CASE src = s /\ tag # 0
    <3>1. MarkedOf(s, e) /\ e.tag = marked[s] + 1
      BY <1>2, <2>1, <2>2, <2>4 DEF MarkedOf
    <3>2. marked'[s] = marked[s] + 1
      BY <1>2, <2>1, <2>4
    <3>3. told + 1 \in Nat /\ told + 1 <= marked[s] + 1
      BY <1>1, <1>2
    <3>4. \A i \in Marks(s, Way) : i < k
      BY <1>5, <2>4
    <3>5. InOrder(s, Way', told + 1, marked[s] + 1)
      BY <1>1, <1>2, <2>3, <3>1, <3>3, <3>4, InsertMarked
    <3> QED BY <1>1, <1>2, <1>5, <3>2, <3>5 DEF told
  <2>5. CASE ~ (src = s /\ tag # 0)
    <3>1. ~ MarkedOf(s, e) /\ marked'[s] = marked[s]
      BY <1>2, <2>1, <2>2, <2>5 DEF MarkedOf
    <3>2. InOrder(s, Way', told + 1, marked[s])
      BY <1>1, <2>3, <3>1, InsertOther
    <3> QED BY <1>1, <1>5, <3>1, <3>2 DEF told
  <2> QED BY <2>4, <2>5
<1>6. ASSUME NEW e, Inserted(Way', Way, 1, e), Told(e), marked' = marked
      PROVE  /\ seen'[s] = [i \in 1 .. Len(seen'[s]) |-> i]
             /\ Len(seen'[s]) <= marked'[s]
             /\ InOrder(s, Way', Len(seen'[s]) + 1, marked'[s])
  <2>1. e \in Event /\ e.tag \in 0 .. MaxMark
    BY <1>6 DEF Inserted, Event
  <2>2. CASE ~ MarkedOf(s, e)
    <3>1. seen'[s] = seen[s]
      <4>1. CASE e.tag = 0
        BY <1>6, <4>1 DEF Told
      <4>2. CASE e.tag # 0
        <5>1. e.src # s
          BY <1>2, <2>1, <2>2, <4>2 DEF MarkedOf
        <5>2. PICK t : seen' = [seen EXCEPT ![e.src] = t]
          BY <1>6, <4>2 DEF Told
        <5> QED BY <1>2, <5>1, <5>2
      <4> QED BY <4>1, <4>2
    <3> HIDE DEF told
    <3>2. InOrder(s, Way', told + 1, marked[s])
      BY <1>1, <1>6, <2>2, InsertOther
    <3> QED BY <1>1, <1>6, <3>1, <3>2 DEF told
  <2>3. CASE MarkedOf(s, e)
    <3>1. told + 1 \in Nat
      BY <1>2
    <3>2. e.tag = told + 1 /\ told + 1 <= marked[s]
          /\ InOrder(s, Way', told + 1 + 1, marked[s])
      <4> HIDE DEF told
      <4> QED BY <1>1, <1>2, <1>6, <2>3, <3>1, RemoveMarked
    <3>3. PICK t : t = Append(seen[s], e.tag)
      OBVIOUS
    <3>4. seen'[s] = t
      BY <1>2, <1>6, <2>3, <3>3 DEF Told, MarkedOf
    <3>5. e.tag \in 1 .. MaxMark
      BY <1>2, <2>1, <3>2
    <3>6. /\ t \in Seq(1 .. MaxMark) /\ Len(t) = told + 1
          /\ \A i \in 1 .. told : t[i] = seen[s][i]
          /\ t[told + 1] = e.tag
      <4>1. \A q \in Seq(1 .. MaxMark), n \in 1 .. MaxMark :
              /\ Append(q, n) \in Seq(1 .. MaxMark) /\ Len(Append(q, n)) = Len(q) + 1
              /\ \A i \in 1 .. Len(q) : Append(q, n)[i] = q[i]
              /\ Append(q, n)[Len(q) + 1] = n
        BY AppendProperties
      <4> QED BY <1>2, <3>3, <3>5, <4>1, Zenon
    <3>7. t = [i \in 1 .. Len(t) |-> i]
      <4> HIDE DEF told
      <4>1. t = [i \in 1 .. Len(t) |-> t[i]]
        BY <3>6, LenProperties, IsASeq
      <4>2. \A i \in 1 .. Len(t) : t[i] = i
        BY <1>1, <1>2, <3>2, <3>6
      <4> QED BY <4>1, <4>2
    <3> QED BY <1>6, <3>2, <3>4, <3>6, <3>7
  <2> QED BY <2>2, <2>3
<1> QED BY <1>3, <1>4, <1>5, <1>6 DEF MailMove

(* Only key and quit events wait in the window: none of the guest's own.   *)
LEMMA AheadOfUser ==
  ASSUME TypeOK, UserEvents, NEW i \in Marks("app", Way)
  PROVE  i < Len(rt.queue) + 1
<1> DEFINE q == rt.queue
           p == win.pending
           x == win.inbox
<1>1. q \in Seq(Event) /\ p \in Seq(Event) /\ x \in Seq(Event) /\ host.events = << >>
  BY Values DEF WinType, IdleHost
<1>2. /\ \A j \in 1 .. Len(p) : p[j].src # "app"
      /\ \A j \in 1 .. Len(x) : x[j].src # "app"
  BY DEF UserEvents
<1>3. Way = (q \o p) \o x
  BY <1>1, ConcatEmptySeq DEF Way
<1> HIDE DEF q, p, x
<1>4. PICK f : f = q \o p
  OBVIOUS
<1>5. /\ f \in Seq(Event) /\ Len(f) = Len(q) + Len(p)
      /\ \A j \in 1 .. Len(q) + Len(p) : f[j] = IF j <= Len(q) THEN q[j] ELSE p[j - Len(q)]
      /\ Len(q) \in Nat /\ Len(p) \in Nat /\ Len(x) \in Nat
  BY <1>1, <1>4, ConcatProperties, LenProperties
<1>6. PICK g : g = f \o x
  OBVIOUS
<1>7. /\ g \in Seq(Event) /\ Len(g) = Len(f) + Len(x) /\ DOMAIN g = 1 .. Len(g)
      /\ \A j \in 1 .. Len(f) + Len(x) : g[j] = IF j <= Len(f) THEN f[j] ELSE x[j - Len(f)]
  <2>1. /\ g \in Seq(Event) /\ Len(g) = Len(f) + Len(x)
        /\ \A j \in 1 .. Len(f) + Len(x) : g[j] = IF j <= Len(f) THEN f[j] ELSE x[j - Len(f)]
    <3>1. f \in Seq(Event) /\ x \in Seq(Event)
      BY <1>1, <1>5
    <3> QED BY <1>6, <3>1, ConcatProperties
  <2> QED BY <2>1, LenProperties
<1>8. i \in 1 .. Len(f) + Len(x) /\ g[i].src = "app"
  BY <1>3, <1>4, <1>6, <1>7 DEF Marks
<1>9. i <= Len(f)
  <2> SUFFICES ASSUME ~ (i <= Len(f)) PROVE FALSE
    OBVIOUS
  <2>1. i - Len(f) \in 1 .. Len(x) /\ g[i] = x[i - Len(f)]
    BY <1>5, <1>7, <1>8
  <2> QED BY <1>2, <1>8, <2>1
<1>10. i <= Len(q)
  <2> SUFFICES ASSUME ~ (i <= Len(q)) PROVE FALSE
    OBVIOUS
  <2>1. i - Len(q) \in 1 .. Len(p) /\ g[i] = f[i] /\ f[i] = p[i - Len(q)]
    BY <1>5, <1>7, <1>8, <1>9
  <2> QED BY <1>2, <1>8, <2>1
<1> QED BY <1>5, <1>8, <1>10 DEF q

(* Every mark is in front of the end of the way. *)
LEMMA BeforeTheEnd ==
  ASSUME NEW way \in Seq(Event), NEW s, NEW i \in Marks(s, way)
  PROVE  i < Len(way) + 1
BY LenProperties DEF Marks

(* drain_host_ui, drain_host_runtime_events and the look at the clock move *)
(* events along the way; a look at the clock puts a Timer event in.        *)
LEMMA Drains ==
  ASSUME TypeOK, NEW dirty \in BOOLEAN, NEW ok \in BOOLEAN,
         NEW u \in RtType, u.queue = UiQueued(rt, win, dirty, ok).queue
  PROVE  LET w == UiWin(win, dirty, ok)
         IN  /\ Ahead(u.queue, w) = Ahead(rt.queue, win)
             /\ \/ Ahead(Polled(u).queue, w) = Ahead(rt.queue, win)
                \/ \E k : Inserted(Ahead(rt.queue, win), Ahead(Polled(u).queue, w), k, Timer)
<1> DEFINE w == UiWin(win, dirty, ok)
<1>1. Ahead(u.queue, w) = Ahead(rt.queue, win)
  BY Values, UiAhead
<1>2. w \in WinType
  BY Values, UiIs
<1>3. Polled(u).queue \in {u.queue, Append(u.queue, Timer)}
  BY PolledIs
<1> HIDE DEF w
<1>4. u.queue \in Seq(Event)
  BY DEF RtType
<1>5. Inserted(Ahead(u.queue, w), Ahead(Append(u.queue, Timer), w), Len(u.queue) + 1, Timer)
  BY <1>2, <1>4, TimerIsEvent, InsertedAhead
<1> QED BY <1>1, <1>3, <1>5 DEF w

(* The head of a step. *)
LEMMA StepHeadMail ==
  ASSUME TypeOK, StepHead, [Next]_vars
  PROVE  MailMove /\ WindowMove
<1>1. rt \in RtType /\ win \in WinType /\ host \in HostType /\ host.dirty \in BOOLEAN
      /\ host.events = << >> /\ host.command = None
  BY Values, IdleHosts, HostIs
<1>2. PICK ok \in Presents(win, host.dirty) :
        LET drained == Drained(UiQueued(rt, win, host.dirty, ok), host)
        IN  /\ win' = UiWin(win, host.dirty, ok)
            /\ IF ok THEN rt' = Polled(drained) ELSE rt' = rt
  BY Zenon DEF StepHead
<1>3. ok \in BOOLEAN
  BY DEF Presents
<1> DEFINE r == UiQueued(rt, win, host.dirty, ok)
           u == Drained(r, host)
<1>4. r \in RtType
  BY <1>1, <1>3, UiIs
<1>5. u \in RtType /\ u.queue = r.queue
  <2> HIDE DEF r
  <2>1. r.queue \in Seq(Event)
    BY <1>4 DEF RtType
  <2>2. r.queue \o << >> = r.queue
    BY <2>1, ConcatEmptySeq
  <2> QED BY <1>1, <1>4, <2>2, DrainedIs
<1>6. UNCHANGED <<marked, seen>>
  BY DEF StepHead
<1>7. Way = Ahead(rt.queue, win) /\ Way' = Ahead(rt'.queue, win')
  BY WayIs
<1>8. MailMove
  <2>1. CASE ok
    <3>1. rt' = Polled(u) /\ win' = UiWin(win, host.dirty, ok)
      BY <1>2, <2>1
    <3> HIDE DEF u
    <3>2. \/ Ahead(Polled(u).queue, win') = Ahead(rt.queue, win)
          \/ \E k : Inserted(Ahead(rt.queue, win), Ahead(Polled(u).queue, win'), k, Timer)
      BY <1>1, <1>3, <1>5, <3>1, Drains
    <3> QED BY <1>6, <1>7, <3>1, <3>2 DEF MailMove
  <2>2. CASE ~ok
    <3>1. rt' = rt /\ win' = UiWin(win, host.dirty, ok)
      BY <1>2, <2>2
    <3>2. r.queue = rt.queue
      BY <1>1, <1>3, <2>2, UiIs
    <3>3. Ahead(rt.queue, win') = Ahead(rt.queue, win)
      BY <1>1, <1>3, <3>1, <3>2, Drains
    <3> QED BY <1>6, <1>7, <3>1, <3>3 DEF MailMove
  <2> QED BY <1>3, <2>1, <2>2
<1>9. WindowMove
  BY <1>1, <1>6, StepHeadIs DEF WindowMove
<1> QED BY <1>8, <1>9

(* The top of drive_runtime_events. *)
LEMMA TopMail ==
  ASSUME TypeOK, Top, [Next]_vars
  PROVE  MailMove /\ WindowMove
<1>1. rt \in RtType /\ win \in WinType /\ host.dirty \in BOOLEAN
  BY Values
<1>2. PICK ok \in Presents(win, host.dirty) :
        /\ win' = UiWin(win, host.dirty, ok)
        /\ IF ok THEN rt' = Polled(UiQueued(rt, win, host.dirty, ok)) ELSE rt' = rt
  BY Zenon DEF Top
<1>3. ok \in BOOLEAN
  BY DEF Presents
<1> DEFINE u == UiQueued(rt, win, host.dirty, ok)
<1>4. u \in RtType
  BY <1>1, <1>3, UiIs
<1>6. UNCHANGED <<marked, seen>>
  BY DEF Top
<1>7. Way = Ahead(rt.queue, win) /\ Way' = Ahead(rt'.queue, win')
  BY WayIs
<1>8. MailMove
  <2>1. CASE ok
    <3>1. rt' = Polled(u) /\ win' = UiWin(win, host.dirty, ok)
      BY <1>2, <2>1
    <3>2. \/ Ahead(Polled(u).queue, win') = Ahead(rt.queue, win)
          \/ \E k : Inserted(Ahead(rt.queue, win), Ahead(Polled(u).queue, win'), k, Timer)
      BY <1>1, <1>3, <1>4, <3>1, Drains
    <3> QED BY <1>6, <1>7, <3>1, <3>2 DEF MailMove
  <2>2. CASE ~ok
    <3>1. rt' = rt /\ win' = UiWin(win, host.dirty, ok)
      BY <1>2, <2>2
    <3>2. u.queue = rt.queue
      BY <1>1, <1>3, <2>2, UiIs
    <3>3. Ahead(rt.queue, win') = Ahead(rt.queue, win)
      BY <1>1, <1>3, <3>1, <3>2, Drains
    <3> QED BY <1>6, <1>7, <3>1, <3>3 DEF MailMove
  <2> QED BY <1>3, <2>1, <2>2
<1>9. WindowMove
  BY <1>1, <1>6, TopIs DEF WindowMove
<1> QED BY <1>8, <1>9

(* A host function that leaves the host as h. *)
LEMMA HostReturnsMail ==
  ASSUME TypeOK, NEW h \in HostType, HostReturns(h), [Next]_vars
  PROVE  /\ h.events = << >> => Way' = Way
         /\ \A e \in Event : h.events = Append(<< >>, e) =>
              Inserted(Way, Way', Len(rt.queue) + 1, e)
<1>1. rt \in RtType /\ win \in WinType /\ rt.queue \in Seq(Event)
      /\ h.dirty \in BOOLEAN /\ h.events \in Seq(Event)
  BY Values DEF HostType
<1>2. PICK ok \in Presents(win, h.dirty) :
        /\ rt' = UiQueued(Drained(rt, h), win, h.dirty, ok)
        /\ win' = UiWin(win, h.dirty, ok)
  BY Zenon DEF HostReturns
<1>3. ok \in BOOLEAN
  BY DEF Presents
<1>4. PICK d : d = Drained(rt, h)
  OBVIOUS
<1>5. d \in RtType /\ d.queue = rt.queue \o h.events
  BY <1>1, <1>4, DrainedIs
<1>6. Ahead(rt'.queue, win') = Ahead(d.queue, win)
  BY <1>1, <1>2, <1>3, <1>4, <1>5, UiAhead
<1>7. Way = Ahead(rt.queue, win) /\ Way' = Ahead(rt'.queue, win')
  BY WayIs
<1>8. h.events = << >> => d.queue = rt.queue
  BY <1>1, <1>5, ConcatEmptySeq
<1>9. ASSUME NEW e \in Event, h.events = Append(<< >>, e)
      PROVE  Inserted(Way, Way', Len(rt.queue) + 1, e)
  <2>1. d.queue = Append(rt.queue, e)
    <3>1. << >> \in Seq(Event)
      BY EmptySeq
    <3>2. Append(<< >>, e) = << >> \o <<e>> /\ Append(rt.queue, e) = rt.queue \o <<e>>
      BY <1>1, <3>1, AppendIsConcat
    <3>3. << >> \o <<e>> = <<e>>
      BY ConcatEmptySeq
    <3> QED BY <1>5, <1>9, <3>2, <3>3
  <2> QED BY <1>1, <1>6, <1>7, <2>1, InsertedAhead
<1> QED BY <1>6, <1>7, <1>8, <1>9

(* A call of a host function: an application event is put behind the queue *)
(* and in front of what the user has done.                                 *)
LEMMA HostCallMail ==
  ASSUME TypeOK, UserEvents, HostCall, [Next]_vars
  PROVE  MailMove /\ WindowMove
<1>1. /\ host \in HostType /\ host.events = << >>
      /\ seen' = seen /\ \E dirty, ok \in BOOLEAN : Shows(dirty, ok)
  BY Values, IdleHosts, HostIs, HostCallIs
<1>2. marked \in [Sources -> 0 .. MaxMark] /\ "app" \in Sources /\ "quit" \in Sources
  BY DEF TypeOK, Sources
<1>3. ASSUME NEW h \in HostType, HostReturns(h), h.events = << >>, marked' = marked
      PROVE  MailMove /\ WindowMove
  <2>1. Way' = Way
    BY <1>3, HostReturnsMail
  <2> QED BY <1>1, <1>3, <2>1 DEF MailMove, WindowMove
<1>4. CASE TimerStart
  <2>1. PICK delay \in Delays : HostReturns([host EXCEPT !.command = delay])
    BY <1>4, Zenon DEF TimerStart
  <2>2. [host EXCEPT !.command = delay] \in HostType
        /\ [host EXCEPT !.command = delay].events = << >>
    BY <1>1, Requests DEF HostType
  <2>3. marked' = marked
    BY <1>4, Zenon DEF TimerStart
  <2> QED BY <1>3, <2>1, <2>2, <2>3, Zenon
<1>5. CASE TimerStop
  <2>1. HostReturns([host EXCEPT !.command = Stop]) /\ marked' = marked
    BY <1>5, Zenon DEF TimerStop
  <2>2. [host EXCEPT !.command = Stop] \in HostType
        /\ [host EXCEPT !.command = Stop].events = << >>
    BY <1>1, Requests DEF HostType
  <2> QED BY <1>3, <2>1, <2>2, Zenon
<1>6. CASE Exit
  <2>1. HostReturns([host EXCEPT !.exit = TRUE]) /\ marked' = marked
    BY <1>6, Zenon DEF Exit
  <2>2. [host EXCEPT !.exit = TRUE] \in HostType /\ [host EXCEPT !.exit = TRUE].events = << >>
    BY <1>1, Requests DEF HostType
  <2> QED BY <1>3, <2>1, <2>2, Zenon
<1>7. CASE Draw
  <2>1. HostReturns([host EXCEPT !.dirty = TRUE]) /\ marked' = marked
    BY <1>7, Zenon DEF Draw
  <2>2. [host EXCEPT !.dirty = TRUE] \in HostType /\ [host EXCEPT !.dirty = TRUE].events = << >>
    BY <1>1, Requests DEF HostType
  <2> QED BY <1>3, <2>1, <2>2, Zenon
<1>8. CASE OtherCall
  <2>1. HostReturns(host) /\ marked' = marked
    BY <1>8, Zenon DEF OtherCall
  <2> QED BY <1>1, <1>3, <2>1, Zenon
<1>9. CASE SendAppEvent
  <2>1. PICK tag \in Tags("app") :
          /\ HostReturns([host EXCEPT !.events = Append(@, [src |-> "app", tag |-> tag])])
          /\ Marking("app", tag)
    BY <1>9, Zenon DEF SendAppEvent
  <2>2. PICK e : e = [src |-> "app", tag |-> tag]
    OBVIOUS
  <2>3. e \in Event
    BY <1>2, <2>2, TagsAre DEF Event
  <2>4. PICK h : h = [host EXCEPT !.events = Append(@, e)]
    OBVIOUS
  <2>5. h \in HostType
    BY <2>3, <2>4, Requests
  <2>6. PICK es : es = Append(host.events, e)
    OBVIOUS
  <2>7. h.events = es
    <3>1. h = [host EXCEPT !.events = es]
      BY <2>4, <2>6
    <3> QED BY <1>1, <3>1 DEF HostType
  <2>8. h.events = Append(<< >>, e)
    BY <1>1, <2>6, <2>7
  <2>9. HostReturns(h)
    BY <2>1, <2>2, <2>4
  <2>10. Inserted(Way, Way', Len(rt.queue) + 1, e)
    BY <2>3, <2>5, <2>8, <2>9, HostReturnsMail
  <2>11. \A i \in Marks("app", Way) : i < Len(rt.queue) + 1
    BY AheadOfUser
  <2>12. MailMove
    BY <1>1, <1>2, <2>1, <2>2, <2>10, <2>11 DEF MailMove
  <2>13. marked'["quit"] = marked["quit"]
    BY <1>2, <2>1 DEF Marking
  <2> QED BY <1>1, <2>12, <2>13 DEF WindowMove
<1> QED BY <1>4, <1>5, <1>6, <1>7, <1>8, <1>9 DEF HostCall

(* What the user does arrives at the end of the way. *)
LEMMA UserMail ==
  ASSUME TypeOK, [Next]_vars, rt' = rt, seen' = seen,
         NEW s \in {"key", "quit"}, NEW tag \in Tags(s),
         Posted([src |-> s, tag |-> tag]), Marking(s, tag)
  PROVE  MailMove /\ WindowMove
<1> DEFINE e == [src |-> s, tag |-> tag]
<1>1. s \in Sources /\ e \in Event /\ e.src = s
  <2>1. s \in Sources
    BY DEF Sources
  <2> QED BY <2>1, TagsAre DEF Event
<1>2. /\ win \in WinType /\ rt.queue \in Seq(Event) /\ win.inbox \in Seq(Event)
      /\ marked \in [Sources -> 0 .. MaxMark]
  BY Values DEF WinType, TypeOK
<1>3. Posted(e)
  OBVIOUS
<1> HIDE DEF e
<1>4. win' \in WinType /\ win'.pending = win.pending /\ win'.inbox = Append(win.inbox, e)
  <2>1. win' \in WinType /\ win'.pending = win.pending
    BY <1>1, <1>3, PostedIs
  <2>2. PICK x : x = Append(win.inbox, e)
    OBVIOUS
  <2>3. win' = [win EXCEPT !.inbox = x]
    BY <1>3, <2>2 DEF Posted
  <2> QED BY <1>2, <2>1, <2>2, <2>3 DEF WinType
<1>5. Way = Ahead(rt.queue, win) /\ Way' = Ahead(rt.queue, win')
  BY WayIs
<1>6. Inserted(Way, Way', Len(Way) + 1, e)
  BY <1>1, <1>2, <1>4, <1>5, InsertedAhead
<1>7. \A i \in Marks(s, Way) : i < Len(Way) + 1
  <2>1. Way \in Seq(Event)
    BY <1>6 DEF Inserted
  <2> QED BY <2>1, BeforeTheEnd
<1>8. MailMove
  BY <1>1, <1>6, <1>7 DEF MailMove, e
<1>9. s = "key" => marked'["quit"] = marked["quit"]
  BY <1>2 DEF Marking, Sources
<1> QED BY <1>1, <1>3, <1>8, <1>9 DEF WindowMove

(* Every step, by what it does to the way and the window. *)
LEMMA MailMoves ==
  ASSUME TypeOK, UserEvents, QuitOnce, [Next]_vars
  PROVE  MailMove /\ WindowMove
<1>1. CASE StepHead
  BY <1>1, StepHeadMail
<1>2. CASE HostCall
  BY <1>2, HostCallMail
<1>3. CASE Top
  BY <1>3, TopMail
<1>4. CASE Dispatch
  <2>1. rt'.queue = Tail(rt.queue) /\ rt.queue # << >> /\ rt.queue \in Seq(Event)
    BY <1>4, DispatchIs, Values DEF Dispatch
  <2>2. win' = win /\ marked' = marked /\ Told(Head(rt.queue))
    BY <1>4 DEF Dispatch, Told
  <2>3. Way = Ahead(rt.queue, win) /\ Way' = Ahead(rt'.queue, win')
    BY WayIs
  <2>4. Inserted(Way', Way, 1, Head(rt.queue))
    BY <2>1, <2>2, <2>3, Values, TimerIsEvent, InsertedAhead
  <2> QED BY <2>2, <2>4 DEF MailMove, WindowMove
<1>5. CASE Wait
  <2>1. /\ rt' = UiQueued(rt, win, FALSE, TRUE) /\ win' = UiWin(win, FALSE, TRUE)
        /\ UNCHANGED <<marked, seen>>
    BY <1>5 DEF Wait
  <2>2. Way = Ahead(rt.queue, win) /\ Way' = Ahead(rt'.queue, win')
    BY WayIs
  <2>3. Way' = Way
    BY <2>1, <2>2, Values, UiAhead
  <2>4. Shows(FALSE, TRUE)
    BY <2>1, Values, UiIs DEF Shows
  <2> QED BY <2>1, <2>3, <2>4 DEF MailMove, WindowMove
<1>6. CASE UserInput
  <2>1. rt' = rt /\ seen' = seen
    BY <1>6 DEF UserInput
  <2>2. PICK tag \in Tags("key") : Posted([src |-> "key", tag |-> tag]) /\ Marking("key", tag)
    BY <1>6, Zenon DEF UserInput
  <2> QED BY <2>1, <2>2, UserMail
<1>7. CASE UserCloses
  <2>1. /\ rt' = rt /\ seen' = seen /\ win.mode = "open" /\ ~ QuitPosted
        /\ Posted([src |-> "quit", tag |-> 1]) /\ Marking("quit", 1)
    BY <1>7, Zenon DEF UserCloses
  <2>2. 1 \in Tags("quit")
    <3>1. marked["quit"] \in Nat /\ MaxMark \in Nat \ {0}
      BY LimitAssumption DEF TypeOK, Sources
    <3> QED BY <2>1, <3>1 DEF QuitOnce, Tags
  <2> QED BY <2>1, <2>2, UserMail
<1>8. CASE \/ BudgetExhausted \/ GuestStep \/ Fault \/ RunMrp \/ Repoll \/ GiveUp \/ Wake
           \/ Tick \/ LimitPasses \/ Over \/ UNCHANGED vars
  <2>1. UNCHANGED <<win, marked, seen>> /\ rt'.queue = rt.queue
    <3>1. CASE Tick
      <4>1. PICK l : rt' = [rt EXCEPT !.lag = l]
        BY <3>1 DEF Tick
      <4> QED BY <3>1, <4>1, Values DEF Tick, RtType
    <3>2. CASE ~ Tick
      BY <1>8, <3>2, Zenon DEF BudgetExhausted, GuestStep, Fault, RunMrp, NextStage,
         EnterDrive, ReturnUndriven, Repoll, GiveUp, Wake, LimitPasses, Over, vars
    <3> QED BY <3>1, <3>2
  <2>2. Way' = Way
    BY <2>1, WayIs
  <2> QED BY <2>1, <2>2 DEF MailMove, WindowMove
<1> QED BY <1>1, <1>2, <1>3, <1>4, <1>5, <1>6, <1>7, <1>8, Zenon
        DEF Next, Runner, RunLoop, Drive, World

(* The window goes on holding events of the user only, and its closing is  *)
(* marked but once.                                                        *)
LEMMA WindowStep ==
  ASSUME TypeOK, UserEvents, QuitOnce, WindowMove
  PROVE  UserEvents' /\ QuitOnce'
<1>1. /\ win \in WinType /\ win.pending \in Seq(Event) /\ win.inbox \in Seq(Event)
      /\ Len(<< >>) = 0
  BY Values DEF WinType
<1>2. CASE win' = win /\ marked'["quit"] = marked["quit"]
  BY <1>2 DEF UserEvents, QuitOnce, QuitPosted
<1>3. CASE (\E dirty, ok \in BOOLEAN : Shows(dirty, ok)) /\ marked'["quit"] = marked["quit"]
  <2>1. PICK dirty \in BOOLEAN, ok \in BOOLEAN : Shows(dirty, ok)
    BY <1>3
  <2> DEFINE s == Shown(win, dirty)
  <2>2. /\ win'.mode = s.mode /\ win'.inbox = s.inbox
        /\ win'.pending = IF ok THEN << >> ELSE s.pending
    BY <2>1 DEF Shows
  <2>3. s = win \/ (s = Pumped(win) /\ win.mode # "none")
    BY DEF Shown, Pumped
  <2>4. \/ s = win
        \/ /\ s.inbox = << >> /\ s.pending = win.pending \o win.inbox
           /\ s.mode = IF QuitPosted THEN "closed" ELSE win.mode
    <3>1. ASSUME win.mode # "none"
          PROVE  /\ Pumped(win).inbox = << >> /\ Pumped(win).pending = win.pending \o win.inbox
                 /\ Pumped(win).mode = IF QuitPosted THEN "closed" ELSE win.mode
      <4>1. PICK m, l : l = win.pending \o win.inbox /\ m = IF QuitPosted THEN "closed" ELSE win.mode
        OBVIOUS
      <4>2. Pumped(win) = [mode |-> m, inbox |-> << >>, pending |-> l]
        BY <3>1, <4>1, Zenon DEF Pumped, QuitPosted
      <4>3. Pumped(win).inbox = << >> /\ Pumped(win).pending = l /\ Pumped(win).mode = m
        BY <4>2
      <4> QED BY <4>1, <4>3
    <3> HIDE DEF s
    <3> QED BY <2>3, <3>1
  <2> HIDE DEF s
  <2>5. \A i \in 1 .. Len(win.pending \o win.inbox) :
          (win.pending \o win.inbox)[i].src \in {"key", "quit"}
    <3>1. PICK p, x, f : p = win.pending /\ x = win.inbox /\ f = p \o x
      OBVIOUS
    <3>2. /\ Len(f) = Len(p) + Len(x) /\ Len(p) \in Nat /\ Len(x) \in Nat
          /\ \A j \in 1 .. Len(p) + Len(x) : f[j] = IF j <= Len(p) THEN p[j] ELSE x[j - Len(p)]
      <4>1. p \in Seq(Event) /\ x \in Seq(Event)
        BY <1>1, <3>1
      <4> QED BY <3>1, <4>1, ConcatProperties, LenProperties
    <3>3. /\ \A j \in 1 .. Len(p) : p[j].src \in {"key", "quit"}
          /\ \A j \in 1 .. Len(x) : x[j].src \in {"key", "quit"}
      BY <3>1 DEF UserEvents
    <3>4. ASSUME NEW i \in 1 .. Len(f) PROVE f[i].src \in {"key", "quit"}
      <4>1. CASE i <= Len(p)
        BY <3>2, <3>3, <4>1
      <4>2. CASE ~ (i <= Len(p))
        <5>1. i - Len(p) \in 1 .. Len(x) /\ f[i] = x[i - Len(p)]
          BY <3>2, <4>2
        <5> QED BY <3>3, <5>1
      <4> QED BY <4>1, <4>2
    <3> QED BY <3>1, <3>4
  <2>6. UserEvents'
    <3>1. CASE s = win
      BY <1>1, <2>2, <3>1 DEF UserEvents
    <3>2. CASE s.inbox = << >> /\ s.pending = win.pending \o win.inbox
      <4>1. \A i \in 1 .. Len(s.pending) : s.pending[i].src \in {"key", "quit"}
        BY <2>5, <3>2
      <4>2. \A i \in 1 .. Len(<< >>) : << >>[i].src \in {"key", "quit"}
        BY <1>1
      <4>3. win'.inbox = << >> /\ (win'.pending = << >> \/ win'.pending = s.pending)
        BY <2>2, <3>2
      <4> QED BY <4>1, <4>2, <4>3, Zenon DEF UserEvents
    <3> QED BY <2>4, <3>1, <3>2
  <2>7. QuitOnce'
    <3>1. CASE s = win
      BY <1>3, <2>2, <3>1 DEF QuitOnce, QuitPosted
    <3>2. CASE s.mode = IF QuitPosted THEN "closed" ELSE win.mode
      BY <1>3, <2>2, <3>2 DEF QuitOnce
    <3> QED BY <2>4, <3>1, <3>2
  <2> QED BY <2>6, <2>7
<1>4. CASE \E e \in Event : Posted(e) /\ e.src \in {"key", "quit"}
                            /\ (e.src = "key" => marked'["quit"] = marked["quit"])
  <2>1. PICK e \in Event : Posted(e) /\ e.src \in {"key", "quit"}
                           /\ (e.src = "key" => marked'["quit"] = marked["quit"])
    BY <1>4
  <2>2. win'.mode = win.mode /\ win'.pending = win.pending
    BY <2>1, PostedIs
  <2>3. PICK x : x = Append(win.inbox, e)
    OBVIOUS
  <2>4. win'.inbox = x
    <3>1. win' = [win EXCEPT !.inbox = x]
      BY <2>1, <2>3 DEF Posted
    <3> QED BY <1>1, <3>1 DEF WinType
  <2>5. /\ Len(x) = Len(win.inbox) + 1 /\ x[Len(win.inbox) + 1] = e /\ Len(win.inbox) \in Nat
        /\ \A i \in 1 .. Len(win.inbox) : x[i] = win.inbox[i]
        /\ DOMAIN x = 1 .. Len(x) /\ DOMAIN win.inbox = 1 .. Len(win.inbox)
    <3>1. x \in Seq(Event)
      BY <1>1, <2>3, AppendProperties
    <3> QED BY <1>1, <2>3, <3>1, AppendProperties, LenProperties
  <2>6. UserEvents'
    <3>1. \A i \in 1 .. Len(win.inbox) : x[i].src \in {"key", "quit"}
      BY <2>5 DEF UserEvents
    <3>2. \A i \in 1 .. Len(x) : i \in 1 .. Len(win.inbox) \/ i = Len(win.inbox) + 1
      BY <2>5
    <3>3. \A i \in 1 .. Len(x) : x[i].src \in {"key", "quit"}
      BY <2>1, <2>5, <3>1, <3>2, Zenon
    <3> QED BY <2>2, <2>4, <3>3 DEF UserEvents
  <2>7. QuitOnce'
    <3>1. CASE e.src = "quit"
      <4>1. Len(win.inbox) + 1 \in DOMAIN x
        BY <2>5
      <4>2. QuitPosted'
        BY <2>4, <2>5, <3>1, <4>1 DEF QuitPosted
      <4> QED BY <4>2 DEF QuitOnce
    <3>2. CASE e.src # "quit"
      <4>1. marked'["quit"] = marked["quit"]
        BY <2>1, <3>2
      <4>2. QuitPosted => QuitPosted'
        BY <2>4, <2>5 DEF QuitPosted
      <4> QED BY <2>2, <4>1, <4>2 DEF QuitOnce
    <3> QED BY <3>1, <3>2
  <2> QED BY <2>6, <2>7
<1> QED BY <1>2, <1>3, <1>4 DEF WindowMove

LEMMA MailInit ==
  ASSUME Init
  PROVE  MailInv
<1>1. /\ rt.queue = << >> /\ host.events = << >> /\ win.inbox = << >> /\ win.pending = << >>
      /\ \A s \in Sources : marked[s] = 0 /\ seen[s] = << >>
  BY DEF Init
<1>2. Len(<< >>) = 0 /\ << >> \in Seq(Event)
  BY EmptySeq
<1>3. UserEvents /\ QuitOnce
  BY <1>1, <1>2 DEF UserEvents, QuitOnce, Sources
<1>4. Way = << >>
  BY <1>1, <1>2, ConcatEmptySeq DEF Way
<1>5. \A s : Marks(s, << >>) = {}
  BY <1>2 DEF Marks
<1>6. \A s : InOrder(s, Way, 1, 0)
  BY <1>4, <1>5 DEF InOrder
<1>7. << >> = [i \in 1 .. 0 |-> i]
  OBVIOUS
<1>8. EventsInOrder
  BY <1>1, <1>2, <1>6, <1>7 DEF EventsInOrder
<1> QED BY <1>3, <1>8 DEF MailInv

(* Events of a source reach the guest's helper in the order in which they  *)
(* arose, each at most once, and those not dispatched yet are on their way *)
(* in that order: drain_host_ui, drain_host_runtime_events and poll_timers *)
(* neither lose, repeat nor overtake, whether or not a frame was presented.*)
THEOREM EventsStayInOrder == Spec => []EventsInOrder
<1>1. Init => MailInv
  BY MailInit
<1>2. TypeOK /\ MailInv /\ [Next]_vars => MailInv'
  <2> SUFFICES ASSUME TypeOK, MailInv, [Next]_vars PROVE MailInv'
    OBVIOUS
  <2>1. EventsInOrder /\ UserEvents /\ QuitOnce
    BY DEF MailInv
  <2>2. MailMove /\ WindowMove
    BY <2>1, MailMoves
  <2>3. EventsInOrder' /\ UserEvents' /\ QuitOnce'
    BY <2>1, <2>2, EventsStep, WindowStep
  <2> QED BY <2>3 DEF MailInv
<1>3. MailInv => EventsInOrder
  BY DEF MailInv
<1> QED BY <1>1, <1>2, <1>3, LoopTypes, PTL DEF Spec

-----------------------------------------------------------------------------
(* Progress: what brings an event nearer to its dispatch, and a runner     *)
(* whose guest asked to exit nearer to its end.                            *)

(* Nothing waits to be presented between two steps, a window that is not   *)
(* open has no messages, and a guest that asked to exit is not stepped.    *)
Calm ==
  /\ ~ host.dirty
  /\ win.mode # "open" => win.inbox = << >>
  /\ host.exit => ctl.at # "exec"

LEMMA CalmWindow ==
  ASSUME TypeOK, Calm, NEW dirty \in BOOLEAN, NEW ok \in BOOLEAN, Shows(dirty, ok)
  PROVE  win'.mode # "open" => win'.inbox = << >>
<1>1. Shown(win, dirty) = win \/ Shown(win, dirty).inbox = << >>
  BY Values, ShownIs
<1>2. win'.mode = Shown(win, dirty).mode /\ win'.inbox = Shown(win, dirty).inbox
  BY DEF Shows
<1> QED BY <1>1, <1>2 DEF Calm

(* What a call of the host leaves for the next step. *)
LEMMA CalmReturns ==
  ASSUME TypeOK, NEW h \in HostType, HostReturns(h)
  PROVE  /\ ~ host'.dirty /\ host'.exit = h.exit
         /\ ctl' = [ctl EXCEPT !.at = ctl.back, !.left = 0]
              \/ ctl' = [ctl EXCEPT !.at = "head", !.left = @ - 1]
         /\ ctl.at = "exec"
<1>1. host' = NoRequests(Undirtied(h))
  BY Zenon DEF HostReturns
<1>2. h = [command |-> h.command, events |-> h.events, dirty |-> h.dirty, exit |-> h.exit]
  BY DEF HostType
<1>3. NoRequests(Undirtied(h)) = [command |-> None, events |-> << >>,
                                  dirty |-> FALSE, exit |-> h.exit]
  BY <1>2, Reset, Zenon
<1>4. ~ host'.dirty /\ host'.exit = h.exit
  BY <1>1, <1>3
<1>5. ctl.at = "exec" /\ (StepDone \/ EndStage)
  BY Zenon DEF HostReturns
<1> QED BY <1>4, <1>5 DEF StepDone, EndStage

(* A call of the host, by the host it leaves. *)
LEMMA CallLeaves ==
  ASSUME TypeOK, HostCall
  PROVE  \E h \in HostType :
           /\ HostReturns(h)
           /\ \/ h.events = << >>
              \/ h.dirty = host.dirty /\ \E e \in Event : h.events = Append(<< >>, e)
<1>1. host \in HostType /\ host.events = << >>
  BY Values, IdleHosts, HostIs
<1>2. CASE TimerStart
  <2>1. PICK delay \in Delays : HostReturns([host EXCEPT !.command = delay])
    BY <1>2, Zenon DEF TimerStart
  <2>2. [host EXCEPT !.command = delay] \in HostType
        /\ [host EXCEPT !.command = delay].events = << >>
    BY <1>1, Requests DEF HostType
  <2> QED BY <2>1, <2>2, Zenon
<1>3. CASE TimerStop
  <2>1. HostReturns([host EXCEPT !.command = Stop])
    BY <1>3, Zenon DEF TimerStop
  <2>2. [host EXCEPT !.command = Stop] \in HostType
        /\ [host EXCEPT !.command = Stop].events = << >>
    BY <1>1, Requests DEF HostType
  <2> QED BY <2>1, <2>2, Zenon
<1>4. CASE Exit
  <2>1. HostReturns([host EXCEPT !.exit = TRUE])
    BY <1>4, Zenon DEF Exit
  <2>2. [host EXCEPT !.exit = TRUE] \in HostType /\ [host EXCEPT !.exit = TRUE].events = << >>
    BY <1>1, Requests DEF HostType
  <2> QED BY <2>1, <2>2, Zenon
<1>5. CASE Draw
  <2>1. HostReturns([host EXCEPT !.dirty = TRUE])
    BY <1>5, Zenon DEF Draw
  <2>2. [host EXCEPT !.dirty = TRUE] \in HostType /\ [host EXCEPT !.dirty = TRUE].events = << >>
    BY <1>1, Requests DEF HostType
  <2> QED BY <2>1, <2>2, Zenon
<1>6. CASE OtherCall
  <2>1. HostReturns(host)
    BY <1>6, Zenon DEF OtherCall
  <2> QED BY <1>1, <2>1, Zenon
<1>7. CASE SendAppEvent
  <2>1. PICK tag \in Tags("app") :
          HostReturns([host EXCEPT !.events = Append(@, [src |-> "app", tag |-> tag])])
    BY <1>7, Zenon DEF SendAppEvent
  <2>2. PICK e : e = [src |-> "app", tag |-> tag]
    OBVIOUS
  <2>3. e \in Event
    <3>1. "app" \in Sources
      BY DEF Sources
    <3> QED BY <2>2, <3>1, TagsAre DEF Event
  <2>4. PICK h, es : es = Append(host.events, e) /\ h = [host EXCEPT !.events = es]
    OBVIOUS
  <2>5. h \in HostType
    BY <2>3, <2>4, Requests
  <2>6. h.events = es /\ h.dirty = host.dirty
    BY <1>1, <2>4 DEF HostType
  <2>7. h.events = Append(<< >>, e)
    BY <1>1, <2>4, <2>6
  <2>8. HostReturns(h)
    BY <2>1, <2>2, <2>4
  <2> QED BY <2>3, <2>5, <2>6, <2>7, <2>8
<1> QED BY <1>2, <1>3, <1>4, <1>5, <1>6, <1>7 DEF HostCall

LEMMA CalmStep ==
  ASSUME TypeOK, Calm, [Next]_vars
  PROVE  Calm'
<1>1. /\ ~ host.dirty /\ (win.mode # "open" => win.inbox = << >>)
      /\ (host.exit => ctl.at # "exec")
  BY DEF Calm
<1>2. host \in IdleHost /\ host \in HostType /\ ctl \in CtlType /\ win \in WinType
  BY Values, IdleHosts
<1>3. CASE HostCall
  <2>1. PICK h \in HostType : HostReturns(h)
    BY <1>3, CallLeaves
  <2>2. PICK dirty \in BOOLEAN, ok \in BOOLEAN : Shows(dirty, ok)
    BY <1>3, HostCallIs
  <2>3. ctl'.at # "exec"
    BY <1>2, <2>1, CalmReturns DEF CtlType
  <2> QED BY <2>1, <2>2, <2>3, CalmReturns, CalmWindow DEF Calm
<1>4. CASE StepHead
  <2>1. PICK ok \in BOOLEAN : Shows(host.dirty, ok)
    BY <1>4, StepHeadIs
  <2>2. win'.mode # "open" => win'.inbox = << >>
    BY <1>2, <2>1, CalmWindow DEF IdleHost
  <2>3. host' = NoRequests(Undirtied(host)) \/ host' = Undirtied(host)
    BY <1>4, Zenon DEF StepHead
  <2>4. host = [command |-> host.command, events |-> host.events,
                dirty |-> host.dirty, exit |-> host.exit]
    BY <1>2 DEF HostType
  <2>5. ~ host'.dirty /\ host'.exit = host.exit
    <3>1. /\ Undirtied(host) = [command |-> host.command, events |-> host.events,
                                dirty |-> FALSE, exit |-> host.exit]
          /\ NoRequests(Undirtied(host)) = [command |-> None, events |-> << >>,
                                            dirty |-> FALSE, exit |-> host.exit]
      BY <2>4, Reset, Zenon
    <3> QED BY <2>3, <3>1
  <2>6. host.exit => ctl'.at # "exec"
    <3>1. host.exit => EndStage
      BY <1>4, Zenon DEF StepHead, MayStep
    <3> QED BY <1>2, <3>1 DEF EndStage, CtlType
  <2> QED BY <2>2, <2>5, <2>6 DEF Calm
<1>5. CASE Top
  <2>1. PICK ok \in BOOLEAN : Shows(host.dirty, ok)
    BY <1>5, TopIs
  <2>2. win'.mode # "open" => win'.inbox = << >>
    BY <1>2, <2>1, CalmWindow DEF IdleHost
  <2>3. host' = Undirtied(host)
    BY <1>5, Zenon DEF Top
  <2>4. ~ host'.dirty
    BY <1>2, <2>3 DEF HostType, Undirtied
  <2>5. ctl'.at # "exec"
    BY <1>2, <1>5, TopIs DEF CtlType
  <2> QED BY <2>2, <2>4, <2>5 DEF Calm
<1>6. CASE Wait
  <2>1. Shows(FALSE, TRUE)
    <3>1. win' = UiWin(win, FALSE, TRUE)
      BY <1>6 DEF Wait
    <3> QED BY <3>1, Values, UiIs DEF Shows
  <2>2. win'.mode # "open" => win'.inbox = << >>
    BY <2>1, CalmWindow
  <2>3. host' = host /\ Idles
    BY <1>6 DEF Wait, Sleeps, Idles
  <2>4. ctl'.at # "exec"
    BY <1>2, <2>3 DEF CtlType, Idles
  <2> QED BY <1>1, <2>2, <2>3, <2>4 DEF Calm
<1>7. CASE UserInput \/ UserCloses
  <2>1. UNCHANGED <<host, ctl>> /\ win.mode = "open" /\ win'.mode = win.mode
    <3>1. UNCHANGED <<host, ctl>> /\ win.mode = "open" /\ \E e : Posted(e)
      BY <1>7, Zenon DEF UserInput, UserCloses
    <3>2. PICK e : Posted(e)
      BY <3>1
    <3> QED BY <1>2, <3>1, <3>2 DEF Posted, WinType
  <2> QED BY <1>1, <2>1 DEF Calm
<1>8. CASE \/ BudgetExhausted \/ GuestStep \/ Fault \/ RunMrp \/ Dispatch \/ Repoll
           \/ GiveUp \/ Wake
  <2>1. UNCHANGED <<host, win>>
    BY <1>8, Zenon DEF BudgetExhausted, GuestStep, Fault, RunMrp, NextStage, EnterDrive,
          ReturnUndriven, Dispatch, Repoll, GiveUp, Wake
  <2>2. ctl'.at # "exec"
    BY <1>2, <1>8 DEF BudgetExhausted, GuestStep, Fault, RunMrp, NextStage, EnterDrive,
          ReturnUndriven, Dispatch, Repoll, GiveUp, Wake, EndStage, StepDone, AfterEvents, CtlType
  <2> QED BY <1>1, <2>1, <2>2 DEF Calm
<1>9. CASE Tick \/ LimitPasses \/ Over \/ UNCHANGED vars
  <2>1. UNCHANGED <<host, win, ctl>>
    BY <1>9, Zenon DEF Tick, LimitPasses, Over, vars
  <2> QED BY <1>1, <2>1 DEF Calm
<1> QED BY <1>3, <1>4, <1>5, <1>6, <1>7, <1>8, <1>9, Zenon
        DEF Next, Runner, RunLoop, Drive, World

(* With nothing to present, the window is always pumped, and what it holds *)
(* goes to the queue. *)
LEMMA Pumps ==
  ASSUME TypeOK, Calm
  PROVE  /\ Presents(win, FALSE) = {TRUE}
         /\ LET s == Shown(win, FALSE)
            IN  s.inbox = << >> /\ s.pending = win.pending \o win.inbox
<1>1. win \in WinType /\ win.pending \in Seq(Event)
  BY Values DEF WinType
<1>2. Presents(win, FALSE) = {TRUE}
  BY DEF Presents
<1>3. Shown(win, FALSE) = Pumped(win)
  BY DEF Shown
<1>4. CASE win.mode = "none"
  <2>1. Pumped(win) = win /\ win.inbox = << >>
    BY <1>4 DEF Pumped, Calm
  <2>2. win.pending \o << >> = win.pending
    BY <1>1, ConcatEmptySeq
  <2> QED BY <1>2, <1>3, <2>1, <2>2
<1>5. CASE win.mode # "none"
  <2>1. PICK m, l : l = win.pending \o win.inbox /\ m = IF QuitPosted THEN "closed" ELSE win.mode
    OBVIOUS
  <2>2. Pumped(win) = [mode |-> m, inbox |-> << >>, pending |-> l]
    BY <1>5, <2>1, Zenon DEF Pumped, QuitPosted
  <2>3. Pumped(win).inbox = << >> /\ Pumped(win).pending = l
    BY <2>2
  <2> QED BY <1>2, <1>3, <2>1, <2>3
<1> QED BY <1>4, <1>5

(* Everything on the way is in the queue after the step, and a Timer event *)
(* behind it if the timer has run out. *)
Collects ==
  /\ rt'.queue = Way'
  /\ \/ Way' = Way /\ (rt'.due = None <=> rt.due = None)
     \/ Way' = Append(Way, Timer) /\ rt.due # None /\ rt'.due = None

LEMMA Collected ==
  ASSUME TypeOK, Calm, [Next]_vars, win' = UiWin(win, FALSE, TRUE),
         NEW u \in RtType, u.queue = UiQueued(rt, win, FALSE, TRUE).queue,
         u.due = rt.due, rt' = u \/ rt' = Polled(u)
  PROVE  Collects
<1>1. rt \in RtType /\ win \in WinType /\ rt.queue \in Seq(Event) /\ win.pending \in Seq(Event)
      /\ win.inbox \in Seq(Event)
  BY Values DEF WinType
<1>2. u.queue = rt.queue \o (win.pending \o win.inbox)
  <2>1. u.queue = rt.queue \o Shown(win, FALSE).pending
    BY <1>1, UiIs
  <2> QED BY <2>1, Pumps
<1>3. win'.pending = << >> /\ win'.inbox = << >>
  BY <1>1, Pumps, UiIs
<1>4. Way = Ahead(rt.queue, win) /\ Way' = Ahead(rt'.queue, win')
  BY WayIs
<1>5. rt'.queue \in Seq(Event)
  BY Moves DEF RtType
<1>6. Way' = rt'.queue
  BY <1>3, <1>4, <1>5, ConcatEmptySeq DEF Ahead
<1>7. u.queue = Way
  <2>1. PICK q, x, y : q = rt.queue /\ x = win.pending /\ y = win.inbox
    OBVIOUS
  <2>2. q \in Seq(Event) /\ x \in Seq(Event) /\ y \in Seq(Event)
    BY <1>1, <2>1
  <2>3. (q \o x) \o y = q \o (x \o y)
    BY SMTT(30), <2>2, ConcatAssociative
  <2> QED BY <1>2, <1>4, <2>1, <2>3 DEF Ahead
<1>8. CASE rt' = u
  BY <1>6, <1>7, <1>8 DEF Collects
<1>9. CASE rt' = Polled(u)
  <2>1. Fires(u) <=> (u.due # None /\ Polled(u).due = None)
    BY DEF Fires
  <2>2. Polled(u).queue = IF Fires(u) THEN Append(u.queue, Timer) ELSE u.queue
    BY PolledIs
  <2>3. u.due = None => Polled(u).due = None
    BY PolledIs
  <2> QED BY <1>6, <1>7, <1>9, <2>1, <2>2, <2>3 DEF Collects
<1> QED BY <1>8, <1>9

(* drain_host_ui and a look at the clock. *)
LEMMA StepHeadCollects ==
  ASSUME TypeOK, Calm, [Next]_vars, StepHead
  PROVE  /\ Collects /\ UNCHANGED <<marked, seen>>
         /\ IF MayStep THEN ctl' = [ctl EXCEPT !.at = "exec"] ELSE EndStage
<1>1. host \in HostType /\ host.events = << >> /\ host.command = None /\ rt \in RtType
      /\ win \in WinType /\ host.dirty = FALSE
  BY Values, IdleHosts, HostIs DEF Calm
<1>2. LET drained == Drained(UiQueued(rt, win, FALSE, TRUE), host)
      IN  /\ win' = UiWin(win, FALSE, TRUE)
          /\ rt' = Polled(drained)
          /\ IF MayStep THEN ctl' = [ctl EXCEPT !.at = "exec"] ELSE EndStage
  <2>1. PICK ok \in Presents(win, host.dirty) :
          LET drained == Drained(UiQueued(rt, win, host.dirty, ok), host)
          IN  /\ win' = UiWin(win, host.dirty, ok)
              /\ IF ok THEN rt' = Polled(drained) ELSE rt' = rt
              /\ IF ok /\ MayStep THEN ctl' = [ctl EXCEPT !.at = "exec"] ELSE EndStage
    BY Zenon DEF StepHead
  <2>2. ok = TRUE
    BY <1>1, Pumps
  <2> QED BY <1>1, <2>1, <2>2
<1> DEFINE q == UiQueued(rt, win, FALSE, TRUE)
           u == Drained(q, host)
<1>3. q \in RtType /\ q.due = rt.due
  BY <1>1, UiIs
<1>4. u \in RtType /\ u.due = rt.due /\ u.queue = q.queue
  <2> HIDE DEF q
  <2>1. q.queue \in Seq(Event)
    BY <1>3 DEF RtType
  <2>2. q.queue \o << >> = q.queue
    BY <2>1, ConcatEmptySeq
  <2> QED BY <1>1, <1>3, <2>2, DrainedIs
<1>5. rt' = Polled(u) /\ win' = UiWin(win, FALSE, TRUE)
  BY <1>2
<1>6. Collects
  <2> HIDE DEF u
  <2> QED BY <1>4, <1>5, Collected
<1>7. UNCHANGED <<marked, seen>>
  BY DEF StepHead
<1> QED BY <1>2, <1>6, <1>7

LEMMA TopCollects ==
  ASSUME TypeOK, Calm, [Next]_vars, Top
  PROVE  /\ Collects /\ UNCHANGED <<marked, seen>>
         /\ ctl' = [ctl EXCEPT !.busy = FALSE, !.at = IF expired THEN "done" ELSE "pop"]
<1>1. rt \in RtType /\ win \in WinType /\ host.dirty = FALSE
  BY Values DEF Calm
<1>2. /\ win' = UiWin(win, FALSE, TRUE)
      /\ rt' = Polled(UiQueued(rt, win, FALSE, TRUE))
      /\ ctl' = [ctl EXCEPT !.busy = FALSE, !.at = IF expired THEN "done" ELSE "pop"]
  <2>1. PICK ok \in Presents(win, host.dirty) :
          /\ win' = UiWin(win, host.dirty, ok)
          /\ IF ok THEN rt' = Polled(UiQueued(rt, win, host.dirty, ok)) ELSE rt' = rt
          /\ ctl' = [ctl EXCEPT !.busy = FALSE,
                       !.at = IF ~ok THEN "failed" ELSE IF expired THEN "done" ELSE "pop"]
    BY Zenon DEF Top
  <2>2. ok = TRUE
    BY <1>1, Pumps
  <2> QED BY <1>1, <2>1, <2>2
<1> DEFINE u == UiQueued(rt, win, FALSE, TRUE)
<1>3. u \in RtType /\ u.due = rt.due
  BY <1>1, UiIs
<1>4. rt' = Polled(u)
  BY <1>2
<1>5. Collects
  <2>1. u.queue = UiQueued(rt, win, FALSE, TRUE).queue
    OBVIOUS
  <2> HIDE DEF u
  <2> QED BY <1>2, <1>3, <1>4, <2>1, Collected
<1>6. UNCHANGED <<marked, seen>>
  BY DEF Top
<1> QED BY <1>2, <1>5, <1>6

LEMMA WaitCollects ==
  ASSUME TypeOK, Calm, [Next]_vars, Wait
  PROVE  Collects /\ UNCHANGED <<marked, seen>> /\ rt'.due = rt.due
<1>1. rt \in RtType /\ win \in WinType
  BY Values
<1>2. /\ rt' = UiQueued(rt, win, FALSE, TRUE) /\ win' = UiWin(win, FALSE, TRUE)
      /\ UNCHANGED <<marked, seen>>
  BY DEF Wait
<1>3. rt' \in RtType /\ rt'.due = rt.due
  BY <1>1, <1>2, UiIs
<1>4. PICK u : u = rt'
  OBVIOUS
<1>5. u \in RtType /\ u.due = rt.due /\ u.queue = UiQueued(rt, win, FALSE, TRUE).queue
  BY <1>2, <1>3, <1>4
<1> QED BY <1>2, <1>3, <1>4, <1>5, Collected

(* The place of a mark on a way. *)
MarkAt(way, s, tag) == CHOOSE i \in DOMAIN way : way[i].src = s /\ way[i].tag = tag

LEMMA MarkIsAt ==
  ASSUME NEW way \in Seq(Event), NEW s, NEW from \in Nat \ {0}, NEW upto \in Nat,
         InOrder(s, way, from, upto)
  PROVE  /\ from <= upto =>
              /\ MarkAt(way, s, from) \in 1 .. Len(way)
              /\ way[MarkAt(way, s, from)].src = s /\ way[MarkAt(way, s, from)].tag = from
         /\ \A j \in 1 .. Len(way) : way[j].src = s /\ way[j].tag = from =>
              from <= upto /\ j = MarkAt(way, s, from)
<1>1. DOMAIN way = 1 .. Len(way) /\ Len(way) \in Nat
  BY LenProperties
<1>2. /\ {way[i].tag : i \in Marks(s, way)} = from .. upto
      /\ \A i, j \in Marks(s, way) : i < j => way[i].tag < way[j].tag
  BY DEF InOrder
<1> DEFINE P(i) == way[i].src = s /\ way[i].tag = from
<1>3. ASSUME NEW i \in DOMAIN way, P(i)
      PROVE  i \in Marks(s, way) /\ from \in from .. upto
  <2>1. i \in Marks(s, way)
    BY <1>3 DEF Marks
  <2>2. way[i].tag \in {way[j].tag : j \in Marks(s, way)}
    BY <2>1
  <2> QED BY <1>2, <1>3, <2>1, <2>2
<1>4. \A i, j \in DOMAIN way : P(i) /\ P(j) => i = j
  <2> SUFFICES ASSUME NEW i \in DOMAIN way, NEW j \in DOMAIN way, P(i), P(j), i < j
               PROVE  FALSE
    BY <1>1
  <2>1. way[i].tag < way[j].tag
    BY <1>2, <1>3
  <2> QED BY <2>1
<1>5. from <= upto => \E i \in DOMAIN way : P(i)
  <2> HAVE from <= upto
  <2>1. from \in from .. upto
    OBVIOUS
  <2>2. PICK i \in Marks(s, way) : way[i].tag = from
    BY <1>2, <2>1
  <2> QED BY <2>2 DEF Marks
<1>6. MarkAt(way, s, from) = CHOOSE i \in DOMAIN way : P(i)
  BY DEF MarkAt
<1>7. (\E i \in DOMAIN way : P(i)) =>
        MarkAt(way, s, from) \in DOMAIN way /\ P(MarkAt(way, s, from))
  BY <1>6
<1>8. \A j \in DOMAIN way : P(j) => from <= upto /\ j = MarkAt(way, s, from)
  BY <1>3, <1>4, <1>7
<1> QED BY <1>1, <1>5, <1>7, <1>8

(* An event put in moves the mark back by one place at most. *)
LEMMA MarkMoves ==
  ASSUME NEW d, NEW c, NEW k, NEW e, Inserted(d, c, k, e),
         NEW s, NEW from \in Nat \ {0}, NEW upto \in Nat, NEW upto2 \in Nat,
         from <= upto, InOrder(s, d, from, upto), InOrder(s, c, from, upto2)
  PROVE  /\ from <= upto2 /\ MarkAt(d, s, from) \in 1 .. Len(d)
         /\ MarkAt(c, s, from) = IF MarkAt(d, s, from) < k THEN MarkAt(d, s, from)
                                 ELSE MarkAt(d, s, from) + 1
<1>1. /\ d \in Seq(Event) /\ c \in Seq(Event)
      /\ k \in 1 .. Len(d) + 1 /\ Len(c) = Len(d) + 1
      /\ \A i \in 1 .. Len(d) : i < k => c[i] = d[i]
      /\ \A i \in 1 .. Len(d) : i >= k => c[i + 1] = d[i]
  BY DEF Inserted
<1>2. Len(d) \in Nat /\ Len(c) \in Nat
  BY <1>1, LenProperties
<1>3. PICK p : p = MarkAt(d, s, from)
  OBVIOUS
<1>4. p \in 1 .. Len(d) /\ d[p].src = s /\ d[p].tag = from
  BY <1>1, <1>3, MarkIsAt
<1>5. PICK j : j = IF p < k THEN p ELSE p + 1
  OBVIOUS
<1>6. j \in 1 .. Len(c) /\ c[j] = d[p]
  <2>1. CASE p < k
    BY <1>1, <1>2, <1>4, <1>5, <2>1
  <2>2. CASE ~ (p < k)
    <3>1. p >= k /\ j = p + 1
      BY <1>1, <1>2, <1>4, <1>5, <2>2
    <3> QED BY <1>1, <1>2, <1>4, <3>1
  <2> QED BY <2>1, <2>2
<1>7. from <= upto2 /\ j = MarkAt(c, s, from)
  <2>1. c[j].src = s /\ c[j].tag = from
    BY <1>4, <1>6
  <2> QED BY <1>1, <1>6, <2>1, MarkIsAt
<1> QED BY <1>3, <1>4, <1>5, <1>7

(* The first event goes: a mark behind it comes forward by one place. *)
LEMMA MarkComes ==
  ASSUME NEW d, NEW c, NEW e, Inserted(d, c, 1, e),
         NEW s, NEW from \in Nat \ {0}, NEW upto \in Nat,
         from <= upto, InOrder(s, c, from, upto)
  PROVE  /\ MarkAt(c, s, from) \in 1 .. Len(c)
         /\ MarkAt(c, s, from) = 1 => e.src = s /\ e.tag = from
         /\ MarkAt(c, s, from) # 1 =>
              /\ e.src # s \/ e.tag = 0
              /\ \A upto2 \in Nat : InOrder(s, d, from, upto2) =>
                   MarkAt(d, s, from) = MarkAt(c, s, from) - 1
<1>1. /\ d \in Seq(Event) /\ c \in Seq(Event) /\ e \in Event
      /\ Len(c) = Len(d) + 1 /\ c[1] = e
      /\ \A i \in 1 .. Len(d) : i >= 1 => c[i + 1] = d[i]
  BY DEF Inserted
<1>2. Len(d) \in Nat /\ Len(c) \in Nat /\ DOMAIN c = 1 .. Len(c)
  BY <1>1, LenProperties
<1>3. PICK p : p = MarkAt(c, s, from)
  OBVIOUS
<1>4. p \in 1 .. Len(c) /\ c[p].src = s /\ c[p].tag = from
  BY <1>1, <1>3, MarkIsAt
<1>5. ASSUME p # 1 PROVE e.src # s \/ e.tag = 0
  <2> SUFFICES ASSUME e.src = s, e.tag # 0 PROVE FALSE
    OBVIOUS
  <2>1. e.tag \in Nat /\ e.tag > 0
    BY <1>1, LimitAssumption DEF Event
  <2>2. 1 \in Marks(s, c) /\ p \in Marks(s, c)
    BY <1>1, <1>2, <1>4, <2>1 DEF Marks
  <2>3. c[1].tag < c[p].tag /\ c[1].tag \in from .. upto
    BY <1>2, <1>4, <1>5, <2>2 DEF InOrder
  <2> QED BY <1>1, <1>4, <2>3
<1>6. ASSUME p # 1, NEW upto2 \in Nat, InOrder(s, d, from, upto2)
      PROVE  MarkAt(d, s, from) = p - 1
  <2>1. p - 1 \in 1 .. Len(d) /\ (p - 1) + 1 = p
    BY <1>1, <1>2, <1>4, <1>6
  <2>2. d[p - 1] = c[(p - 1) + 1]
    BY <1>1, <2>1
  <2>3. d[p - 1].src = s /\ d[p - 1].tag = from
    BY <1>4, <2>1, <2>2
  <2> QED BY <1>1, <1>6, <2>1, <2>3, MarkIsAt
<1> QED BY <1>1, <1>3, <1>4, <1>5, <1>6

(* A call of the host lengthens the queue; if it drew nothing, all that is *)
(* on the way is in the queue after it. *)
LEMMA CallCollects ==
  ASSUME TypeOK, Calm, [Next]_vars, NEW h \in HostType, HostReturns(h)
  PROVE  /\ Len(rt'.queue) >= Len(rt.queue)
         /\ ~ h.dirty => rt'.queue = Way'
<1>1. rt \in RtType /\ win \in WinType /\ rt.queue \in Seq(Event)
      /\ h.dirty \in BOOLEAN /\ h.events \in Seq(Event)
  BY Values DEF HostType
<1>2. PICK ok \in Presents(win, h.dirty) :
        /\ rt' = UiQueued(Drained(rt, h), win, h.dirty, ok)
        /\ win' = UiWin(win, h.dirty, ok)
  BY Zenon DEF HostReturns
<1>3. ok \in BOOLEAN
  BY DEF Presents
<1>4. PICK d, s : d = Drained(rt, h) /\ s = Shown(win, h.dirty)
  OBVIOUS
<1>5. d \in RtType /\ d.queue = rt.queue \o h.events
  BY <1>1, <1>4, DrainedIs
<1>6. s \in WinType
  BY <1>1, <1>4, ShownIs
<1>7. rt'.queue = (IF ok THEN d.queue \o s.pending ELSE d.queue)
      /\ win'.inbox = s.inbox /\ win'.pending = IF ok THEN << >> ELSE s.pending
  <2>1. LET u == UiWin(win, h.dirty, ok)
            q == UiQueued(d, win, h.dirty, ok)
            v == Shown(win, h.dirty)
        IN  /\ u.inbox = v.inbox
            /\ u.pending = IF ok THEN << >> ELSE v.pending
            /\ q.queue = IF ok THEN d.queue \o v.pending ELSE d.queue
    <3>1. d \in RtType /\ win \in WinType /\ h.dirty \in BOOLEAN /\ ok \in BOOLEAN
      BY <1>1, <1>3, <1>5
    <3>2. \A r \in RtType, w \in WinType, b, o \in BOOLEAN :
            /\ UiWin(w, b, o).inbox = Shown(w, b).inbox
            /\ UiWin(w, b, o).pending = IF o THEN << >> ELSE Shown(w, b).pending
            /\ UiQueued(r, w, b, o).queue = IF o THEN r.queue \o Shown(w, b).pending ELSE r.queue
      BY UiIs
    <3> QED BY ONLY <3>1, <3>2
  <2>2. rt' = UiQueued(d, win, h.dirty, ok) /\ win' = UiWin(win, h.dirty, ok)
    BY <1>2, <1>4
  <2>3. PICK u, q : u = UiWin(win, h.dirty, ok) /\ q = UiQueued(d, win, h.dirty, ok)
    OBVIOUS
  <2>4. /\ u.inbox = s.inbox /\ u.pending = IF ok THEN << >> ELSE s.pending
        /\ q.queue = IF ok THEN d.queue \o s.pending ELSE d.queue
    BY <1>4, <2>1, <2>3, Zenon
  <2>5. win' = u /\ rt' = q
    BY <2>2, <2>3
  <2> QED BY <2>4, <2>5, Zenon
<1>8. Len(rt'.queue) >= Len(rt.queue)
  <2>1. Len(d.queue) = Len(rt.queue) + Len(h.events) /\ d.queue \in Seq(Event)
    BY <1>1, <1>5, ConcatProperties
  <2>2. s.pending \in Seq(Event)
    BY <1>6 DEF WinType
  <2>3. Len(d.queue \o s.pending) = Len(d.queue) + Len(s.pending)
    BY <2>1, <2>2, ConcatProperties
  <2>4. Len(rt.queue) \in Nat /\ Len(h.events) \in Nat /\ Len(s.pending) \in Nat
    BY <1>1, <2>2, LenProperties
  <2>5. Len(rt'.queue) = IF ok THEN Len(d.queue) + Len(s.pending) ELSE Len(d.queue)
    BY <1>7, <2>3
  <2>6. PICK a, b, c : a = Len(rt.queue) /\ b = Len(h.events) /\ c = Len(s.pending)
    OBVIOUS
  <2>7. a \in Nat /\ b \in Nat /\ c \in Nat
    BY <2>4, <2>6
  <2>8. Len(rt'.queue) = IF ok THEN (a + b) + c ELSE a + b
    BY <2>1, <2>5, <2>6
  <2>9. (a + b) + c >= a /\ a + b >= a
    BY <2>7
  <2> QED BY <2>6, <2>8, <2>9
<1>9. ASSUME ~ h.dirty PROVE rt'.queue = Way'
  <2>1. h.dirty = FALSE
    BY <1>1, <1>9
  <2>2. ok = TRUE /\ s.inbox = << >>
    BY <1>2, <1>4, <2>1, Pumps
  <2>3. win'.pending = << >> /\ win'.inbox = << >>
    BY <1>7, <2>2
  <2>4. rt'.queue \in Seq(Event)
    BY Moves DEF RtType
  <2>5. Way' = Ahead(rt'.queue, win')
    BY WayIs
  <2> QED BY <2>3, <2>4, <2>5, ConcatEmptySeq DEF Ahead
<1> QED BY <1>8, <1>9

(* What every step but a dispatch does to the queue and the way behind it: *)
(* an event that is put in stands behind the queue; it stands in front of  *)
(* others only when these, too, are then in the queue. *)
QueueMove ==
  /\ seen' = seen
  /\ Len(rt'.queue) >= Len(rt.queue)
  /\ \/ Way' = Way
     \/ \E k, e : /\ Inserted(Way, Way', k, e) /\ k > Len(rt.queue)
                  /\ rt'.queue = Way' \/ k > Len(Way)

LEMMA WayIsLonger ==
  ASSUME TypeOK, [Next]_vars
  PROVE  /\ Way \in Seq(Event) /\ Len(Way) >= Len(rt.queue)
         /\ Len(Way) \in Nat /\ Len(rt.queue) \in Nat
<1>1. PICK q, x, y : q = rt.queue /\ x = win.pending /\ y = win.inbox
  OBVIOUS
<1>2. q \in Seq(Event) /\ x \in Seq(Event) /\ y \in Seq(Event)
  BY <1>1, Values DEF WinType
<1>3. PICK f : f = q \o x
  OBVIOUS
<1>4. f \in Seq(Event) /\ Len(f) = Len(q) + Len(x)
  BY <1>2, <1>3, ConcatProperties
<1>5. PICK g : g = f \o y
  OBVIOUS
<1>6. g \in Seq(Event) /\ Len(g) = Len(f) + Len(y)
  BY <1>2, <1>4, <1>5, ConcatProperties
<1>7. Way = g
  BY <1>1, <1>3, <1>5, WayIs DEF Ahead
<1>8. Len(q) \in Nat /\ Len(x) \in Nat /\ Len(y) \in Nat
  BY <1>2, LenProperties
<1>9. Len(g) >= Len(q) /\ Len(g) \in Nat
  BY <1>4, <1>6, <1>8
<1> QED BY <1>1, <1>6, <1>7, <1>8, <1>9

LEMMA CollectsMoves ==
  ASSUME TypeOK, [Next]_vars, Collects, seen' = seen
  PROVE  QueueMove
<1>1. /\ rt.queue \in Seq(Event) /\ rt'.queue \in Seq(Event)
      /\ win.pending \in Seq(Event) /\ win.inbox \in Seq(Event)
  BY Values, Moves DEF RtType, WinType
<1>3. Way \in Seq(Event) /\ Len(Way) >= Len(rt.queue) /\ Len(Way) \in Nat /\ Len(rt.queue) \in Nat
  BY WayIsLonger
<1>4. CASE Way' = Way
  BY <1>3, <1>4 DEF Collects, QueueMove
<1>5. CASE Way' = Append(Way, Timer)
  <2>1. Inserted(Way, Way', Len(Way) + 1, Timer)
    BY <1>3, <1>5, TimerIsEvent, InsertedLast
  <2>2. Len(rt'.queue) = Len(Way) + 1
    BY <1>3, <1>5, TimerIsEvent, AppendProperties DEF Collects
  <2>3. Len(Way) + 1 > Len(rt.queue) /\ Len(Way) + 1 > Len(Way) /\ Len(rt'.queue) >= Len(rt.queue)
    BY <1>3, <2>2
  <2> QED BY <2>1, <2>3 DEF QueueMove
<1> QED BY <1>4, <1>5 DEF Collects

LEMMA QueueMoves ==
  ASSUME TypeOK, Calm, [Next]_vars, ~ Dispatch
  PROVE  QueueMove
<1>1. rt.queue \in Seq(Event) /\ Len(rt.queue) \in Nat
  BY Values, LenProperties
<1>2. CASE StepHead
  BY <1>2, StepHeadCollects, CollectsMoves
<1>3. CASE Top
  BY <1>3, TopCollects, CollectsMoves
<1>4. CASE Wait
  BY <1>4, WaitCollects, CollectsMoves
<1>5. CASE HostCall
  <2>1. PICK h \in HostType :
           /\ HostReturns(h)
           /\ \/ h.events = << >>
              \/ h.dirty = host.dirty /\ \E e \in Event : h.events = Append(<< >>, e)
    BY <1>5, CallLeaves
  <2>2. seen' = seen
    BY <1>5, HostCallIs
  <2>3. Len(rt'.queue) >= Len(rt.queue)
    BY <2>1, CallCollects
  <2>4. CASE h.events = << >>
    <3>1. Way' = Way
      BY <2>1, <2>4, HostReturnsMail
    <3> QED BY <2>2, <2>3, <3>1 DEF QueueMove
  <2>5. CASE h.dirty = host.dirty /\ \E e \in Event : h.events = Append(<< >>, e)
    <3>1. PICK e \in Event : h.events = Append(<< >>, e)
      BY <2>5
    <3>2. rt'.queue = Way'
      BY <2>1, <2>5, CallCollects DEF Calm
    <3>3. Inserted(Way, Way', Len(rt.queue) + 1, e)
      BY <2>1, <3>1, HostReturnsMail
    <3>4. Len(rt.queue) + 1 > Len(rt.queue)
      BY <1>1
    <3> QED BY <2>2, <2>3, <3>2, <3>3, <3>4 DEF QueueMove
  <2> QED BY <2>1, <2>4, <2>5
<1>6. CASE UserInput \/ UserCloses
  <2>1. rt' = rt /\ seen' = seen
    BY <1>6 DEF UserInput, UserCloses
  <2>2. PICK e \in Event : Posted(e)
    <3>1. CASE UserInput
      <4>1. PICK tag \in Tags("key") : Posted([src |-> "key", tag |-> tag])
        BY <3>1, Zenon DEF UserInput
      <4>2. [src |-> "key", tag |-> tag] \in Event
        <5>1. "key" \in Sources
          BY DEF Sources
        <5> QED BY <5>1, TagsAre DEF Event
      <4> QED BY <4>1, <4>2
    <3>2. CASE UserCloses
      <4>1. [src |-> "quit", tag |-> 1] \in Event
        BY LimitAssumption DEF Event, Sources
      <4>2. Posted([src |-> "quit", tag |-> 1])
        BY <3>2, Zenon DEF UserCloses
      <4> QED BY <4>1, <4>2
    <3> QED BY <1>6, <3>1, <3>2
  <2>3. win \in WinType /\ win.inbox \in Seq(Event)
    BY Values DEF WinType
  <2>4. win' \in WinType /\ win'.pending = win.pending /\ win'.inbox = Append(win.inbox, e)
    <3>1. win' \in WinType /\ win'.pending = win.pending
      BY <2>2, PostedIs
    <3>2. PICK x : x = Append(win.inbox, e)
      OBVIOUS
    <3>3. win' = [win EXCEPT !.inbox = x]
      BY <2>2, <3>2 DEF Posted
    <3> QED BY <2>3, <3>1, <3>2, <3>3 DEF WinType
  <2>5. Way = Ahead(rt.queue, win) /\ Way' = Ahead(rt.queue, win')
    BY <2>1, WayIs
  <2>6. Inserted(Way, Way', Len(Way) + 1, e)
    BY <1>1, <2>3, <2>4, <2>5, InsertedAhead
  <2>7. Len(Way) + 1 > Len(Way) /\ Len(Way) + 1 > Len(rt.queue)
    BY WayIsLonger
  <2> QED BY <1>1, <2>1, <2>6, <2>7 DEF QueueMove
<1>7. CASE \/ BudgetExhausted \/ GuestStep \/ Fault \/ RunMrp \/ Repoll \/ GiveUp \/ Wake
           \/ Tick \/ LimitPasses \/ Over \/ UNCHANGED vars
  <2>1. UNCHANGED <<win, seen>> /\ rt'.queue = rt.queue
    <3>1. CASE Tick
      <4>1. PICK l : rt' = [rt EXCEPT !.lag = l]
        BY <3>1 DEF Tick
      <4> QED BY <3>1, <4>1, Values DEF Tick, RtType
    <3>2. CASE ~ Tick
      BY <1>7, <3>2, Zenon DEF BudgetExhausted, GuestStep, Fault, RunMrp, NextStage,
         EnterDrive, ReturnUndriven, Repoll, GiveUp, Wake, LimitPasses, Over, vars
    <3> QED BY <3>1, <3>2
  <2>2. Way' = Way
    BY <2>1, WayIs
  <2> QED BY <1>1, <2>1, <2>2 DEF QueueMove
<1> QED BY <1>2, <1>3, <1>4, <1>5, <1>6, <1>7, Zenon
        DEF Next, Runner, RunLoop, Drive, World

(* A marked event of s has arisen and has not been dispatched; where the   *)
(* next one stands; how much of the queue goes before it (one more while   *)
(* it is not in the queue yet: an application event may still be put in    *)
(* front of it). *)
Outstanding(s) == Len(seen[s]) < marked[s]
Place(s) == MarkAt(Way, s, Len(seen[s]) + 1)
InFront(s) == Place(s) - 1 + IF Place(s) > Len(rt.queue) THEN 1 ELSE 0

LEMMA FrontIs ==
  ASSUME TypeOK, EventsInOrder, [Next]_vars, NEW s \in Sources, Outstanding(s)
  PROVE  /\ Place(s) \in 1 .. Len(Way) /\ InFront(s) \in Nat
         /\ Len(seen[s]) + 1 \in Nat \ {0} /\ marked[s] \in Nat
         /\ Len(seen[s]) + 1 <= marked[s]
         /\ InOrder(s, Way, Len(seen[s]) + 1, marked[s])
<1>1. seen[s] \in Seq(1 .. MaxMark) /\ marked[s] \in Nat
  BY LimitAssumption DEF TypeOK
<1>2. Len(seen[s]) \in Nat
  BY <1>1, LenProperties
<1>3. InOrder(s, Way, Len(seen[s]) + 1, marked[s])
  BY DEF EventsInOrder
<1>4. PICK from : from = Len(seen[s]) + 1
  OBVIOUS
<1>5. from \in Nat \ {0} /\ from <= marked[s]
  BY <1>1, <1>2, <1>4 DEF Outstanding
<1>6. Way \in Seq(Event) /\ Len(Way) \in Nat /\ Len(rt.queue) \in Nat
  BY WayIsLonger
<1>7. MarkAt(Way, s, from) \in 1 .. Len(Way)
  BY <1>1, <1>3, <1>4, <1>5, <1>6, MarkIsAt
<1>8. Place(s) \in 1 .. Len(Way)
  BY <1>4, <1>7 DEF Place
<1>9. InFront(s) \in Nat
  BY <1>6, <1>8 DEF InFront
<1> QED BY <1>1, <1>3, <1>4, <1>5, <1>8, <1>9

(* No step but a dispatch puts anything more in front of the event. *)
LEMMA FrontStays ==
  ASSUME TypeOK, EventsInOrder, EventsInOrder', [Next]_vars, QueueMove,
         NEW s \in Sources, Outstanding(s)
  PROVE  /\ Outstanding(s)' /\ InFront(s)' \in Nat /\ InFront(s)' <= InFront(s)
         /\ rt'.queue = rt.queue => InFront(s)' = InFront(s)
         /\ Place(s)' \in 1 .. Len(Way')
<1>1. PICK from, upto, p : from = Len(seen[s]) + 1 /\ upto = marked[s] /\ p = Place(s)
  OBVIOUS
<1>2. /\ p \in 1 .. Len(Way) /\ from \in Nat \ {0} /\ upto \in Nat /\ from <= upto
      /\ InOrder(s, Way, from, upto) /\ p = MarkAt(Way, s, from)
  BY <1>1, FrontIs DEF Place
<1>3. PICK upto2 : upto2 = marked'[s]
  OBVIOUS
<1>4. seen' = seen /\ Len(seen[s]) + 1 = Len(seen'[s]) + 1
  BY DEF QueueMove
<1>5. InOrder(s, Way', from, upto2)
  <2>1. InOrder(s, Way', Len(seen'[s]) + 1, marked'[s])
    BY Zenon DEF EventsInOrder, InOrder, Marks
  <2> QED BY <1>1, <1>3, <1>4, <2>1
<1>6. upto2 \in Nat
  BY <1>3, HostTypes, LimitAssumption
<1>7. /\ Way \in Seq(Event) /\ Len(Way) \in Nat /\ Len(rt.queue) \in Nat /\ Len(rt'.queue) \in Nat
      /\ Len(Way) >= Len(rt.queue)
  <2>1. rt'.queue \in Seq(Event)
    BY Moves DEF RtType
  <2> QED BY <2>1, WayIsLonger, LenProperties
<1>8. PICK p2 : p2 = Place(s)'
  OBVIOUS
<1>9. p2 = MarkAt(Way', s, from)
  BY <1>1, <1>4, <1>8 DEF Place
<1>10. from <= upto2 => Outstanding(s)'
  <2>1. Len(seen[s]) \in Nat
    BY LenProperties DEF TypeOK
  <2> QED BY <1>1, <1>3, <1>4, <1>6, <2>1 DEF Outstanding
<1>11. PICK n, n2, f, f2 : n = Len(rt.queue) /\ n2 = Len(rt'.queue)
                           /\ f = InFront(s) /\ f2 = InFront(s)'
  OBVIOUS
<1>12. /\ f = p - 1 + (IF p > n THEN 1 ELSE 0)
       /\ f2 = p2 - 1 + (IF p2 > n2 THEN 1 ELSE 0)
       /\ n \in Nat /\ n2 \in Nat /\ n2 >= n
  BY <1>1, <1>7, <1>8, <1>11 DEF InFront, QueueMove
<1>13. CASE Way' = Way
  <2>1. p2 = p
    BY <1>2, <1>9, <1>13
  <2>2. from <= upto2
    BY <1>2, <1>5, <1>6, <1>7, <1>13, MarkIsAt
  <2>3. rt'.queue = rt.queue => n2 = n
    BY <1>11
  <2>4. f2 \in Nat /\ f2 <= f /\ (n2 = n => f2 = f)
    BY <1>2, <1>7, <1>12, <2>1
  <2> QED BY <1>2, <1>8, <1>10, <1>11, <1>13, <2>1, <2>2, <2>3, <2>4
<1>14. CASE \E k, e : /\ Inserted(Way, Way', k, e) /\ k > Len(rt.queue)
                      /\ rt'.queue = Way' \/ k > Len(Way)
  <2>1. PICK k, e : /\ Inserted(Way, Way', k, e) /\ k > Len(rt.queue)
                    /\ rt'.queue = Way' \/ k > Len(Way)
    BY <1>14
  <2>2. /\ from <= upto2 /\ p2 = IF p < k THEN p ELSE p + 1
    BY <1>2, <1>5, <1>6, <1>9, <2>1, MarkMoves
  <2>3. k \in Nat /\ Len(Way') = Len(Way) + 1
    BY <1>7, <2>1 DEF Inserted
  <2>4. p2 \in 1 .. Len(Way')
    BY <1>2, <1>7, <2>2, <2>3
  <2>5. PICK m : m = Len(Way)
    OBVIOUS
  <2>6. /\ m \in Nat /\ p \in 1 .. m /\ k > n /\ (n2 = m + 1 \/ k > m)
        /\ p2 = IF p < k THEN p ELSE p + 1
    BY <1>2, <1>7, <1>11, <2>1, <2>2, <2>3, <2>5
  <2>7. f2 \in Nat /\ f2 <= f
    BY <1>12, <2>3, <2>6
  <2>8. n2 = n => f2 = f
    <3> HAVE n2 = n
    <3>1. p < k
      <4>1. n <= m
        BY <1>7, <1>11, <2>5
      <4> QED BY <1>12, <2>3, <2>6, <4>1
    <3> QED BY <1>12, <2>6, <3>1
  <2> QED BY <1>8, <1>10, <1>11, <2>2, <2>4, <2>7, <2>8
<1> QED BY <1>13, <1>14 DEF QueueMove

(* A dispatch either tells the event, or takes one from in front of it. *)
LEMMA FrontShrinks ==
  ASSUME TypeOK, EventsInOrder, EventsInOrder', [Next]_vars, Dispatch,
         NEW s \in Sources, Outstanding(s)
  PROVE  \/ seen'[s] = Append(seen[s], Len(seen[s]) + 1)
         \/ Outstanding(s)' /\ InFront(s)' \in Nat /\ InFront(s)' < InFront(s)
<1>1. PICK from, upto, p, e : from = Len(seen[s]) + 1 /\ upto = marked[s] /\ p = Place(s)
                              /\ e = Head(rt.queue)
  OBVIOUS
<1>2. /\ p \in 1 .. Len(Way) /\ from \in Nat \ {0} /\ upto \in Nat /\ from <= upto
      /\ InOrder(s, Way, from, upto) /\ p = MarkAt(Way, s, from)
  BY <1>1, FrontIs DEF Place
<1>3. rt'.queue = Tail(rt.queue) /\ rt.queue # << >> /\ rt.queue \in Seq(Event)
  BY DispatchIs, Values DEF Dispatch
<1>4. win' = win /\ marked' = marked /\ Told(e)
  BY <1>1 DEF Dispatch, Told
<1>5. Inserted(Way', Way, 1, e)
  <2>1. Way = Ahead(rt.queue, win) /\ Way' = Ahead(rt'.queue, win')
    BY WayIs
  <2> QED BY <1>1, <1>3, <1>4, <2>1, Values, TimerIsEvent, InsertedAhead
<1>6. seen \in [Sources -> Seq(1 .. MaxMark)]
  BY DEF TypeOK
<1>7. CASE p = 1
  <2>1. e.src = s /\ e.tag = from
    <3>1. MarkAt(Way, s, from) = 1
      BY <1>2, <1>7
    <3>2. /\ from \in Nat \ {0} /\ upto \in Nat /\ from <= upto
          /\ InOrder(s, Way, from, upto)
      BY <1>2
    <3> QED BY ONLY <1>5, <3>1, <3>2, MarkComes
  <2>2. seen' = [seen EXCEPT ![s] = Append(@, from)]
    BY <1>2, <1>4, <2>1 DEF Told
  <2> QED BY <1>1, <1>6, <2>2
<1>8. CASE p # 1
  <2>1. /\ e.src # s \/ e.tag = 0
        /\ InOrder(s, Way', from, upto) => MarkAt(Way', s, from) = p - 1
    BY <1>2, <1>5, <1>8, MarkComes
  <2>2. seen'[s] = seen[s]
    <3>1. PICK t : t = Append(seen[e.src], e.tag)
      OBVIOUS
    <3>2. seen' = IF e.tag = 0 THEN seen ELSE [seen EXCEPT ![e.src] = t]
      BY <1>4, <3>1 DEF Told
    <3> QED BY <1>6, <2>1, <3>2
  <2>3. InOrder(s, Way', from, upto)
    <3>1. InOrder(s, Way', Len(seen'[s]) + 1, marked'[s])
      BY Zenon DEF EventsInOrder, InOrder, Marks
    <3> QED BY <1>1, <1>4, <2>2, <3>1
  <2>4. MarkAt(Way', s, from) = p - 1
    BY <1>2, <2>1, <2>3
  <2>5. PICK p2 : p2 = Place(s)'
    OBVIOUS
  <2>6. p2 = p - 1
    BY <1>1, <2>2, <2>4, <2>5 DEF Place
  <2>7. Outstanding(s)'
    BY <1>4, <2>2 DEF Outstanding
  <2>8. Len(rt'.queue) = Len(rt.queue) - 1 /\ Len(rt.queue) \in Nat \ {0}
    BY <1>3, HeadTailProperties, LenProperties, EmptySeq
  <2>9. /\ InFront(s) = p - 1 + (IF p > Len(rt.queue) THEN 1 ELSE 0)
        /\ InFront(s)' = p2 - 1 + (IF p2 > Len(rt'.queue) THEN 1 ELSE 0)
    BY <1>1, <2>5 DEF InFront
  <2>10. Len(Way) \in Nat
    BY WayIsLonger
  <2>11. InFront(s)' \in Nat /\ InFront(s)' < InFront(s)
    BY <1>2, <1>8, <2>6, <2>8, <2>9, <2>10
  <2> QED BY <2>7, <2>11
<1> QED BY <1>7, <1>8

(* The most steps the runner takes until it next takes an event off a      *)
(* queue that is not empty, or has used up a stage of its start.           *)
Steps ==
  CASE ctl.at = "pop"  -> IF rt.queue = << >> THEN 3 ELSE 0
    [] ctl.at = "top"  -> 1
    [] ctl.at = "idle" -> 2
    [] ctl.at = "boot" -> 3
    [] ctl.at = "exec" -> 3 + 2 * ctl.left
    [] ctl.at = "head" -> 4 + 2 * ctl.left
    [] OTHER           -> 0

(* The stages that come before the event is told: those of its             *)
(* predecessors in the queue, and those of the start.                     *)
Turns(s) == InFront(s) + ctl.boots

LEMMA StepsAre ==
  ASSUME TypeOK
  PROVE  /\ Steps \in Nat /\ ctl.boots \in Nat /\ ctl.left \in Nat
         /\ ctl.at = "pop" => Steps = IF rt.queue = << >> THEN 3 ELSE 0
         /\ ctl.at = "top" => Steps = 1
         /\ ctl.at = "idle" => Steps = 2
         /\ ctl.at = "boot" => Steps = 3
         /\ ctl.at = "exec" => Steps = 3 + 2 * ctl.left
         /\ ctl.at = "head" => Steps = 4 + 2 * ctl.left
<1>1. ctl.left \in Nat /\ ctl.boots \in Nat /\ ctl.at \in Places
  BY Values, LimitAssumption DEF CtlType
<1> QED BY <1>1 DEF Steps, Places

(* At the end of a stage, and after a step of one. *)
LEMMA StageSteps ==
  ASSUME TypeOK, PlacesAgree, ctl.at \in {"head", "exec"}
  PROVE  /\ EndStage => Steps' < Steps /\ ctl'.boots = ctl.boots
         /\ ctl.at = "exec" /\ StepDone => Steps' < Steps /\ ctl'.boots = ctl.boots
<1>1. ctl \in CtlType /\ ctl.left \in Nat
  BY Values, StepsAre
<1>2. /\ Steps \in Nat
      /\ ctl.at = "exec" => Steps = 3 + 2 * ctl.left
      /\ ctl.at = "head" => Steps = 4 + 2 * ctl.left
  BY StepsAre
<1>3. /\ ctl'.at = "pop" => Steps' = IF rt'.queue = << >> THEN 3 ELSE 0
      /\ ctl'.at = "boot" => Steps' = 3
      /\ ctl'.at = "head" => Steps' = 4 + 2 * ctl'.left
  BY DEF Steps
<1>4. ASSUME EndStage PROVE Steps' < Steps /\ ctl'.boots = ctl.boots
  <2>1. ctl'.at \in {"boot", "pop"} /\ ctl'.boots = ctl.boots
    BY <1>1, <1>4 DEF EndStage, CtlType
  <2>2. Steps' = 3 \/ Steps' = 0
    BY <1>3, <2>1
  <2>3. ctl.at = "exec" => ctl.left > 0
    BY DEF PlacesAgree
  <2> QED BY <1>1, <1>2, <2>1, <2>2, <2>3
<1>5. ASSUME ctl.at = "exec", StepDone PROVE Steps' < Steps /\ ctl'.boots = ctl.boots
  <2>1. ctl'.at = "head" /\ ctl'.left = ctl.left - 1 /\ ctl'.boots = ctl.boots
    BY <1>1, <1>5 DEF StepDone, CtlType
  <2> QED BY <1>1, <1>2, <1>3, <1>5, <2>1
<1> QED BY <1>4, <1>5

(* A step of the runner that neither dispatches nor begins a stage. *)
LEMMA StepsShrink ==
  ASSUME TypeOK, PlacesAgree, Calm, [Next]_vars, Runner, ~ Dispatch, ~ NextStage,
         Len(Way') > 0, ~ Ended'
  PROVE  Steps' < Steps /\ ctl'.boots = ctl.boots
<1>1. ctl \in CtlType
  BY Values
<1>3. CASE BudgetExhausted
  BY <1>3, StageSteps DEF BudgetExhausted
<1>4. CASE StepHead
  <2>1. ctl.at = "head" /\ (ctl' = [ctl EXCEPT !.at = "exec"] \/ EndStage)
    BY <1>4, StepHeadCollects, Zenon DEF StepHead
  <2>2. CASE ctl' = [ctl EXCEPT !.at = "exec"]
    <3>1. ctl'.at = "exec" /\ ctl'.left = ctl.left /\ ctl'.boots = ctl.boots
      BY <1>1, <2>2 DEF CtlType
    <3>2. Steps' = 3 + 2 * ctl'.left
      BY <3>1 DEF Steps
    <3> QED BY <2>1, <3>1, <3>2, StepsAre
  <2> QED BY <2>1, <2>2, StageSteps
<1>5. CASE HostCall
  BY <1>5, HostCallIs, StageSteps
<1>6. CASE GuestStep
  BY <1>6, StageSteps DEF GuestStep
<1>7. CASE Fault
  BY <1>7, StageSteps DEF Fault
<1>8. CASE EnterDrive
  <2>1. ctl.at = "boot" /\ ctl'.at = "top" /\ ctl'.boots = ctl.boots
    BY <1>1, <1>8 DEF EnterDrive, CtlType
  <2>2. Steps' = 1
    BY <2>1 DEF Steps
  <2> QED BY <2>1, <2>2, StepsAre
<1>9. CASE ReturnUndriven
  BY <1>1, <1>9 DEF ReturnUndriven, CtlType, Ended
<1>10. CASE Top
  <2>1. ctl.at = "top" /\ rt'.queue = Way'
    BY <1>10, TopCollects DEF Top, Collects
  <2>2. ctl'.at = "pop" /\ ctl'.boots = ctl.boots
    <3>1. ctl' = [ctl EXCEPT !.busy = FALSE, !.at = IF expired THEN "done" ELSE "pop"]
      BY <1>10, TopCollects
    <3>2. PICK a : a = IF expired THEN "done" ELSE "pop"
      OBVIOUS
    <3>3. ctl'.at = a /\ ctl'.boots = ctl.boots
      BY <1>1, <3>1, <3>2 DEF CtlType
    <3> QED BY <3>2, <3>3 DEF Ended
  <2>3. Len(<< >>) = 0
    BY EmptySeq
  <2>4. rt'.queue # << >>
    BY <2>1, <2>3
  <2>5. Steps' = 0
    BY <2>2, <2>4 DEF Steps
  <2> QED BY <2>1, <2>2, <2>5, StepsAre
<1>11. CASE Repoll
  <2>1. ctl.at = "pop" /\ rt.queue = << >> /\ ctl'.at = "top" /\ ctl'.boots = ctl.boots
    BY <1>1, <1>11 DEF Repoll, AfterEvents, CtlType
  <2>2. Steps' = 1
    BY <2>1 DEF Steps
  <2> QED BY <2>1, <2>2, StepsAre
<1>12. CASE Wait
  <2>1. ctl.at = "pop" /\ rt.queue = << >> /\ ctl'.at = "idle" /\ ctl'.boots = ctl.boots
    <3>1. ctl.at = "pop" /\ rt.queue = << >> /\ Idles
      BY <1>12 DEF Wait, Sleeps, Idles
    <3> QED BY <1>1, <3>1 DEF Idles, CtlType
  <2>2. Steps' = 2
    BY <2>1 DEF Steps
  <2> QED BY <2>1, <2>2, StepsAre
<1>13. CASE GiveUp
  BY <1>1, <1>13 DEF GiveUp, CtlType, Ended
<1>14. CASE Wake
  <2>1. ctl.at = "idle" /\ ctl'.at = "top" /\ ctl'.boots = ctl.boots
    BY <1>1, <1>14 DEF Wake, CtlType
  <2>2. Steps' = 1
    BY <2>1 DEF Steps
  <2> QED BY <2>1, <2>2, StepsAre
<1> QED BY <1>3, <1>4, <1>5, <1>6, <1>7, <1>8, <1>9, <1>10, <1>11, <1>12, <1>13, <1>14, Zenon
        DEF Runner, RunLoop, RunMrp, Drive

Nearer(s) == \/ Turns(s)' < Turns(s)
             \/ Turns(s)' = Turns(s) /\ Steps' < Steps
AsNear(s) == Turns(s)' = Turns(s) /\ Steps' = Steps

LEMMA NearerStep ==
  ASSUME TypeOK, TypeOK', PlacesAgree, Calm, EventsInOrder, EventsInOrder', [Next]_vars,
         NEW s \in Sources, Outstanding(s), ~ Ended, ~ Ended',
         seen'[s] # Append(seen[s], Len(seen[s]) + 1)
  PROVE  Outstanding(s)' /\ IF Runner THEN Nearer(s) ELSE AsNear(s)
<1>1. /\ InFront(s) \in Nat /\ ctl.boots \in Nat /\ Steps \in Nat
      /\ ctl \in CtlType
  BY FrontIs, StepsAre, Values
<1>2. CASE Runner /\ Dispatch
  <2>1. Outstanding(s)' /\ InFront(s)' \in Nat /\ InFront(s)' < InFront(s)
    BY <1>2, FrontShrinks
  <2>2. ctl'.boots = ctl.boots
    BY <1>1, <1>2 DEF Dispatch, CtlType
  <2>3. Turns(s)' < Turns(s)
    BY <1>1, <2>1, <2>2 DEF Turns
  <2> QED BY <1>2, <2>1, <2>3 DEF Nearer
<1>3. CASE Runner /\ ~ Dispatch
  <2>1. /\ Outstanding(s)' /\ InFront(s)' \in Nat /\ InFront(s)' <= InFront(s)
        /\ Place(s)' \in 1 .. Len(Way')
    BY <1>3, QueueMoves, FrontStays
  <2>2. CASE NextStage
    <3>1. ctl'.boots = ctl.boots - 1
      BY <1>1, <2>2 DEF NextStage, CtlType
    <3>2. Turns(s)' < Turns(s)
      BY <1>1, <2>1, <3>1 DEF Turns
    <3> QED BY <1>3, <2>1, <3>2 DEF Nearer
  <2>3. CASE ~ NextStage
    <3>1. Len(Way') > 0
      <4>1. Way' \in Seq(Event)
        BY <1>3, QueueMoves, WayIsLonger DEF QueueMove, Inserted
      <4>2. Len(Way') \in Nat
        BY <4>1, LenProperties
      <4> QED BY <2>1, <4>2
    <3>2. Steps' < Steps /\ ctl'.boots = ctl.boots
      BY <1>3, <2>3, <3>1, StepsShrink
    <3>3. Turns(s)' <= Turns(s) /\ Turns(s)' \in Nat /\ Turns(s) \in Nat
      BY <1>1, <2>1, <3>2 DEF Turns
    <3>4. Nearer(s)
      BY <3>2, <3>3 DEF Nearer
    <3> QED BY <1>3, <2>1, <3>4
  <2> QED BY <2>2, <2>3
<1>4. CASE ~ Runner
  <2>1. UserInput \/ UserCloses \/ Tick \/ LimitPasses \/ UNCHANGED vars
    BY <1>4, Zenon DEF Next, World, Over
  <2>2. ctl' = ctl
    BY <2>1, Zenon DEF UserInput, UserCloses, Tick, LimitPasses, vars
  <2>3. rt'.queue = rt.queue
    <3>1. CASE Tick
      <4>1. PICK l : rt' = [rt EXCEPT !.lag = l]
        BY <3>1 DEF Tick
      <4> QED BY <4>1, Values DEF RtType
    <3>2. CASE ~ Tick
      BY <2>1, <3>2, Zenon DEF UserInput, UserCloses, LimitPasses, vars
    <3> QED BY <3>1, <3>2
  <2>4. ~ Dispatch
    BY <1>4 DEF Runner, Drive
  <2>5. Outstanding(s)' /\ InFront(s)' = InFront(s)
    BY <2>3, <2>4, QueueMoves, FrontStays
  <2>6. Turns(s)' = Turns(s)
    BY <2>2, <2>5 DEF Turns
  <2>7. Steps' = Steps
    BY <2>2, <2>3 DEF Steps
  <2> QED BY <1>4, <2>5, <2>6, <2>7 DEF AsNear
<1> QED BY <1>2, <1>3, <1>4

LEMMA CalmInit ==
  ASSUME Init
  PROVE  Calm
BY DEF Init, Calm

LEMMA CalmHolds == Spec => []Calm
<1>1. Init => Calm
  BY CalmInit
<1>2. TypeOK /\ Calm /\ [Next]_vars => Calm'
  BY CalmStep
<1> QED BY <1>1, <1>2, LoopTypes, PTL DEF Spec

(* What EventsServed rests on, for every source: while a marked event has  *)
(* not been dispatched, each step of the runner dispatches it, ends the    *)
(* runner or brings the event nearer - fewer stages come before its own,   *)
(* or as many and fewer steps before the next dispatch - and nothing the   *)
(* user, the guest or the clock does takes it away again.                  *)
EventsComeNearer ==
  [][\A s \in Sources : Outstanding(s) /\ ~ Ended =>
       /\ Turns(s) \in Nat /\ Steps \in Nat
       /\ \/ Ended'
          \/ seen'[s] = Append(seen[s], Len(seen[s]) + 1)
          \/ Outstanding(s)' /\ IF Runner THEN Nearer(s) ELSE AsNear(s)]_vars

(* Every step of the runner dispatches a waiting event, ends the runner or *)
(* brings the dispatch nearer, whatever the guest, user and clock do.      *)
THEOREM EventsAlwaysComeNearer == Spec => EventsComeNearer
<1>1. /\ TypeOK /\ PlacesAgree /\ Calm /\ EventsInOrder
      /\ TypeOK' /\ EventsInOrder' /\ [Next]_vars
      => [\A s \in Sources : Outstanding(s) /\ ~ Ended =>
            /\ Turns(s) \in Nat /\ Steps \in Nat
            /\ \/ Ended'
               \/ seen'[s] = Append(seen[s], Len(seen[s]) + 1)
               \/ Outstanding(s)' /\ IF Runner THEN Nearer(s) ELSE AsNear(s)]_vars
  <2> SUFFICES ASSUME TypeOK, PlacesAgree, Calm, EventsInOrder, TypeOK', EventsInOrder',
                      [Next]_vars, NEW s \in Sources, Outstanding(s), ~ Ended
               PROVE  /\ Turns(s) \in Nat /\ Steps \in Nat
                      /\ \/ Ended'
                         \/ seen'[s] = Append(seen[s], Len(seen[s]) + 1)
                         \/ Outstanding(s)' /\ IF Runner THEN Nearer(s) ELSE AsNear(s)
    BY Zenon
  <2>1. Turns(s) \in Nat /\ Steps \in Nat
    BY FrontIs, StepsAre DEF Turns
  <2> QED BY <2>1, NearerStep
<1>2. LoopInv => TypeOK /\ PlacesAgree
  BY DEF LoopInv
<1> QED BY <1>1, <1>2, LoopInvHolds, CalmHolds, EventsStayInOrder, PTL DEF Spec, EventsComeNearer

-----------------------------------------------------------------------------
(* The end of a runner whose guest asked to exit. *)

(* The guest has called exit, and the window is not open (any more). *)
Ending == host.exit /\ win.mode # "open"

(* The stages that may still come: one for each event on its way, one for  *)
(* the event of an armed timer, and those of the start.                    *)
ToDo == Len(Way) + ctl.boots + IF rt.due = None THEN 0 ELSE 1

(* The idle polls that may still come before the next stage. *)
Naps == IF ctl.busy /\ ctl.at # "top" THEN StepLimit + 1 ELSE StepLimit - ctl.idle

(* The steps until the next of either. *)
Hops == CASE ctl.at = "pop"  -> 0
          [] ctl.at = "top"  -> 1
          [] ctl.at = "idle" -> 2
          [] ctl.at = "boot" -> 3
          [] ctl.at = "head" -> 4
          [] OTHER           -> 0

SoonerOver == \/ ToDo' < ToDo
              \/ ToDo' = ToDo /\ Naps' < Naps
              \/ ToDo' = ToDo /\ Naps' = Naps /\ Hops' < Hops
AsSoon == ToDo' = ToDo /\ Naps' = Naps /\ Hops' = Hops

LEMMA RanksAre ==
  ASSUME TypeOK, [Next]_vars
  PROVE  /\ ToDo \in Nat /\ Naps \in Nat /\ Hops \in Nat
         /\ ctl.at = "pop" => Hops = 0
         /\ ctl.at = "top" => Hops = 1
         /\ ctl.at = "idle" => Hops = 2
         /\ ctl.at = "boot" => Hops = 3
         /\ ctl.at = "head" => Hops = 4
         /\ ctl.idle \in 0 .. StepLimit /\ StepLimit \in Nat /\ ctl.boots \in Nat
<1>1. /\ ctl.at \in Places /\ ctl.idle \in 0 .. StepLimit /\ StepLimit \in Nat /\ ctl.boots \in Nat
      /\ ctl.busy \in BOOLEAN
  BY Values, LimitAssumption DEF CtlType
<1>2. ToDo \in Nat
  BY <1>1, WayIsLonger DEF ToDo
<1>3. Naps \in Nat
  BY <1>1 DEF Naps
<1> QED BY <1>1, <1>2, <1>3 DEF Hops, Places

(* The window is not opened again. *)
LEMMA StaysShut ==
  ASSUME TypeOK, win.mode # "open", NEW dirty \in BOOLEAN, NEW ok \in BOOLEAN, Shows(dirty, ok)
  PROVE  win'.mode # "open"
<1>1. Shown(win, dirty) = win \/ (Shown(win, dirty) = Pumped(win) /\ win.mode # "none")
  BY DEF Shown, Pumped
<1>2. win.mode # "none" => Pumped(win).mode \in {"closed", win.mode}
  <2> HAVE win.mode # "none"
  <2>1. PICK m, l : l = win.pending \o win.inbox /\ m = IF QuitPosted THEN "closed" ELSE win.mode
    OBVIOUS
  <2>2. Pumped(win) = [mode |-> m, inbox |-> << >>, pending |-> l]
    BY <2>1, Zenon DEF Pumped, QuitPosted
  <2>3. Pumped(win).mode = m
    BY <2>2
  <2> QED BY <2>1, <2>3
<1>3. win'.mode = Shown(win, dirty).mode
  BY DEF Shows
<1> QED BY <1>1, <1>2, <1>3

LEMMA EndingStays ==
  ASSUME TypeOK, Calm, Ending, [Next]_vars
  PROVE  Ending'
<1>1. /\ host \in IdleHost /\ host \in HostType /\ host.exit /\ win.mode # "open"
      /\ host = [command |-> host.command, events |-> host.events,
                 dirty |-> host.dirty, exit |-> host.exit]
      /\ host.dirty \in BOOLEAN
  BY Values, IdleHosts DEF Ending, HostType
<1>2. Undirtied(host).exit /\ NoRequests(Undirtied(host)).exit
  <2>1. /\ Undirtied(host) = [command |-> host.command, events |-> host.events,
                              dirty |-> FALSE, exit |-> host.exit]
        /\ NoRequests(Undirtied(host)) = [command |-> None, events |-> << >>,
                                          dirty |-> FALSE, exit |-> host.exit]
    BY <1>1, Reset, Zenon
  <2> QED BY <1>1, <2>1
<1>3. CASE StepHead
  <2>1. host' = NoRequests(Undirtied(host)) \/ host' = Undirtied(host)
    BY <1>3, Zenon DEF StepHead
  <2>2. PICK ok \in BOOLEAN : Shows(host.dirty, ok)
    BY <1>3, StepHeadIs
  <2> QED BY <1>1, <1>2, <2>1, <2>2, StaysShut DEF Ending
<1>4. CASE Top
  <2>1. host' = Undirtied(host)
    BY <1>4, Zenon DEF Top
  <2>2. PICK ok \in BOOLEAN : Shows(host.dirty, ok)
    BY <1>4, TopIs
  <2> QED BY <1>1, <1>2, <2>1, <2>2, StaysShut DEF Ending
<1>5. CASE Wait
  <2>1. win' = UiWin(win, FALSE, TRUE) /\ host' = host
    BY <1>5 DEF Wait
  <2>2. Shows(FALSE, TRUE)
    BY <2>1, Values, UiIs DEF Shows
  <2> QED BY <1>1, <2>1, <2>2, StaysShut DEF Ending
<1>6. CASE HostCall
  BY <1>1, <1>6, HostCallIs DEF Calm
<1>7. CASE ~ (StepHead \/ Top \/ Wait \/ HostCall)
  <2>1. UNCHANGED <<host, win>>
    BY <1>1, <1>7, Zenon DEF Next, Runner, RunLoop, RunMrp, Drive, World, BudgetExhausted,
       GuestStep, Fault, NextStage, EnterDrive, ReturnUndriven, Dispatch, Repoll, GiveUp, Wake,
       UserInput, UserCloses, Tick, LimitPasses, Over, vars
  <2> QED BY <1>1, <2>1 DEF Ending
<1> QED BY <1>3, <1>4, <1>5, <1>6, <1>7

(* A step that puts everything in the queue leaves as many stages to do:   *)
(* a timer that has run out is an event instead. *)
LEMMA CollectsToDo ==
  ASSUME TypeOK, [Next]_vars, Collects, ctl'.boots = ctl.boots
  PROVE  ToDo' = ToDo
<1>1. Way \in Seq(Event) /\ Len(Way) \in Nat /\ ctl.boots \in Nat
  BY WayIsLonger, StepsAre
<1>2. CASE Way' = Way /\ (rt'.due = None <=> rt.due = None)
  BY <1>2 DEF ToDo
<1>3. CASE Way' = Append(Way, Timer) /\ rt.due # None /\ rt'.due = None
  <2>1. Len(Way') = Len(Way) + 1
    BY <1>1, <1>3, TimerIsEvent, AppendProperties
  <2>2. PICK a, a2, b : a = Len(Way) /\ a2 = Len(Way') /\ b = ctl.boots
    OBVIOUS
  <2>3. ToDo = a + b + 1 /\ ToDo' = a2 + b + 0 /\ a2 = a + 1
    BY <1>3, <2>1, <2>2 DEF ToDo
  <2> QED BY <1>1, <2>2, <2>3
<1> QED BY <1>2, <1>3 DEF Collects

(* A step elsewhere than at the top, that leaves the locals of the loop. *)
LEMMA NapsStay ==
  ASSUME TypeOK, [Next]_vars, ctl.at # "top",
         ctl'.busy = ctl.busy, ctl'.idle = ctl.idle
  PROVE  Naps' \in Nat /\ Naps' <= Naps
<1>1. ctl.idle \in 0 .. StepLimit /\ StepLimit \in Nat
  BY RanksAre
<1>2. /\ Naps = IF ctl.busy THEN StepLimit + 1 ELSE StepLimit - ctl.idle
      /\ Naps' = IF ctl.busy /\ ctl'.at # "top" THEN StepLimit + 1 ELSE StepLimit - ctl.idle
  BY DEF Naps
<1> QED BY <1>1, <1>2

LEMMA HopsSooner ==
  ASSUME TypeOK, [Next]_vars, ToDo' = ToDo, Naps' \in Nat, Naps' <= Naps, Hops' < Hops
  PROVE  SoonerOver
BY RanksAre DEF SoonerOver

LEMMA NapsSooner ==
  ASSUME TypeOK, [Next]_vars, ToDo' = ToDo, Naps' < Naps
  PROVE  SoonerOver
BY DEF SoonerOver

(* The same stages are left to do, where nothing of them is touched. *)
LEMMA ToDoStays ==
  ASSUME TypeOK, [Next]_vars, UNCHANGED <<rt, host, win>>, ctl'.boots = ctl.boots
  PROVE  ToDo' = ToDo
BY DEF ToDo, Way

(* run_loop, once the guest has asked to exit: the stage ends. *)
LEMMA StageEnds ==
  ASSUME TypeOK, Calm, Ending, [Next]_vars, BudgetExhausted \/ StepHead
  PROVE  SoonerOver
<1>1. ctl \in CtlType /\ ctl.at = "head"
  BY Values DEF BudgetExhausted, StepHead
<1>2. EndStage
  <2>1. CASE BudgetExhausted
    BY <2>1 DEF BudgetExhausted
  <2>2. CASE StepHead
    BY <2>2, StepHeadCollects DEF Ending, MayStep
  <2> QED BY <2>1, <2>2
<1>3. /\ ctl'.at \in {"boot", "pop"} /\ ctl'.boots = ctl.boots
      /\ ctl'.busy = ctl.busy /\ ctl'.idle = ctl.idle
  BY <1>1, <1>2 DEF EndStage, CtlType
<1>4. ToDo' = ToDo
  <2>1. CASE BudgetExhausted
    BY <1>3, <2>1, ToDoStays DEF BudgetExhausted
  <2>2. CASE StepHead
    BY <1>3, <2>2, StepHeadCollects, CollectsToDo
  <2> QED BY <2>1, <2>2
<1>5. Hops' \in {0, 3}
  BY <1>3 DEF Hops
<1> QED BY <1>1, <1>3, <1>4, <1>5, NapsStay, HopsSooner, RanksAre

(* A stage of the start, or of an event, is one less to do. *)
LEMMA StageTaken ==
  ASSUME TypeOK, Ending, [Next]_vars, NextStage \/ Dispatch
  PROVE  SoonerOver
<1>1. ctl \in CtlType /\ ctl.boots \in Nat /\ Way \in Seq(Event) /\ Len(Way) \in Nat
  BY Values, RanksAre, WayIsLonger
<1>2. PICK a, a2, b, b2 : /\ a = Len(Way) /\ a2 = Len(Way')
                          /\ b = ctl.boots /\ b2 = ctl'.boots
  OBVIOUS
<1>3. /\ ToDo = a + b + (IF rt.due = None THEN 0 ELSE 1)
      /\ ToDo' = a2 + b2 + (IF rt'.due = None THEN 0 ELSE 1)
  BY <1>2 DEF ToDo
<1>4. CASE NextStage
  <2>1. b2 = b - 1
    BY <1>1, <1>2, <1>4 DEF NextStage, CtlType
  <2>2. a2 = a /\ rt' = rt
    BY <1>2, <1>4 DEF NextStage, Way
  <2>3. ToDo' < ToDo
    BY <1>1, <1>2, <1>3, <2>1, <2>2
  <2> QED BY <2>3 DEF SoonerOver
<1>5. CASE Dispatch
  <2>1. b2 = b
    BY <1>1, <1>2, <1>5 DEF Dispatch, CtlType
  <2>2. rt'.due = rt.due /\ rt'.queue = Tail(rt.queue) /\ rt.queue # << >> /\ win' = win
    BY <1>5, DispatchIs DEF Dispatch
  <2>3. PICK e : Inserted(Way', Way, 1, e)
    <3>1. Way = Ahead(rt.queue, win) /\ Way' = Ahead(rt'.queue, win')
      BY WayIs
    <3> QED BY <2>2, <3>1, Values, TimerIsEvent, InsertedAhead
  <2>4. a = a2 + 1 /\ a2 \in Nat
    <3>1. Way' \in Seq(Event) /\ Len(Way) = Len(Way') + 1
      BY <2>3 DEF Inserted
    <3>2. Len(Way') \in Nat
      BY <3>1, LenProperties
    <3> QED BY <1>2, <3>1, <3>2
  <2>5. ToDo' < ToDo
    BY <1>1, <1>2, <1>3, <2>1, <2>2, <2>4
  <2> QED BY <2>5 DEF SoonerOver
<1> QED BY <1>4, <1>5

(* drive_runtime_events, from one idle poll to the next. *)
LEMMA PollsAgain ==
  ASSUME TypeOK, Calm, Ending, [Next]_vars, Top \/ Repoll \/ Wait \/ Wake, ~ Ended'
  PROVE  SoonerOver
<1>1. ctl \in CtlType /\ ctl.idle \in 0 .. StepLimit /\ StepLimit \in Nat
  BY Values, RanksAre
<1>2. CASE Top
  <2>1. ctl' = [ctl EXCEPT !.busy = FALSE, !.at = IF expired THEN "done" ELSE "pop"]
    BY <1>2, TopCollects
  <2>2. PICK a : a = IF expired THEN "done" ELSE "pop"
    OBVIOUS
  <2>3. /\ ctl'.at = a /\ ctl'.boots = ctl.boots /\ ctl'.busy = FALSE
        /\ ctl'.idle = ctl.idle /\ ctl.at = "top"
    BY <1>1, <1>2, <2>1, <2>2 DEF CtlType, Top
  <2>4. ctl'.at = "pop"
    BY <2>2, <2>3 DEF Ended
  <2>5. ToDo' = ToDo
    BY <1>2, <2>3, TopCollects, CollectsToDo
  <2>6. Naps' = Naps /\ Naps \in Nat
    BY <2>3, RanksAre DEF Naps
  <2>7. Hops' = 0 /\ Hops = 1
    BY <2>3, <2>4 DEF Hops
  <2> QED BY <2>5, <2>6, <2>7 DEF SoonerOver
<1>3. CASE Repoll
  <2>1. /\ ctl'.at = "top" /\ ctl'.boots = ctl.boots /\ ctl'.idle = 0
        /\ ctl.busy /\ ctl.at = "pop"
    BY <1>1, <1>3 DEF Repoll, AfterEvents, CtlType
  <2>2. ToDo' = ToDo
    BY <1>3, <2>1, ToDoStays DEF Repoll
  <2>3. Naps' = StepLimit - 0 /\ Naps = StepLimit + 1
    BY <2>1 DEF Naps
  <2> QED BY <1>1, <2>2, <2>3, NapsSooner
<1>4. CASE Wait
  <2>1. ctl.at = "pop" /\ ~ ctl.busy /\ KeepsWaiting /\ Idles
    BY <1>4 DEF Wait, Sleeps, Idles
  <2>2. rt.due # None /\ ctl.idle < StepLimit
    BY <2>1 DEF KeepsWaiting, Ending
  <2>3. PICK n : n = Min({ctl.idle + 1, StepLimit})
    OBVIOUS
  <2>4. n = ctl.idle + 1
    <3>1. ctl.idle + 1 \in Int /\ StepLimit \in Int /\ ctl.idle + 1 <= StepLimit
      BY <1>1, <2>2
    <3> QED BY <2>3, <3>1, OfTwo
  <2>5. /\ ctl'.at = "idle" /\ ctl'.boots = ctl.boots /\ ctl'.busy = ctl.busy
        /\ ctl'.idle = n
    BY <1>1, <2>1, <2>3 DEF Idles, CtlType
  <2>6. ToDo' = ToDo
    BY <1>4, <2>5, WaitCollects, CollectsToDo
  <2>7. Naps' = StepLimit - n /\ Naps = StepLimit - ctl.idle
    BY <2>1, <2>5 DEF Naps
  <2> QED BY <1>1, <2>4, <2>6, <2>7, NapsSooner
<1>5. CASE Wake
  <2>1. /\ ctl.at = "idle" /\ ctl'.at = "top" /\ ctl'.boots = ctl.boots
        /\ ctl'.busy = ctl.busy /\ ctl'.idle = ctl.idle
    BY <1>1, <1>5 DEF Wake, CtlType
  <2>2. ToDo' = ToDo
    BY <1>5, <2>1, ToDoStays DEF Wake
  <2>3. Hops' = 1 /\ Hops = 2
    BY <2>1 DEF Hops
  <2> QED BY <2>1, <2>2, <2>3, NapsStay, HopsSooner
<1> QED BY <1>2, <1>3, <1>4, <1>5

LEMMA SoonerStep ==
  ASSUME TypeOK, Calm, Ending, [Next]_vars, ~ Ended, ~ Ended'
  PROVE  IF Runner THEN SoonerOver ELSE AsSoon
<1>1. ctl \in CtlType
  BY Values
<1>2. CASE BudgetExhausted \/ StepHead
  BY <1>2, StageEnds DEF Runner, RunLoop
<1>3. CASE NextStage \/ Dispatch
  BY <1>3, StageTaken DEF Runner, RunMrp, Drive
<1>4. CASE Top \/ Repoll \/ Wait \/ Wake
  BY <1>4, PollsAgain DEF Runner, Drive
<1>5. CASE HostCall \/ GuestStep \/ Fault
  <2>1. ctl.at = "exec"
    BY <1>5, HostCallIs DEF GuestStep, Fault
  <2> QED BY <2>1 DEF Ending, Calm
<1>6. CASE ReturnUndriven \/ GiveUp
  BY <1>1, <1>6 DEF ReturnUndriven, GiveUp, Ended, CtlType
<1>7. CASE EnterDrive
  <2>1. /\ ctl.at = "boot" /\ ctl'.at = "top" /\ ctl'.boots = ctl.boots
        /\ ctl'.busy = ctl.busy /\ ctl'.idle = ctl.idle
    BY <1>1, <1>7 DEF EnterDrive, CtlType
  <2>2. ToDo' = ToDo
    BY <1>7, <2>1, ToDoStays DEF EnterDrive
  <2>3. Hops' = 1 /\ Hops = 3
    BY <2>1 DEF Hops
  <2>4. SoonerOver
    BY <2>1, <2>2, <2>3, NapsStay, HopsSooner
  <2> QED BY <1>7, <2>4 DEF Runner, RunMrp
<1>8. CASE ~ Runner
  <2>1. Tick \/ LimitPasses \/ UNCHANGED vars
    BY <1>8, Zenon DEF Next, World, Over, UserInput, UserCloses, Ending
  <2>2. ctl' = ctl /\ host' = host /\ win' = win
    BY <2>1, Zenon DEF Tick, LimitPasses, vars
  <2>3. rt'.queue = rt.queue /\ rt'.due = rt.due
    <3>1. CASE Tick
      <4>1. PICK l : rt' = [rt EXCEPT !.lag = l]
        BY <3>1 DEF Tick
      <4> QED BY <4>1, Values DEF RtType
    <3>2. CASE ~ Tick
      BY <2>1, <3>2, Zenon DEF LimitPasses, vars
    <3> QED BY <3>1, <3>2
  <2>4. ToDo' = ToDo
    BY <2>2, <2>3 DEF ToDo, Way
  <2>5. Naps' = Naps /\ Hops' = Hops
    BY <2>2 DEF Naps, Hops
  <2> QED BY <1>8, <2>4, <2>5 DEF AsSoon
<1> QED BY <1>2, <1>3, <1>4, <1>5, <1>6, <1>7, <1>8, Zenon DEF Runner, RunLoop, RunMrp, Drive

(* What ExitEnds rests on: after the guest has asked to exit and with no   *)
(* window open, every step of the runner ends it or brings its end nearer: *)
(* fewer stages to come, or as many and fewer idle polls, or as many and   *)
(* fewer steps to the next of either.  Nothing else puts the end off.      *)
EndComesNearer ==
  [][Ending /\ ~ Ended =>
       /\ ToDo \in Nat /\ Naps \in Nat /\ Hops \in Nat
       /\ Ending'
       /\ Ended' \/ IF Runner THEN SoonerOver ELSE AsSoon]_vars

(* After the exit call, with no window open, every step of the runner is  *)
(* one nearer to its end, and nothing beside the runner puts the end off.  *)
THEOREM EndAlwaysComesNearer == Spec => EndComesNearer
<1>1. TypeOK /\ Calm /\ [Next]_vars
      => [Ending /\ ~ Ended =>
            /\ ToDo \in Nat /\ Naps \in Nat /\ Hops \in Nat
            /\ Ending'
            /\ Ended' \/ IF Runner THEN SoonerOver ELSE AsSoon]_vars
  <2> SUFFICES ASSUME TypeOK, Calm, [Next]_vars, Ending, ~ Ended
               PROVE  /\ ToDo \in Nat /\ Naps \in Nat /\ Hops \in Nat
                      /\ Ending'
                      /\ Ended' \/ IF Runner THEN SoonerOver ELSE AsSoon
    BY Zenon
  <2> QED BY RanksAre, EndingStays, SoonerStep
<1> QED BY <1>1, LoopTypes, CalmHolds, PTL DEF Spec, EndComesNearer

(* Between the polls: a sleep is never longer than the clock of the model  *)
(* can count, nothing but the end of it takes the runner out of it or      *)
(* makes it longer, and each tick of the clock is one millisecond less.    *)
SleepsEnd ==
  [][ctl.at = "idle" =>
       /\ rt.lag < SleepTime => rt.lag < Horizon
       /\ \/ Wake
          \/ /\ ctl'.at = "idle" /\ SleepTime' = SleepTime /\ rt'.lag >= rt.lag
             /\ Tick /\ rt.lag < SleepTime => rt'.lag = rt.lag + 1]_vars

LEMMA SleepBounds ==
  ASSUME TypeOK
  PROVE  SleepTime \in 1 .. MaxSleep /\ SleepTime <= Horizon /\ rt.lag \in Nat
<1>1. /\ Horizon \in Nat /\ MaxSleep \in 1 .. Horizon /\ rt.lag \in Nat
      /\ rt.due # None => rt.due \in Nat
  BY HorizonBounds, TimeTypes
<1>2. CASE rt.due = None
  BY <1>1, <1>2 DEF SleepTime
<1>3. CASE rt.due # None
  <2>1. PICK m, n : m = Max({rt.due, 1}) /\ n = Min({Max({rt.due, 1}), MaxSleep})
    OBVIOUS
  <2>2. m = IF rt.due <= 1 THEN 1 ELSE rt.due
    BY <1>1, <1>3, <2>1, OfTwo
  <2>3. m \in Nat \ {0}
    BY <1>1, <1>3, <2>2
  <2>4. n = IF m <= MaxSleep THEN m ELSE MaxSleep
    <3>1. m \in Int /\ MaxSleep \in Int
      BY <1>1, <2>3
    <3>2. n = Min({m, MaxSleep})
      BY <2>1
    <3> QED BY <3>1, <3>2, OfTwo
  <2>5. SleepTime = n
    BY <1>3, <2>1 DEF SleepTime
  <2> QED BY <1>1, <2>3, <2>4, <2>5
<1> QED BY <1>2, <1>3

LEMMA SleepStep ==
  ASSUME TypeOK, [Next]_vars, ctl.at = "idle", ~ Wake
  PROVE  /\ ctl'.at = "idle" /\ SleepTime' = SleepTime /\ rt'.lag >= rt.lag
         /\ Tick /\ rt.lag < SleepTime => rt'.lag = rt.lag + 1
<1>1. ~ HostCall
  BY HostCallIs
<1>2. UserInput \/ UserCloses \/ Tick \/ LimitPasses \/ UNCHANGED vars
  BY <1>1 DEF Next, Runner, RunLoop, BudgetExhausted, StepHead, GuestStep, Fault, RunMrp,
     NextStage, EnterDrive, ReturnUndriven, Drive, Top, Dispatch, Repoll, Wait, GiveUp,
     World, Over
<1>3. ctl' = ctl
  BY <1>2, Zenon DEF UserInput, UserCloses, Tick, LimitPasses, vars
<1>4. rt.lag \in 0 .. Horizon /\ Horizon \in Nat
      /\ SleepTime <= Horizon /\ SleepTime \in 1 .. MaxSleep /\ MaxSleep \in Nat
  BY SleepBounds, TimeTypes, HorizonBounds
<1>5. CASE Tick
  <2>1. PICK l : l = Min({rt.lag + 1, Horizon})
    OBVIOUS
  <2>2. rt' = [rt EXCEPT !.lag = l]
    BY <1>5, <2>1 DEF Tick
  <2>3. rt'.due = rt.due /\ rt'.lag = l
    BY <2>2, Values DEF RtType
  <2>4. l = IF rt.lag + 1 <= Horizon THEN rt.lag + 1 ELSE Horizon
    <3>1. rt.lag + 1 \in Int /\ Horizon \in Int
      BY <1>4
    <3> QED BY <2>1, <3>1, OfTwo
  <2>5. SleepTime' = SleepTime
    BY <2>3 DEF SleepTime
  <2>6. rt'.lag >= rt.lag /\ (rt.lag < SleepTime => rt'.lag = rt.lag + 1)
    BY <1>4, <2>3, <2>4
  <2> QED BY <1>3, <2>5, <2>6
<1>6. CASE ~ Tick
  <2>1. rt' = rt
    BY <1>2, <1>6, Zenon DEF UserInput, UserCloses, LimitPasses, vars
  <2>2. SleepTime' = SleepTime /\ rt'.lag >= rt.lag
    BY <1>4, <2>1 DEF SleepTime
  <2> QED BY <1>3, <1>6, <2>2
<1> QED BY <1>5, <1>6

(* thread::sleep between two polls: the clock alone brings every sleep to  *)
(* its end, in at most 10 ms, and nothing prolongs it.                     *)
THEOREM SleepsComeToAnEnd == Spec => SleepsEnd
<1>1. TypeOK /\ [Next]_vars
      => [ctl.at = "idle" =>
            /\ rt.lag < SleepTime => rt.lag < Horizon
            /\ \/ Wake
               \/ /\ ctl'.at = "idle" /\ SleepTime' = SleepTime /\ rt'.lag >= rt.lag
                  /\ Tick /\ rt.lag < SleepTime => rt'.lag = rt.lag + 1]_vars
  <2> SUFFICES ASSUME TypeOK, [Next]_vars, ctl.at = "idle"
               PROVE  /\ rt.lag < SleepTime => rt.lag < Horizon
                      /\ \/ Wake
                         \/ /\ ctl'.at = "idle" /\ SleepTime' = SleepTime /\ rt'.lag >= rt.lag
                            /\ Tick /\ rt.lag < SleepTime => rt'.lag = rt.lag + 1
    BY Zenon
  <2>1. rt.lag < SleepTime => rt.lag < Horizon
    <3>1. SleepTime <= Horizon /\ rt.lag \in Nat /\ SleepTime \in 1 .. MaxSleep
          /\ MaxSleep \in Nat /\ Horizon \in Nat
      BY SleepBounds, HorizonBounds
    <3> QED BY <3>1
  <2> QED BY <2>1, SleepStep
<1> QED BY <1>1, LoopTypes, PTL DEF Spec, SleepsEnd
=============================================================================
