-------------------------- MODULE BootstrapProofs --------------------------
(***************************************************************************)
(* The properties of Bootstrap hold for any choice of kinds of packages,   *)
(* and for any number of host calls, registrations and events.             *)
(***************************************************************************)
EXTENDS Bootstrap, TLAPS

(* What is not in the properties: where in the script a stage is, and that *)
(* as long as nothing has gone wrong the registers hold what was told.     *)
Unspoiled == NoFaults /\ ~host.exit

CameBack ==
  Unspoiled => FALSE \notin hung /\ (StillRunning \in stages \/ hung = {})

DsmTold ==
  kind = "legacy" =>
    /\ at = 5 /\ ~cpu.running => told.dsm = cpu.r0
    /\ at = 5 /\ phase = "between" /\ Unspoiled => ~cpu.running
    /\ at > 5 /\ Unspoiled => told.dsm = dsm

StartTold ==
  kind = "legacy" =>
    /\ at = 6 /\ ~cpu.running => told.start = cpu.r0
    /\ at = 6 /\ phase = "between" /\ Unspoiled =>
         ~cpu.running \/ StillRunning \in stages
    /\ at > 6 /\ Unspoiled => told.start = start \/ StillRunning \in stages

(* A legacy package is reported on after ext_init or after the events. *)
Reported == kind = "legacy" /\ phase = "report" => first = None \/ at = 7

BootInv ==
  /\ TypeOK /\ HelpersAsRegistered
  /\ CameBack /\ DsmTold /\ StartTold /\ Reported

(* The script, stage by stage, and where each label stands in it. *)
LEMMA ScriptPlaces ==
  ASSUME TypeOK
  PROVE  /\ kind = "legacy" => Driving = 7 /\ (IsLast <=> at = 6)
         /\ kind # "legacy" => Driving = 9 /\ (IsLast <=> at = 8)
         /\ Label = "ext_init" <=> at = 1
         /\ Label = "helper" <=> at \in {2, 3, 4}
         /\ Label = "load" <=> kind # "legacy" /\ at = 5
         /\ Label = "own" <=> kind # "legacy" /\ at \in {6, 7}
         /\ Label = "own_init" <=> kind # "legacy" /\ at = 8
         /\ Label = "dsm_init" <=> kind = "legacy" /\ at = 5
         /\ Label = "start_dsm" <=> kind = "legacy" /\ at = 6
         /\ Label = "event" <=> at = Driving
<1>1. CASE kind = "legacy"
  <2>1. Len(Script) = 6  BY <1>1 DEF Script
  <2>2. at \in 1 .. 7  BY <2>1 DEF TypeOK, Driving
  <2>3. at \in 1 .. 6 => Script[at] = <<"ext_init", "helper", "helper",
                                 "helper", "dsm_init", "start_dsm">>[at]
    BY <1>1 DEF Script
  <2> QED  BY <1>1, <2>1, <2>2, <2>3 DEF Driving, IsLast, Label
<1>2. CASE kind # "legacy"
  <2>1. Len(Script) = 8  BY <1>2 DEF Script
  <2>2. at \in 1 .. 9  BY <2>1 DEF TypeOK, Driving
  <2>3. at \in 1 .. 8 => Script[at] = <<"ext_init", "helper", "helper",
                            "helper", "load", "own", "own", "own_init">>[at]
    BY <1>2 DEF Script
  <2> QED  BY <1>2, <2>1, <2>2, <2>3 DEF Driving, IsLast, Label
<1> QED  BY <1>1, <1>2

(* What every step but the end of a stage leaves alone. *)
LEMMA FaultsKept ==
  ASSUME stages' = stages
  PROVE  (NoFaults' <=> NoFaults) /\ StillRunning' = StillRunning
BY DEF NoFaults, StillRunning

(* The initial states. *)
LEMMA BootInit == Init => BootInv
<1> SUFFICES ASSUME Init PROVE BootInv
  OBVIOUS
<1>0. Driving \in {7, 9}
  BY DEF Driving, Script
<1>1. TypeOK
  <2>1. host \in [helper : Helpers \cup {None}, exit : BOOLEAN, loading : BOOLEAN]
    BY DEF Init
  <2>2. cpu \in [running : BOOLEAN, r0 : Values]
    BY DEF Init, Values
  <2>3. told \in [dsm : Values \cup {None}, start : Values \cup {None}]
    BY DEF Init
  <2>4. at \in 1 .. Driving
    BY <1>0 DEF Init
  <2> QED  BY <2>1, <2>2, <2>3, <2>4, KindAssumption DEF Init, TypeOK, Values
<1>2. HelpersAsRegistered
  BY KindAssumption DEF Init, HelpersAsRegistered, LoadAt
<1>3. CameBack /\ DsmTold /\ StartTold /\ Reported
  BY DEF Init, CameBack, DsmTold, StartTold, Reported
<1> QED  BY <1>1, <1>2, <1>3 DEF BootInv

(* Every step keeps the invariant. *)
LEMMA BootNext == BootInv /\ [Next]_vars => BootInv'
<1> SUFFICES ASSUME BootInv, [Next]_vars
             PROVE  BootInv'
  OBVIOUS
<1> USE DEF BootInv
<1>0. kind' = kind => Driving' = Driving
  BY DEF Driving, Script
<1>1. CASE Compute
  <2> USE DEF Compute, MayStep, Answers, locals
  <2>1. TypeOK'
    BY <1>0, <1>1, ScriptPlaces, KindAssumption DEF TypeOK, Values, Helpers
  <2>2. HelpersAsRegistered'
    BY <1>1, ScriptPlaces, KindAssumption DEF TypeOK, HelpersAsRegistered, LoadAt
  <2>3. CameBack' /\ DsmTold' /\ StartTold' /\ Reported'
    BY <1>1, ScriptPlaces, FaultsKept
       DEF TypeOK, CameBack, DsmTold, StartTold, Reported, Unspoiled
  <2> QED  BY <2>1, <2>2, <2>3
<1>2. CASE Returns
  <2> USE DEF Returns, MayStep, locals
  <2>1. TypeOK'
    <3>1. cpu' \in [running : BOOLEAN, r0 : Values]
      BY <1>2 DEF TypeOK
    <3>2. told' \in [dsm : Values \cup {None}, start : Values \cup {None}]
      BY <1>2 DEF TypeOK
    <3> QED  BY <1>0, <1>2, <3>1, <3>2 DEF TypeOK
  <2>2. HelpersAsRegistered'
    BY <1>2, ScriptPlaces, KindAssumption DEF TypeOK, HelpersAsRegistered, LoadAt
  <2>3. CameBack' /\ DsmTold' /\ StartTold' /\ Reported'
    <3>1. CameBack'
      BY <1>2, FaultsKept DEF CameBack, Unspoiled
    <3>2. DsmTold'
      BY <1>2, ScriptPlaces, FaultsKept DEF TypeOK, DsmTold, Unspoiled
    <3>3. StartTold'
      BY <1>2, ScriptPlaces, FaultsKept DEF TypeOK, StartTold, Unspoiled
    <3>4. Reported'
      BY <1>2, ScriptPlaces DEF TypeOK, Reported
    <3> QED  BY <3>1, <3>2, <3>3, <3>4
  <2> QED  BY <2>1, <2>2, <2>3
<1>3. CASE FunctionNew
  <2> USE DEF FunctionNew, MayStep, Answers, locals
  <2>1. TypeOK'
    BY <1>0, <1>3, ScriptPlaces, KindAssumption DEF TypeOK, Values, Helpers
  <2>2. HelpersAsRegistered'
    BY <1>3, ScriptPlaces, KindAssumption DEF TypeOK, HelpersAsRegistered, LoadAt
  <2>3. CameBack' /\ DsmTold' /\ StartTold' /\ Reported'
    BY <1>3, ScriptPlaces, FaultsKept
       DEF TypeOK, CameBack, DsmTold, StartTold, Reported, Unspoiled
  <2> QED  BY <2>1, <2>2, <2>3
<1>4. CASE PluginFunctionNew
  <2> USE DEF PluginFunctionNew, MayStep, Answers, locals
  <2>1. TypeOK'
    BY <1>0, <1>4, ScriptPlaces, KindAssumption DEF TypeOK, Values, Helpers
  <2>2. HelpersAsRegistered'
    BY <1>4, ScriptPlaces, KindAssumption DEF TypeOK, HelpersAsRegistered, LoadAt
  <2>3. CameBack' /\ DsmTold' /\ StartTold' /\ Reported'
    BY <1>4, ScriptPlaces, FaultsKept
       DEF TypeOK, CameBack, DsmTold, StartTold, Reported, Unspoiled
  <2> QED  BY <2>1, <2>2, <2>3
<1>5. CASE Exit
  <2> USE DEF Exit, MayStep, Answers, locals
  <2>1. TypeOK'
    <3>1. host' \in [helper : Helpers \cup {None}, exit : BOOLEAN, loading : BOOLEAN]
      BY <1>5 DEF TypeOK
    <3>2. cpu' \in [running : BOOLEAN, r0 : Values]
      BY <1>5 DEF TypeOK, Values
    <3> QED  BY <1>0, <1>5, <3>1, <3>2 DEF TypeOK
  <2>2. HelpersAsRegistered'
    BY <1>5, ScriptPlaces, KindAssumption DEF TypeOK, HelpersAsRegistered, LoadAt
  <2>3. CameBack' /\ DsmTold' /\ StartTold' /\ Reported'
    BY <1>5, ScriptPlaces, FaultsKept
       DEF TypeOK, CameBack, DsmTold, StartTold, Reported, Unspoiled
  <2> QED  BY <2>1, <2>2, <2>3
<1>6. CASE StageEnds
  <2>1. PICK stop \in Stops :
          Ends(stop) /\ stages' = stages \cup {[last |-> IsLast, stop |-> stop]}
    BY <1>6 DEF StageEnds
  <2>2. IsLast \in BOOLEAN
    BY DEF IsLast
  <2> DEFINE ended == [last |-> IsLast, stop |-> stop]
  <2>3. ended \in [last : BOOLEAN, stop : Stops]
    BY <2>2
  <2>4. /\ phase = "stage" /\ phase' = "between"
        /\ hung' = IF cpu.running THEN hung \cup {IsLast} ELSE hung
        /\ UNCHANGED <<kind, host, cpu, at, first, own, dsm, start, told>>
    BY <1>6 DEF StageEnds
  <2>5. TypeOK'
    <3>1. stages' \subseteq [last : BOOLEAN, stop : Stops]
      BY <2>1, <2>3 DEF TypeOK
    <3>2. hung' \subseteq BOOLEAN
      BY <2>2, <2>4 DEF TypeOK
    <3> QED  BY <1>0, <2>4, <3>1, <3>2 DEF TypeOK
  <2>6. HelpersAsRegistered'
    BY <2>4 DEF HelpersAsRegistered
  <2>7. StillRunning \in stages => StillRunning \in stages'
    BY <2>1
  <2>8. ASSUME Unspoiled'
        PROVE  /\ Unspoiled
               /\ ~cpu.running \/ (IsLast /\ StillRunning \in stages')
    <3>1. Unspoiled
      BY <2>1, <2>4, <2>8 DEF Unspoiled, NoFaults, StillRunning
    <3>2. ended.stop \in {"null_pc", "exit"} \/ ended = StillRunning
      BY <2>1, <2>8 DEF Unspoiled, NoFaults, StillRunning
    <3>3. ~host.exit
      BY <2>4, <2>8 DEF Unspoiled
    <3>4. CASE ended.stop \in {"null_pc", "exit"}
      <4>1. stop = "null_pc"
        BY <2>1, <3>3, <3>4 DEF Ends
      <4> QED  BY <2>1, <3>1, <4>1 DEF Ends
    <3>5. CASE ended = StillRunning
      <4>1. ended.last = TRUE
        BY <3>5 DEF StillRunning
      <4> QED  BY <2>1, <3>1, <3>5, <4>1
    <3> QED  BY <3>2, <3>4, <3>5
  <2>9. StillRunning' = StillRunning
    BY DEF StillRunning
  <2>10. CameBack'
    BY <2>2, <2>4, <2>7, <2>8, <2>9 DEF CameBack, TypeOK
  <2>11. DsmTold'
    BY <2>4, <2>8, ScriptPlaces DEF DsmTold
  <2>12. StartTold'
    BY <2>4, <2>7, <2>8, <2>9 DEF StartTold
  <2>13. Reported'
    BY <2>4 DEF Reported
  <2> QED  BY <2>5, <2>6, <2>10, <2>11, <2>12, <2>13
<1>7. CASE AfterExtInit
  <2> USE DEF AfterExtInit, After, NextStage, EntersHelper, locals
  <2>1. TypeOK'
    <3>1. host' \in [helper : Helpers \cup {None}, exit : BOOLEAN, loading : BOOLEAN]
      BY <1>7 DEF TypeOK
    <3>2. cpu' \in [running : BOOLEAN, r0 : Values]
      <4>1. [running |-> TRUE, r0 |-> "other"] \in [running : BOOLEAN, r0 : Values]
        BY DEF Values
      <4> QED  BY <1>7, <4>1 DEF TypeOK
    <3>3. at' \in 1 .. Driving /\ first' \in Helpers \cup {None}
          /\ own' \in Helpers \cup {None}
      BY <1>7, ScriptPlaces DEF TypeOK
    <3> QED  BY <1>0, <1>7, <3>1, <3>2, <3>3 DEF TypeOK
  <2>2. HelpersAsRegistered'
    BY <1>7, ScriptPlaces, KindAssumption DEF TypeOK, HelpersAsRegistered, LoadAt
  <2>3. CameBack' /\ DsmTold' /\ StartTold' /\ Reported'
    <3>1. CameBack'
      BY <1>7, FaultsKept DEF CameBack, Unspoiled
    <3>2. DsmTold'
      BY <1>7, ScriptPlaces, FaultsKept DEF TypeOK, DsmTold, Unspoiled
    <3>3. StartTold'
      BY <1>7, ScriptPlaces, FaultsKept DEF TypeOK, StartTold, Unspoiled
    <3>4. Reported'
      BY <1>7, ScriptPlaces DEF TypeOK, Reported
    <3> QED  BY <3>1, <3>2, <3>3, <3>4
  <2> QED  BY <2>1, <2>2, <2>3
<1>8. CASE AfterHelper
  <2> USE DEF AfterHelper, After, NextStage, EntersHelper, locals
  <2>1. TypeOK'
    BY <1>0, <1>8, ScriptPlaces, KindAssumption DEF TypeOK, Values, Helpers
  <2>2. HelpersAsRegistered'
    BY <1>8, ScriptPlaces, KindAssumption DEF TypeOK, HelpersAsRegistered, LoadAt
  <2>3. CameBack' /\ DsmTold' /\ StartTold' /\ Reported'
    <3>1. CameBack'
      BY <1>8, FaultsKept DEF CameBack, Unspoiled
    <3>2. DsmTold'
      BY <1>8, ScriptPlaces, FaultsKept DEF TypeOK, DsmTold, Unspoiled
    <3>3. StartTold'
      BY <1>8, ScriptPlaces, FaultsKept DEF TypeOK, StartTold, Unspoiled
    <3>4. Reported'
      BY <1>8, ScriptPlaces DEF TypeOK, Reported
    <3> QED  BY <3>1, <3>2, <3>3, <3>4
  <2> QED  BY <2>1, <2>2, <2>3
<1>9. CASE BeginLoad
  <2> USE DEF BeginLoad, After, NextStage, locals
  <2>1. TypeOK'
    <3>1. host' \in [helper : Helpers \cup {None}, exit : BOOLEAN, loading : BOOLEAN]
      BY <1>9 DEF TypeOK
    <3>2. cpu' \in [running : BOOLEAN, r0 : Values]
      BY <1>9 DEF TypeOK, Values
    <3>3. at' \in 1 .. Driving /\ first' \in Helpers \cup {None}
          /\ own' \in Helpers \cup {None}
      BY <1>9, ScriptPlaces DEF TypeOK
    <3> QED  BY <1>0, <1>9, <3>1, <3>2, <3>3 DEF TypeOK
  <2>2. HelpersAsRegistered'
    BY <1>9, ScriptPlaces, KindAssumption DEF TypeOK, HelpersAsRegistered, LoadAt
  <2>3. CameBack' /\ DsmTold' /\ StartTold' /\ Reported'
    BY <1>9, ScriptPlaces, FaultsKept
       DEF TypeOK, CameBack, DsmTold, StartTold, Reported, Unspoiled
  <2> QED  BY <2>1, <2>2, <2>3
<1>10. CASE AfterLoad
  <2> USE DEF AfterLoad, After, NextStage, EntersHelper, Unloaded, locals
  <2>1. TypeOK'
    <3>1. host' \in [helper : Helpers \cup {None}, exit : BOOLEAN, loading : BOOLEAN]
      BY <1>10 DEF TypeOK
    <3>2. cpu' \in [running : BOOLEAN, r0 : Values]
      <4>1. [running |-> TRUE, r0 |-> "other"] \in [running : BOOLEAN, r0 : Values]
        BY DEF Values
      <4> QED  BY <1>10, <4>1 DEF TypeOK
    <3>3. at' \in 1 .. Driving /\ first' \in Helpers \cup {None}
          /\ own' \in Helpers \cup {None}
      BY <1>10, ScriptPlaces DEF TypeOK
    <3> QED  BY <1>0, <1>10, <3>1, <3>2, <3>3 DEF TypeOK
  <2>2. HelpersAsRegistered'
    BY <1>10, ScriptPlaces, KindAssumption DEF TypeOK, HelpersAsRegistered, LoadAt
  <2>3. CameBack' /\ DsmTold' /\ StartTold' /\ Reported'
    BY <1>10, ScriptPlaces, FaultsKept
       DEF TypeOK, CameBack, DsmTold, StartTold, Reported, Unspoiled
  <2> QED  BY <2>1, <2>2, <2>3
<1>11. CASE AfterOwn
  <2> USE DEF AfterOwn, After, NextStage, EntersHelper, locals
  <2>1. TypeOK'
    BY <1>0, <1>11, ScriptPlaces, KindAssumption DEF TypeOK, Values, Helpers
  <2>2. HelpersAsRegistered'
    BY <1>11, ScriptPlaces, KindAssumption DEF TypeOK, HelpersAsRegistered, LoadAt
  <2>3. CameBack' /\ DsmTold' /\ StartTold' /\ Reported'
    BY <1>11, ScriptPlaces, FaultsKept
       DEF TypeOK, CameBack, DsmTold, StartTold, Reported, Unspoiled
  <2> QED  BY <2>1, <2>2, <2>3
<1>12. CASE AfterOwnInit
  <2> USE DEF AfterOwnInit, After, locals
  <2>1. TypeOK'
    BY <1>0, <1>12, ScriptPlaces, KindAssumption DEF TypeOK, Values, Helpers
  <2>2. HelpersAsRegistered'
    BY <1>12, ScriptPlaces, KindAssumption DEF TypeOK, HelpersAsRegistered, LoadAt
  <2>3. CameBack' /\ DsmTold' /\ StartTold' /\ Reported'
    BY <1>12, ScriptPlaces, FaultsKept
       DEF TypeOK, CameBack, DsmTold, StartTold, Reported, Unspoiled
  <2> QED  BY <2>1, <2>2, <2>3
<1>13. CASE AfterDsmInit
  <2> USE DEF AfterDsmInit, After, NextStage, EntersHelper, locals
  <2>1. TypeOK'
    BY <1>0, <1>13, ScriptPlaces, KindAssumption DEF TypeOK, Values, Helpers
  <2>2. HelpersAsRegistered'
    BY <1>13, ScriptPlaces, KindAssumption DEF TypeOK, HelpersAsRegistered, LoadAt
  <2>3. CameBack' /\ DsmTold' /\ StartTold' /\ Reported'
    <3>1. CameBack'
      BY <1>13, FaultsKept DEF CameBack, Unspoiled
    <3>2. DsmTold'
      BY <1>13, ScriptPlaces, FaultsKept DEF TypeOK, DsmTold, Unspoiled
    <3>3. StartTold'
      BY <1>13, ScriptPlaces, FaultsKept DEF TypeOK, StartTold, Unspoiled
    <3>4. Reported'
      BY <1>13, ScriptPlaces DEF TypeOK, Reported
    <3> QED  BY <3>1, <3>2, <3>3, <3>4
  <2> QED  BY <2>1, <2>2, <2>3
<1>14. CASE AfterStartDsm
  <2> USE DEF AfterStartDsm, After, locals
  <2>1. TypeOK'
    BY <1>0, <1>14, ScriptPlaces, KindAssumption DEF TypeOK, Values, Helpers
  <2>2. HelpersAsRegistered'
    BY <1>14, ScriptPlaces, KindAssumption DEF TypeOK, HelpersAsRegistered, LoadAt
  <2>3. CameBack' /\ DsmTold' /\ StartTold' /\ Reported'
    <3>1. CameBack'
      BY <1>14, FaultsKept DEF CameBack, Unspoiled
    <3>2. DsmTold'
      BY <1>14, ScriptPlaces, FaultsKept DEF TypeOK, DsmTold, Unspoiled
    <3>3. StartTold'
      BY <1>14, ScriptPlaces, FaultsKept DEF TypeOK, StartTold, Unspoiled
    <3>4. Reported'
      BY <1>14, ScriptPlaces DEF TypeOK, Reported
    <3> QED  BY <3>1, <3>2, <3>3, <3>4
  <2> QED  BY <2>1, <2>2, <2>3
<1>15. CASE Drive
  <2> USE DEF Drive, After, EntersHelper, locals
  <2>1. TypeOK'
    BY <1>0, <1>15, ScriptPlaces, KindAssumption DEF TypeOK, Values, Helpers
  <2>2. HelpersAsRegistered'
    BY <1>15, ScriptPlaces, KindAssumption DEF TypeOK, HelpersAsRegistered, LoadAt
  <2>3. CameBack' /\ DsmTold' /\ StartTold' /\ Reported'
    BY <1>15, ScriptPlaces, FaultsKept
       DEF TypeOK, CameBack, DsmTold, StartTold, Reported, Unspoiled
  <2> QED  BY <2>1, <2>2, <2>3
<1>16. CASE Driven
  <2> USE DEF Driven, After, locals
  <2>1. TypeOK'
    BY <1>0, <1>16, ScriptPlaces, KindAssumption DEF TypeOK, Values, Helpers
  <2>2. HelpersAsRegistered'
    BY <1>16, ScriptPlaces, KindAssumption DEF TypeOK, HelpersAsRegistered, LoadAt
  <2>3. CameBack' /\ DsmTold' /\ StartTold' /\ Reported'
    BY <1>16, ScriptPlaces, FaultsKept
       DEF TypeOK, CameBack, DsmTold, StartTold, Reported, Unspoiled
  <2> QED  BY <2>1, <2>2, <2>3
<1>17. CASE GiveUp
  <2> USE DEF GiveUp, Fallible, locals
  <2>1. TypeOK'
    BY <1>0, <1>17, ScriptPlaces, KindAssumption DEF TypeOK, Values, Helpers
  <2>2. HelpersAsRegistered'
    BY <1>17, ScriptPlaces, KindAssumption DEF TypeOK, HelpersAsRegistered, LoadAt
  <2>3. CameBack' /\ DsmTold' /\ StartTold' /\ Reported'
    BY <1>17, ScriptPlaces, FaultsKept
       DEF TypeOK, CameBack, DsmTold, StartTold, Reported, Unspoiled
  <2> QED  BY <2>1, <2>2, <2>3
<1>18. CASE Over
  <2> USE DEF Over, vars, locals
  <2>1. TypeOK'
    BY <1>0, <1>18, ScriptPlaces, KindAssumption DEF TypeOK, Values, Helpers
  <2>2. HelpersAsRegistered'
    BY <1>18, ScriptPlaces, KindAssumption DEF TypeOK, HelpersAsRegistered, LoadAt
  <2>3. CameBack' /\ DsmTold' /\ StartTold' /\ Reported'
    BY <1>18, ScriptPlaces, FaultsKept
       DEF TypeOK, CameBack, DsmTold, StartTold, Reported, Unspoiled
  <2> QED  BY <2>1, <2>2, <2>3
<1>19. CASE UNCHANGED vars
  <2> USE DEF vars, locals
  <2>1. TypeOK'
    BY <1>0, <1>19, ScriptPlaces, KindAssumption DEF TypeOK, Values, Helpers
  <2>2. HelpersAsRegistered'
    BY <1>19, ScriptPlaces, KindAssumption DEF TypeOK, HelpersAsRegistered, LoadAt
  <2>3. CameBack' /\ DsmTold' /\ StartTold' /\ Reported'
    BY <1>19, ScriptPlaces, FaultsKept
       DEF TypeOK, CameBack, DsmTold, StartTold, Reported, Unspoiled
  <2> QED  BY <2>1, <2>2, <2>3
<1> QED
  BY <1>1, <1>2, <1>3, <1>4, <1>5, <1>6, <1>7, <1>8, <1>9, <1>10, <1>11, <1>12, <1>13, <1>14, <1>15, <1>16, <1>17, <1>18, <1>19 DEF Next, InStage, InBetween

(* The inductive invariant holds throughout. *)
LEMMA BootAlways == Spec => []BootInv
BY BootInit, BootNext, PTL DEF Spec

(* Every variable keeps its type, for any choice of kinds of packages. *)
THEOREM BootTypes == Spec => []TypeOK
<1>1. BootInv => TypeOK  BY DEF BootInv
<1> QED  BY <1>1, BootAlways, PTL

(* No run is reported as good whose stages did not come back, or whose     *)
(* DSM answers were left in r0 by anything but the guest's return.         *)
THEOREM ReportsAreEarned == Spec => []ReportEarned
<1>1. ASSUME BootInv, phase = "report", RunOk, ~host.exit
      PROVE  /\ FALSE \notin hung
             /\ StillRunning \in stages \/ hung = {}
             /\ kind = "legacy" =>
                  /\ told.dsm \in {"version", "zero"}
                  /\ StillRunning \in stages \/ told.start \notin {"failed", None}
  <2>1. Unspoiled
    BY <1>1 DEF RunOk, Unspoiled
  <2>2. FALSE \notin hung /\ (StillRunning \in stages \/ hung = {})
    BY <1>1, <2>1 DEF BootInv, CameBack
  <2>3. ASSUME kind = "legacy"
        PROVE  /\ told.dsm = dsm
               /\ told.start = start \/ StillRunning \in stages
    BY <1>1, <2>1, <2>3 DEF BootInv, RunOk, Reported, DsmTold, StartTold
  <2>4. dsm \in {"version", "zero"}
    BY <1>1 DEF RunOk, VersionOk
  <2>5. start # None /\ (start # "failed" \/ StillRunning \in stages)
    BY <1>1, KindAssumption DEF RunOk, StartOk, BootInv, TypeOK, Values
  <2> QED  BY <2>2, <2>3, <2>4, <2>5
<1>2. BootInv => ReportEarned
  BY <1>1 DEF ReportEarned
<1> QED  BY <1>2, BootAlways, PTL

(* A package's helper is registered in its load only, and past ext_init    *)
(* there always is a helper.                                               *)
THEOREM HelpersStayRegistered == Spec => []HelpersAsRegistered
<1>1. BootInv => HelpersAsRegistered  BY DEF BootInv
<1> QED  BY <1>1, BootAlways, PTL

=============================================================================
