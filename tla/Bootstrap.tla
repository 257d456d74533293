----------------------------- MODULE Bootstrap -----------------------------
(***************************************************************************)
(* run_mrp of apps/vmrp-windows/src/main.rs: the stages in which a package *)
(* is brought up, what is read between two of them, and the report.        *)
(*                                                                         *)
(* A stage runs guest code from an entry or calls a helper.  Helpers are   *)
(* registered at the host by guest code: with mr_c_function_new, or, while *)
(* the runner loads a package's own ext, with the function which that ext  *)
(* finds in its place.  The host keeps the helper registered last.         *)
(*                                                                         *)
(* There are three kinds of packages: "legacy" ones get the DSM_INIT and   *)
(* MR_START_DSM events through the helper of cfunction.ext; "bridge" and   *)
(* "plugin" ones have an ext of their own, which is loaded beside it.      *)
(* drive_runtime_events is here as the stages it adds to the report;       *)
(* module RuntimeLoop has the loop, and what ends a stage.                 *)
(***************************************************************************)
EXTENDS Naturals, Sequences

CONSTANTS
  Kinds,   (* the kinds of packages                                        *)
  None     (* no helper, no answer                                         *)

ASSUME KindAssumption ==
  /\ Kinds \subseteq {"legacy", "bridge", "plugin"}
  /\ None \notin {"guest", "own", "zero", "failed", "version", "other"}

VARIABLES
  kind,    (* plugin_only_package, bridge_package                          *)
  host,    (* ExtHost: ext_helper_addr, exit_requested, and whether        *)
           (* active_plugin_ext_load is set                                *)
  cpu,     (* is pc not null, and r0                                       *)
  at,      (* the stage that runs, or ran last                             *)
  phase,   (* "stage" in one, "between" two, then "report" or "error"      *)
  first,   (* helper: read once, after ext_init                            *)
  own,     (* game_helper, plugin_helper                                   *)
  stages,  (* the stop reasons in stages, and whether each is of the last  *)
           (* stage before the events, which is all run_ok tells apart     *)
  dsm,     (* dsm_init_ret                                                 *)
  start,   (* start_dsm_ret                                                *)
  hung,    (* history: in which stages guest code did not return, likewise *)
  told     (* history: what the guest did return to the two events         *)

locals == <<kind, at, phase, first, own, stages, dsm, start>>
vars == <<locals, host, cpu, hung, told>>

(* What r0 may hold: 0, MR_FAILED, VMRP_VER, and everything else, such as  *)
(* the address of a context.                                               *)
Values == {"zero", "failed", "version", "other"}
Helpers == {"guest", "own"}
Stops == {"null_pc", "exit", "budget", "fault"}

(* The stages in their order: "helper" is helper_version, helper_app_info  *)
(* and helper_init; "load", "own" and "own_init" stand for the labels with *)
(* game_ and with plugin_.                                                 *)
Script ==
  IF kind = "legacy"
  THEN <<"ext_init", "helper", "helper", "helper", "dsm_init", "start_dsm">>
  ELSE <<"ext_init", "helper", "helper", "helper",
         "load", "own", "own", "own_init">>
LoadAt == 5
Driving == Len(Script) + 1
Label == IF at = Driving THEN "event" ELSE Script[at]
IsLast == at = Len(Script)

-----------------------------------------------------------------------------
(* The entry of cfunction.ext, with code 0 or one from the environment. *)
Init ==
  /\ kind \in Kinds
  /\ host = [helper |-> None, exit |-> FALSE, loading |-> FALSE]
  /\ cpu \in [running : {TRUE}, r0 : {"zero", "other"}]
  /\ at = 1 /\ phase = "stage"
  /\ first = None /\ own = None
  /\ stages = {} /\ dsm = "failed" /\ start = "failed"
  /\ hung = {} /\ told = [dsm |-> None, start |-> None]

(* run_loop lets the guest or the host take a step only if the guest has   *)
(* neither asked to exit nor returned.                                     *)
MayStep == phase = "stage" /\ ~host.exit /\ cpu.running
Answers(values) == \E v \in values : cpu' = [cpu EXCEPT !.r0 = v]

(* Instructions, and host calls without a place in this module. *)
Compute ==
  /\ MayStep
  /\ Answers(Values)
  /\ UNCHANGED <<locals, host, hung, told>>

(* The guest comes back to the null lr it was given. *)
Returns ==
  /\ MayStep
  /\ cpu' = [cpu EXCEPT !.running = FALSE]
  /\ told' = CASE Label = "dsm_init"  -> [told EXCEPT !.dsm = cpu.r0]
               [] Label = "start_dsm" -> [told EXCEPT !.start = cpu.r0]
               [] OTHER               -> told
  /\ UNCHANGED <<locals, host, hung>>

(* mr_c_function_new: a null helper leaves the one there is; without       *)
(* memory for the context it fails after it has taken the helper, and a    *)
(* fault, which ends the stage, leaves r0.                                 *)
FunctionNew ==
  /\ MayStep
  /\ \E h \in {host.helper, "guest"} : host' = [host EXCEPT !.helper = h]
  /\ Answers({"zero", "failed", cpu.r0})
  /\ UNCHANGED <<locals, hung, told>>

(* The function a loaded ext finds in its place: it fails when no load is  *)
(* on, and like the other one may fail after it has taken the helper.      *)
PluginFunctionNew ==
  /\ MayStep
  /\ \/ /\ host.loading
        /\ \E h \in {host.helper, "own"} : host' = [host EXCEPT !.helper = h]
        /\ Answers({"zero", "failed", cpu.r0})
     \/ ~host.loading /\ Answers({"failed"}) /\ UNCHANGED host
  /\ UNCHANGED <<locals, hung, told>>

(* mr_exit answers MR_SUCCESS, the exit of the DSM table answers nothing. *)
Exit ==
  /\ MayStep
  /\ host' = [host EXCEPT !.exit = TRUE]
  /\ Answers({"zero", cpu.r0})
  /\ UNCHANGED <<locals, hung, told>>

(* How run_stage may stop.  Exit is asked for before the null pc; the      *)
(* budget may end with any step, and draining the window, which comes      *)
(* first, or a step may fail.                                              *)
Ends(stop) ==
  /\ stop = "exit" => host.exit
  /\ stop = "null_pc" => ~host.exit /\ ~cpu.running

StageEnds ==
  /\ phase = "stage"
  /\ \E stop \in Stops :
       /\ Ends(stop)
       /\ stages' = stages \cup {[last |-> IsLast, stop |-> stop]}
  /\ hung' = IF cpu.running THEN hung \cup {IsLast} ELSE hung
  /\ phase' = "between"
  /\ UNCHANGED <<kind, host, cpu, at, first, own, dsm, start, told>>

-----------------------------------------------------------------------------
(* Between two stages.                                                     *)

After(label) == phase = "between" /\ Label = label

(* setup_helper_call: r0 is the address of the context, lr is null. *)
EntersHelper == cpu' = [running |-> TRUE, r0 |-> "other"]
NextStage == at' = at + 1 /\ phase' = "stage"

(* The helper is read once; without one nothing but the report is left. *)
AfterExtInit ==
  /\ After("ext_init")
  /\ first' = host.helper
  /\ IF host.helper = None
     THEN phase' = "report" /\ UNCHANGED <<cpu, at>>
     ELSE NextStage /\ EntersHelper
  /\ UNCHANGED <<kind, host, own, stages, dsm, start, hung, told>>

(* The three calls of helper_bootstrap_sequence, then DSM_INIT. *)
AfterHelper ==
  /\ After("helper")
  /\ at + 1 = LoadAt => kind = "legacy"
  /\ NextStage /\ EntersHelper
  /\ UNCHANGED <<kind, host, first, own, stages, dsm, start, hung, told>>

(* begin_plugin_ext_load, and the entry of the package's own ext. *)
BeginLoad ==
  /\ After("helper") /\ at + 1 = LoadAt /\ kind # "legacy"
  /\ host' = [host EXCEPT !.loading = TRUE]
  /\ cpu' = [running |-> TRUE, r0 |-> "zero"]
  /\ NextStage
  /\ UNCHANGED <<kind, first, own, stages, dsm, start, hung, told>>

(* Mutant of Unloaded: clear_plugin_ext_load is forgotten. *)
UnloadedKeeps(h) == h

(* clear_plugin_ext_load *)
Unloaded(h) == [h EXCEPT !.loading = FALSE]

(* The package's helper is whichever was registered last. *)
AfterLoad ==
  /\ After("load")
  /\ host' = Unloaded(host)
  /\ own' = host.helper
  /\ IF host.helper = None
     THEN phase' = "error" /\ UNCHANGED <<cpu, at>>
     ELSE NextStage /\ EntersHelper
  /\ UNCHANGED <<kind, first, stages, dsm, start, hung, told>>

AfterOwn ==
  /\ After("own")
  /\ NextStage /\ EntersHelper
  /\ UNCHANGED <<kind, host, first, own, stages, dsm, start, hung, told>>

(* The two events are not sent and taken for answered.  A plugin package   *)
(* is not driven.                                                          *)
AfterOwnInit ==
  /\ After("own_init")
  /\ dsm' = "zero" /\ start' = "zero"
  /\ phase' = IF kind = "plugin" THEN "report" ELSE "between"
  /\ at' = IF kind = "plugin" THEN at ELSE Driving
  /\ UNCHANGED <<kind, host, cpu, first, own, stages, hung, told>>

AfterDsmInit ==
  /\ After("dsm_init")
  /\ dsm' = cpu.r0
  /\ NextStage /\ EntersHelper
  /\ UNCHANGED <<kind, host, first, own, stages, start, hung, told>>

AfterStartDsm ==
  /\ After("start_dsm")
  /\ start' = cpu.r0
  /\ phase' = "between" /\ at' = Driving
  /\ UNCHANGED <<kind, host, cpu, first, own, stages, dsm, hung, told>>

(* Mutant of Drive: stages of events are counted like those before them. *)
DriveNext ==
  /\ After("event")
  /\ NextStage /\ EntersHelper
  /\ UNCHANGED <<kind, host, first, own, stages, dsm, start, hung, told>>

(* drive_runtime_events hands an event to the helper, or is done. *)
Drive ==
  /\ After("event")
  /\ phase' = "stage" /\ EntersHelper
  /\ UNCHANGED <<kind, host, at, first, own, stages, dsm, start, hung, told>>

Driven ==
  /\ After("event")
  /\ phase' = "report"
  /\ UNCHANGED <<kind, host, cpu, at, first, own, stages, dsm, start, hung, told>>

(* Memory for the runner's own blocks, a write to guest memory, a file of  *)
(* the package or the window fails: run_mrp returns an error, no report.   *)
Fallible ==
  \/ Label = "ext_init" /\ host.helper # None
  \/ Label = "helper" /\ at + 1 = LoadAt
  \/ Label \in {"load", "dsm_init", "start_dsm", "event"}
  \/ Label \in {"own", "own_init"} /\ kind = "bridge"

GiveUp ==
  /\ phase = "between" /\ Fallible
  /\ phase' = "error"
  /\ UNCHANGED <<kind, host, cpu, at, first, own, stages, dsm, start, hung, told>>

Over == phase \in {"report", "error"} /\ UNCHANGED vars

-----------------------------------------------------------------------------
InStage ==
  \/ Compute \/ Returns \/ FunctionNew \/ PluginFunctionNew \/ Exit
  \/ StageEnds
InBetween ==
  \/ AfterExtInit \/ AfterHelper \/ BeginLoad \/ AfterLoad \/ AfterOwn
  \/ AfterOwnInit \/ AfterDsmInit \/ AfterStartDsm \/ Drive \/ Driven
  \/ GiveUp

Next == InStage \/ InBetween \/ Over

Spec == Init /\ [][Next]_vars

-----------------------------------------------------------------------------
(* The report.                                                             *)

(* bridge_running_stage and its like: the last stage before the events may *)
(* still be running.                                                       *)
StillRunning == [last |-> TRUE, stop |-> "budget"]

(* Mutant of NoFaults: a spent budget is forgiven in every stage. *)
NoFaultsForgiving ==
  \A stage \in stages : stage.stop \in {"null_pc", "exit", "budget"}

(* no_runtime_faults *)
NoFaults ==
  \A stage \in stages :
    stage.stop \in {"null_pc", "exit"} \/ stage = StillRunning

VersionOk == dsm \in {"version", "zero"}
StartOk == start # "failed" \/ (kind = "legacy" /\ StillRunning \in stages)

RunOk == NoFaults /\ first # None /\ VersionOk /\ StartOk

-----------------------------------------------------------------------------
(* Properties.                                                             *)

(* Every variable keeps its type. *)
TypeOK ==
  /\ kind \in {"legacy", "bridge", "plugin"}
  /\ host \in [helper : Helpers \cup {None}, exit : BOOLEAN, loading : BOOLEAN]
  /\ cpu \in [running : BOOLEAN, r0 : Values]
  /\ at \in 1 .. Driving
  /\ phase \in {"stage", "between", "report", "error"}
  /\ first \in Helpers \cup {None} /\ own \in Helpers \cup {None}
  /\ stages \subseteq [last : BOOLEAN, stop : Stops]
  /\ dsm \in Values /\ start \in Values
  /\ hung \subseteq BOOLEAN
  /\ told \in [dsm : Values \cup {None}, start : Values \cup {None}]

(* A run reported as good that the guest did not end itself has earned the *)
(* report: the code of every stage came back, but for the last one before  *)
(* the events if its budget was spent; and to a legacy package's events    *)
(* the guest itself gave the answers run_ok is about: a register that a    *)
(* stage cut short, a host call or setup_helper_call left behind is never  *)
(* taken for one.  (A start_dsm that returns MR_FAILED with the last step  *)
(* of its budget still counts as running.)                                 *)
ReportEarned ==
  phase = "report" /\ RunOk /\ ~host.exit =>
    /\ FALSE \notin hung
    /\ StillRunning \in stages \/ hung = {}
    /\ kind = "legacy" =>
         /\ told.dsm \in {"version", "zero"}
         /\ StillRunning \in stages \/ told.start \notin {"failed", None}

(* Only an ext that the runner itself is loading can put its helper in the *)
(* place of cfunction.ext's, and no load outlives its stage.  And since    *)
(* every way past ext_init has a helper, the one after a load is never     *)
(* missing: the errors for it at main.rs:732 and 839 cannot arise, and a   *)
(* package's ext that registered nothing has the first helper called.      *)
HelpersAsRegistered ==
  /\ host.loading => kind # "legacy" /\ at = LoadAt
  /\ host.helper = "own" => kind # "legacy" /\ at >= LoadAt
  /\ first # "own"
  /\ at > 1 => first # None /\ host.helper # None
  /\ kind # "legacy" /\ at > LoadAt => own # None

=============================================================================
