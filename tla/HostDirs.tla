------------------------------ MODULE HostDirs ------------------------------
(***************************************************************************)
(* The directory handles of ExtHost (crates/vmrp-platform/src/lib.rs).     *)
(* Opening a directory takes a list of its entries, and the guest walks    *)
(* the list: with the find calls of the legacy table, which store each     *)
(* name in a buffer of the guest, or with the readdir call of the DSM      *)
(* table, which stores it in a scratch block taken from the guest's heap   *)
(* at the first entry (module HostHeap has that block's life).  Both kinds *)
(* of call share one map of handles, so a guest may mix them.  The list    *)
(* leaves out, and nobody is told, the entries whose names are not Unicode *)
(* and those the disk gave an error for.                                   *)
(*                                                                         *)
(* Any of them may fault on the guest's memory between moving the cursor   *)
(* and answering, and entries come and go on the disk between any two.     *)
(***************************************************************************)
EXTENDS Integers, FiniteSets, Sequences, SequencesExt

CONSTANTS
  Entries,     (* names of entries                                         *)
  Nameable,    (* those of them that are Unicode                           *)
  FirstHandle, (* next_dir_handle to start with: 1000                      *)
  LastHandle   (* bound: the last handle there is (i32::MAX in the code)   *)

ASSUME DirAssumption ==
  /\ IsFiniteSet(Entries) /\ Nameable \subseteq Entries
  /\ FirstHandle \in Nat \ {0} /\ LastHandle \in Nat /\ FirstHandle <= LastHandle

VARIABLES
  present,  (* what is in the directory on the disk                        *)
  dirs,     (* dirs: the open handles                                      *)
  next,     (* next_dir_handle                                             *)
  given,    (* history: the entries the guest was given through a handle   *)
  missed,   (* history: the entries that a fault or a lack of memory ate   *)
  found,    (* history: what was in the directory when it was opened       *)
  dropped,  (* history: what of it the list left out                       *)
  ended     (* history: the handles the guest was told the end of          *)

history == <<given, missed, found, dropped, ended>>
vars == <<present, dirs, next, given, missed, found, dropped, ended>>

Handles == FirstHandle .. LastHandle
Open == DOMAIN dirs

(* HostDir; scratch says whether the scratch block has been taken. *)
Dir == [entries : Seq(Entries), cursor : Nat, scratch : BOOLEAN]

Init ==
  /\ present \in SUBSET Entries
  /\ dirs = << >> /\ next = FirstHandle
  /\ given = [h \in Handles |-> << >>] /\ missed = [h \in Handles |-> {}]
  /\ found = [h \in Handles |-> {}] /\ dropped = [h \in Handles |-> {}] /\ ended = {}

(* The guest, or anyone else, makes or removes an entry. *)
EntryChanges ==
  /\ \E e \in Entries : present' = IF e \in present THEN present \ {e} ELSE present \cup {e}
  /\ UNCHANGED <<dirs, next, history>>

-----------------------------------------------------------------------------
NextHandle == next

(* What the two filter_maps leave of what is there now: an entry with a    *)
(* name that is not Unicode is never listed, and any other may be lost to  *)
(* an error of the disk.                                                   *)
Readable == SUBSET (present \cap Nameable)
Keeps(listed) ==
  /\ found' = [found EXCEPT ![NextHandle] = present]
  /\ dropped' = [dropped EXCEPT ![NextHandle] = present \ listed]

(* The list is in the order the disk has it. *)
Opened(list) == [entries |-> list, cursor |-> 0, scratch |-> FALSE]
Inserted(dir) == [h \in Open \cup {NextHandle} |-> IF h = NextHandle THEN dir ELSE dirs[h]]

(* mr_opendir of the DSM table. *)
OpenDir ==
  /\ NextHandle \in Handles
  /\ next' = NextHandle + 1
  /\ \E listed \in Readable : \E list \in SetToSeqs(listed) :
       Keeps(listed) /\ dirs' = Inserted(Opened(list))
  /\ UNCHANGED <<present, given, missed, ended>>

(* Mutant of More: the last entry is taken for the end. *)
MoreButLast(d) == d.cursor + 1 < Len(d.entries)

(* Mutant of Step: moved before the name is taken and again after it. *)
StepTwice(d) == [d EXCEPT !.cursor = @ + 2]

More(d) == d.cursor < Len(d.entries)
Current(d) == d.entries[d.cursor + 1]
Step(d) == [d EXCEPT !.cursor = @ + 1]

(* The entry under the cursor reaches the guest, or is gone. *)
Gives(h, d) == given' = [given EXCEPT ![h] = Append(@, Current(d))]
Misses(h, d) == missed' = [missed EXCEPT ![h] = @ \cup {Current(d)}]
Walks(h, d) == \/ Gives(h, d) /\ UNCHANGED missed
               \/ Misses(h, d) /\ UNCHANGED given

(* mr_findStart: opens, and stores the first name.  With no entries, or no *)
(* buffer, the guest gets the handle all the same; if the buffer cannot be *)
(* stored to, the call faults and the guest never gets it.                 *)
FindStart ==
  /\ NextHandle \in Handles
  /\ next' = NextHandle + 1
  /\ \E listed \in Readable : \E list \in SetToSeqs(listed) :
       LET d == Opened(list)
       IN /\ Keeps(listed)
          /\ \/ dirs' = Inserted(d) /\ UNCHANGED <<given, missed>>
             \/ More(d) /\ dirs' = Inserted(Step(d)) /\ Walks(NextHandle, d)
  /\ UNCHANGED <<present, ended>>

(* Mutant of FindGetNext: the cursor moves when the name has been stored. *)
FindGetNextRetries(h) ==
  /\ UNCHANGED <<present, next, found, dropped>>
  /\ LET d == dirs[h]
     IN \/ ~More(d) /\ ended' = ended \cup {h} /\ UNCHANGED <<dirs, given, missed>>
        \/ More(d) /\ dirs' = [dirs EXCEPT ![h] = Step(d)]
           /\ Gives(h, d) /\ UNCHANGED <<missed, ended>>
        \/ More(d) /\ Misses(h, d) /\ UNCHANGED <<dirs, given, ended>>

(* mr_findGetNext with a buffer; without one it fails and does nothing. *)
FindGetNext(h) ==
  /\ UNCHANGED <<present, next, found, dropped>>
  /\ LET d == dirs[h]
     IN \/ ~More(d) /\ ended' = ended \cup {h} /\ UNCHANGED <<dirs, given, missed>>
        \/ More(d) /\ dirs' = [dirs EXCEPT ![h] = Step(d)]
           /\ Walks(h, d)
           /\ UNCHANGED ended

(* mr_readdir: the cursor moves first, then the scratch block is taken if  *)
(* there is none yet.  Without memory the answer is 0, as at the end.      *)
ReadDir(h) ==
  /\ UNCHANGED <<present, next, found, dropped>>
  /\ LET d == dirs[h]
     IN \/ ~More(d) /\ ended' = ended \cup {h} /\ UNCHANGED <<dirs, given, missed>>
        \/ More(d) /\ dirs' = [dirs EXCEPT ![h] = [Step(d) EXCEPT !.scratch = TRUE]]
           /\ Walks(h, d)
           /\ UNCHANGED ended
        \/ More(d) /\ ~d.scratch /\ dirs' = [dirs EXCEPT ![h] = Step(d)]
           /\ Misses(h, d) /\ UNCHANGED <<given, ended>>

(* mr_findStop and mr_closedir: the scratch block is not given back. *)
CloseDir(h) ==
  /\ dirs' = [k \in Open \ {h} |-> dirs[k]]
  /\ UNCHANGED <<present, next, history>>

Next ==
  \/ EntryChanges
  \/ OpenDir \/ FindStart
  \/ \E h \in Open : FindGetNext(h) \/ ReadDir(h) \/ CloseDir(h)

Spec == Init /\ [][Next]_vars

-----------------------------------------------------------------------------
TypeOK ==
  /\ present \subseteq Entries
  /\ Open \subseteq Handles /\ dirs \in [Open -> Dir]
  /\ next \in FirstHandle .. LastHandle + 1
  /\ \A h \in Open : dirs[h].cursor <= Len(dirs[h].entries)
  /\ given \in [Handles -> Seq(Entries)] /\ missed \in [Handles -> SUBSET Entries]
  /\ found \in [Handles -> SUBSET Entries] /\ dropped \in [Handles -> SUBSET Entries]
  /\ ended \subseteq Handles

(* A handle walks what was listed when the directory was opened, each      *)
(* entry at most once, whatever comes and goes on the disk and whichever   *)
(* calls are mixed (find_get_next and readdir share cursor and list).      *)
ListsASnapshot ==
  \A h \in Handles :
    /\ ToSet(given[h]) \cup missed[h] \subseteq found[h] \ dropped[h]
    /\ IsInjective(given[h])
    /\ ToSet(given[h]) \cap missed[h] = {}

(* A guest that was told the end was given every entry the directory held  *)
(* when it was opened, but those a fault or a lack of memory ate on the    *)
(* way and those the list left out: all that is not Unicode, and whatever  *)
(* the disk gave an error for.  The walk itself (the cursor of             *)
(* find_get_next and readdir) passes over nothing.                         *)
EndIsTheEnd ==
  \A h \in ended :
    /\ found[h] = ToSet(given[h]) \cup missed[h] \cup dropped[h]
    /\ found[h] \ Nameable \subseteq dropped[h]

=============================================================================
