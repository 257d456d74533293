----------------------------- MODULE HostFiles -----------------------------
(***************************************************************************)
(* The file handles that ExtHost (crates/vmrp-platform/src/lib.rs) keeps   *)
(* for the guest: a map from handles to open files and a counter of        *)
(* handles.  A name is looked up in the package first and on the disk      *)
(* after it, but only by the calls that read; what opens for writing, and  *)
(* what removes, renames or makes, goes to the disk alone.  A handle to a  *)
(* packaged file carries a copy of its bytes and a cursor; a handle to a   *)
(* file on the disk is the operating system's, position included.          *)
(*                                                                         *)
(* Every call exists twice, in the legacy table and in the DSM table.  A   *)
(* file is the number of its bytes: what is in them no call looks at.      *)
(***************************************************************************)
EXTENDS Integers, Sequences, FiniteSets, Functions

CONSTANTS
  Names,    (* spellings of names the guest uses                           *)
  PathOf,   (* the place on the disk that each spelling means              *)
  PackLen,  (* the length of what each spelling finds in the package       *)
  Exact,    (* the spellings that find it as they are, or but for `\\'     *)
  FirstFd,  (* next_file_handle to start with: 3                           *)
  LastFd,   (* bound: the last handle there is (i32::MAX in the code)      *)
  LastNode, (* bound: files ever on the disk                               *)
  MaxPos    (* bound: positions and lengths                                *)

Packaged == DOMAIN PackLen
Fds == FirstFd .. LastFd
NodeIds == 1 .. LastNode
Positions == 0 .. MaxPos

ASSUME FileAssumption ==
  /\ IsFiniteSet(Names) /\ DOMAIN PathOf = Names
  /\ PackLen \in [Packaged -> Positions]
  /\ Exact \subseteq Packaged /\ Packaged \subseteq Names
  /\ FirstFd \in Nat \ {0} /\ LastFd \in Nat /\ FirstFd <= LastFd
  /\ LastNode \in Nat \ {0} /\ MaxPos \in Nat \ {0}

VARIABLES
  files,    (* files: the open handles                                     *)
  next,     (* next_file_handle                                            *)
  places,   (* the disk: what is at each place                             *)
  sizes,    (* the disk: the length of every file there ever was           *)
  panicked, (* the thread that runs the guest is gone                      *)
  seen,     (* history: what has been read since the last move of a handle *)
  sized     (* history: what length was promised when a handle was opened  *)

disk == <<places, sizes>>
vars == <<files, next, places, sizes, panicked, seen, sized>>

Places == Range(PathOf)
Live == DOMAIN files
Nodes == DOMAIN sizes
Absent == 0
Directory == -1
IsFile(p) == places[p] \in Nodes

(* The open modes: the flags of an open call, without MR_FILE_RDONLY.      *)
Flags == {"WRONLY", "RDWR", "CREATE", "RECREATE"}
WantsWrite(mode) == mode \cap {"WRONLY", "RDWR"} # {}
WantsCreate(mode) == mode \cap {"CREATE", "RECREATE"} # {}
Reads(mode) == "RDWR" \in mode \/ "WRONLY" \notin mode

(* HostFile: a name's bytes in the package, or an open file of the disk. *)
PackageFile == [kind : {"package"}, of : Packaged, at : Positions,
                read : {TRUE}, write : {FALSE}]
DiskFile == [kind : {"disk"}, of : NodeIds, at : Positions,
             read : BOOLEAN, write : BOOLEAN]

SizeOf(f) == IF f.kind = "package" THEN PackLen[f.of] ELSE sizes[f.of]
Smaller(a, b) == IF a <= b THEN a ELSE b
Larger(a, b) == IF a <= b THEN b ELSE a

-----------------------------------------------------------------------------
(* What a name is: package_file_bytes, then the disk.                      *)

(* mr_info. *)
Info(n) ==
  IF n \in Packaged \/ IsFile(PathOf[n]) THEN "file"
  ELSE IF places[PathOf[n]] = Directory THEN "directory" ELSE "invalid"

(* Mutant of GetLen: only the disk is asked. *)
GetLenDisk(n) == IF IsFile(PathOf[n]) THEN sizes[places[PathOf[n]]] ELSE -1

(* mr_getLen; -1 is MR_FAILED. *)
GetLen(n) ==
  IF n \in Packaged THEN PackLen[n]
  ELSE IF IsFile(PathOf[n]) THEN sizes[places[PathOf[n]]] ELSE -1

(* mr_readFile, which knows fewer spellings of a packaged name. *)
ReadFileLen(n) ==
  IF n \in Exact THEN PackLen[n]
  ELSE IF IsFile(PathOf[n]) THEN sizes[places[PathOf[n]]] ELSE -1

(* Mutant of FromPackage: an entry that is not there counts as empty. *)
FromPackageAny(n, mode) == ~WantsWrite(mode) /\ ~WantsCreate(mode)

(* An open call that asks for nothing but reading takes the package's. *)
FromPackage(n, mode) == n \in Packaged /\ ~WantsWrite(mode) /\ ~WantsCreate(mode)

(* What OpenOptions::open can open: to create without writing is an error, *)
(* and so is opening a directory.                                          *)
OpensOnDisk(n, mode) ==
  IF WantsCreate(mode) THEN WantsWrite(mode) /\ places[PathOf[n]] # Directory
  ELSE IsFile(PathOf[n])

-----------------------------------------------------------------------------
Init ==
  /\ files = << >> /\ next = FirstFd
  /\ sizes = <<1>>
  /\ \E p \in Places : places = [q \in Places |-> IF q = p THEN 1 ELSE Absent]
  /\ panicked = FALSE
  /\ seen = << >> /\ sized = << >>

Put(g, k, v) == [x \in DOMAIN g \cup {k} |-> IF x = k THEN v ELSE g[x]]
From(pos) == [from |-> pos, given |-> 0, missed |-> 0]

(* A call that answers MR_FAILED, or that faults on the name or the bytes  *)
(* the guest points at: nothing has happened.                              *)
Fails == UNCHANGED vars

(* Mutant of NextFd: the handle of a closed file is used again. *)
NextFdLowest == CHOOSE fd \in Fds \cup {LastFd + 1} :
                  fd \notin Live /\ (FirstFd .. fd - 1) \subseteq Live

NextFd == next

(* The new handle; the counter saturates, the bound keeps it from that. *)
Opened(f) ==
  /\ NextFd \in Fds
  /\ files' = Put(files, NextFd, f)
  /\ next' = NextFd + 1
  /\ seen' = Put(seen, NextFd, From(0))
  /\ UNCHANGED panicked

(* The length of file k is not what it was: no promise about it holds. *)
Unpromised(k) == [fd \in Live |-> IF files[fd].kind = "disk" /\ files[fd].of = k
                                   THEN -1 ELSE sized[fd]]

OpenPackage(n, mode) ==
  /\ FromPackage(n, mode)
  /\ Opened([kind |-> "package", of |-> n, at |-> 0, read |-> TRUE, write |-> FALSE])
  /\ sized' = Put(sized, NextFd, GetLen(n))
  /\ UNCHANGED disk

(* A file that is there is opened, and cut off if the mode says so; one    *)
(* that is not is made.                                                    *)
OpenDisk(n, mode) ==
  LET p == PathOf[n]
      k == IF IsFile(p) THEN places[p] ELSE Len(sizes) + 1
      empty == ~IsFile(p) \/ "RECREATE" \in mode
  IN /\ ~FromPackage(n, mode) /\ OpensOnDisk(n, mode) /\ k \in NodeIds
     /\ Opened([kind |-> "disk", of |-> k, at |-> 0,
                read |-> Reads(mode), write |-> WantsWrite(mode)])
     /\ places' = [places EXCEPT ![p] = k]
     /\ sizes' = IF empty THEN Put(sizes, k, 0) ELSE sizes
     /\ sized' = IF WantsWrite(mode)
                 THEN Put(IF empty THEN Unpromised(k) ELSE sized, NextFd, -1)
                 ELSE Put(sized, NextFd, GetLen(n))

Open(n, mode) == OpenPackage(n, mode) \/ OpenDisk(n, mode)

Close(fd) ==
  /\ fd \in Live
  /\ files' = Restrict(files, Live \ {fd})
  /\ seen' = Restrict(seen, Live \ {fd})
  /\ sized' = Restrict(sized, Live \ {fd})
  /\ UNCHANGED <<next, disk, panicked>>

-----------------------------------------------------------------------------
(* Reading, writing and moving.                                            *)

Available(f) == IF f.at <= SizeOf(f) THEN SizeOf(f) - f.at ELSE 0

Moved(fd, pos, history) ==
  /\ files' = [files EXCEPT ![fd].at = pos]
  /\ seen' = [seen EXCEPT ![fd] = history]
  /\ UNCHANGED <<next, panicked>>

(* The guest has received k more bytes, or k bytes that were read are lost *)
(* because the guest's buffer could not be stored to.                      *)
Received(fd, k) ==
  Moved(fd, files[fd].at + k, [seen[fd] EXCEPT !.given = @ + k])
Lost(fd, k) ==
  Moved(fd, files[fd].at + k, [seen[fd] EXCEPT !.missed = @ + k])

(* Mutant of PackageRead: the cursor moves before the bytes are stored. *)
PackageReadEarly(fd, n) ==
  /\ files[fd].kind = "package" /\ files[fd].at <= SizeOf(files[fd])
  /\ LET k == Smaller(n, Available(files[fd]))
     IN Received(fd, k) \/ (k > 0 /\ Lost(fd, k))
  /\ UNCHANGED <<disk, sized>>

(* The cursor moves after the last store: a fault leaves it alone. *)
PackageRead(fd, n) ==
  /\ files[fd].kind = "package" /\ files[fd].at <= SizeOf(files[fd])
  /\ Received(fd, Smaller(n, Available(files[fd])))
  /\ UNCHANGED <<disk, sized>>

(* What is available past the end is nothing, and yet the slice that       *)
(* starts there is out of range.                                           *)
PackageReadPanics(fd) ==
  /\ files[fd].kind = "package" /\ files[fd].at > SizeOf(files[fd])
  /\ panicked' = TRUE
  /\ UNCHANGED <<files, next, disk, seen, sized>>

DiskRead(fd, n) ==
  /\ files[fd].kind = "disk" /\ files[fd].read
  /\ LET k == Smaller(n, Available(files[fd]))
     IN Received(fd, k) \/ (k > 0 /\ Lost(fd, k))
  /\ UNCHANGED <<disk, sized>>

Read(fd, n) == PackageRead(fd, n) \/ PackageReadPanics(fd) \/ DiskRead(fd, n)

(* The operating system may write less than it is asked to.  A packaged    *)
(* file is never written.                                                  *)
Write(fd, n) ==
  LET f == files[fd]
  IN /\ f.kind = "disk" /\ f.write /\ n > 0 /\ f.at + n \in Positions
     /\ sizes' = [sizes EXCEPT ![f.of] = Larger(@, f.at + n)]
     /\ sized' = Unpromised(f.of)
     /\ Moved(fd, f.at + n, From(f.at + n))
     /\ UNCHANGED places

(* Where a seek leads; what is negative fails, but a negative offset from  *)
(* the start is the start.                                                 *)
Target(f, pos, method) ==
  CASE method = "SET" -> Larger(pos, 0)
    [] method = "CUR" -> f.at + pos
    [] method = "END" -> SizeOf(f) + pos

Seek(fd, pos, method) ==
  LET to == Target(files[fd], pos, method)
  IN /\ to \in Positions
     /\ Moved(fd, to, From(to))
     /\ UNCHANGED <<disk, sized>>

-----------------------------------------------------------------------------
(* The disk by name; the package is not looked at.                         *)

Remove(n) ==
  /\ IsFile(PathOf[n])
  /\ places' = [places EXCEPT ![PathOf[n]] = Absent]
  /\ UNCHANGED <<files, next, sizes, panicked, seen, sized>>

Rename(old, new) ==
  LET a == PathOf[old]
      b == PathOf[new]
  IN /\ a # b
     /\ \/ IsFile(a) /\ places[b] # Directory
        \/ places[a] = Directory /\ places[b] = Absent
     /\ places' = [places EXCEPT ![a] = Absent, ![b] = places[a]]
     /\ UNCHANGED <<files, next, sizes, panicked, seen, sized>>

MkDir(n) ==
  /\ places[PathOf[n]] = Absent
  /\ places' = [places EXCEPT ![PathOf[n]] = Directory]
  /\ UNCHANGED <<files, next, sizes, panicked, seen, sized>>

RmDir(n) ==
  /\ places[PathOf[n]] = Directory
  /\ places' = [places EXCEPT ![PathOf[n]] = Absent]
  /\ UNCHANGED <<files, next, sizes, panicked, seen, sized>>

(* The calls of the legacy table; those of the DSM table do the same, but  *)
(* that a seek answers with the position it has reached.                   *)
HandleCall ==
  \/ \E n \in Names, mode \in SUBSET Flags : Open(n, mode)
  \/ \E fd \in Live : Close(fd)
  \/ \E fd \in Live, n \in Positions : Read(fd, n) \/ Write(fd, n)
  \/ \E fd \in Live, pos \in -1 .. MaxPos, method \in {"SET", "CUR", "END"} :
       Seek(fd, pos, method)

NameCall ==
  \/ \E n \in Names : Remove(n) \/ MkDir(n) \/ RmDir(n)
  \/ \E old, new \in Names : Rename(old, new)

Call == HandleCall \/ NameCall \/ Fails

Next == ~panicked /\ Call

Spec == Init /\ [][Next]_vars

-----------------------------------------------------------------------------
TypeOK ==
  /\ files \in [Live -> PackageFile \cup DiskFile] /\ Live \subseteq Fds
  /\ next \in FirstFd .. LastFd + 1
  /\ sizes \in Seq(Positions) /\ Len(sizes) <= LastNode
  /\ places \in [Places -> {Absent, Directory} \cup Nodes]
  /\ panicked \in BOOLEAN
  /\ DOMAIN seen = Live /\ DOMAIN sized = Live
  /\ \A fd \in Live : /\ files[fd].kind = "disk" => files[fd].of \in Nodes
                      /\ seen[fd] \in [from : Positions, given : Nat, missed : Nat]
                      /\ sized[fd] \in {-1} \cup Positions

(* Every byte between the place a handle was moved to and the place it is  *)
(* at has been given to the guest once, or, if the handle is to a file of  *)
(* the disk, was lost in a read that faulted; and what was given was in    *)
(* the file: read_host_file and DsmHostFn::Read move the cursor by what    *)
(* they deliver, faults and reads at the end included.                     *)
ReadsFollow ==
  \A fd \in Live :
    /\ files[fd].at = seen[fd].from + seen[fd].given + seen[fd].missed
    /\ files[fd].kind = "package" =>
         /\ seen[fd].missed = 0
         /\ seen[fd].given > 0 => files[fd].at <= SizeOf(files[fd])

(* What the lookups tell of a name agrees, though there are four of them   *)
(* over two tables.  A file is as long as mr_getLen said when it was opened*)
(* for reading, for as long as nobody writes it, under whatever name: a    *)
(* handle outlives the name.  And mr_info, mr_getLen, mr_readFile and      *)
(* mr_open agree on what is a file, mr_readFile where it knows the spelling*)
(* as a packaged one.                                                      *)
LookupsAgree ==
  /\ \A fd \in Live : sized[fd] # -1 => SizeOf(files[fd]) = sized[fd]
  /\ \A n \in Names :
       /\ (Info(n) = "file") <=> (GetLen(n) # -1)
       /\ (Info(n) = "file") <=> (FromPackage(n, {}) \/ OpensOnDisk(n, {}))
       /\ n \notin Packaged \ Exact => ReadFileLen(n) = GetLen(n)

(* A handle that was closed, or passed over, is never a handle again: a    *)
(* stale handle reaches no other file (next_file_handle only grows).       *)
HandlesLiveOnce ==
  [][\A fd \in Fds : fd < next /\ fd \notin Live => fd \notin Live']_vars

(* A read that finds nothing available delivers nothing, as the saturating *)
(* subtraction before the slice intends: no call takes the runner down.    *)
ReadsDoNotPanic == ~panicked
=============================================================================
