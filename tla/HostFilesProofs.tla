-------------------------- MODULE HostFilesProofs --------------------------
(***************************************************************************)
(* Proofs about HostFiles, for every set of names, package, number of      *)
(* handles and bound on positions.                                         *)
(***************************************************************************)
EXTENDS HostFiles, SequenceTheorems, TLAPS

(* A file is as long as was said when it was opened for reading. *)
Told == \A fd \in Live : sized[fd] # -1 => SizeOf(files[fd]) = sized[fd]

FileInv == TypeOK /\ ReadsFollow /\ Told

File == PackageFile \cup DiskFile
Seen == [from : Positions, given : Nat, missed : Nat]

-----------------------------------------------------------------------------
(* What is known of the constants and of one handle.                       *)

LEMMA Numbers ==
  /\ Positions \subseteq Nat /\ 0 \in Positions /\ 1 \in Positions
  /\ NodeIds \subseteq Nat /\ 1 \in NodeIds /\ Absent \notin NodeIds /\ Directory \notin NodeIds
  /\ Fds \subseteq Nat
  /\ \A n \in Names : PathOf[n] \in Places
  /\ Packaged \subseteq Names /\ \A n \in Packaged : PackLen[n] \in Positions
  BY FileAssumption DEF Positions, NodeIds, Fds, Absent, Directory, Places, Range, Packaged

LEMMA NodesAre ==
  ASSUME TypeOK
  PROVE  /\ Len(sizes) \in Nat /\ Nodes = 1 .. Len(sizes) /\ Nodes \subseteq NodeIds
         /\ \A k \in Nodes : sizes[k] \in Positions
<1>1. sizes \in Seq(Positions) /\ Len(sizes) <= LastNode
  BY DEF TypeOK
<1>2. Len(sizes) \in Nat /\ Nodes = 1 .. Len(sizes)
  BY <1>1, LenProperties DEF Nodes
<1>3. \A k \in Nodes : sizes[k] \in Positions
  BY <1>1, <1>2, ElementOfSeq
<1> QED BY <1>1, <1>2, <1>3, FileAssumption DEF NodeIds

LEMMA FileIs ==
  ASSUME TypeOK, NEW fd \in Live
  PROVE  /\ files[fd] \in File /\ files[fd].kind \in {"package", "disk"}
         /\ files[fd].at \in Positions
         /\ files[fd].kind = "package" => files[fd].of \in Packaged
         /\ files[fd].kind = "disk" => files[fd].of \in Nodes
         /\ SizeOf(files[fd]) \in Positions
<1>1. /\ files[fd] \in File
      /\ files[fd].kind = "disk" => files[fd].of \in Nodes
  BY DEF TypeOK, File
<1>2. /\ files[fd].kind \in {"package", "disk"} /\ files[fd].at \in Positions
      /\ files[fd].kind = "package" => files[fd].of \in Packaged
  BY <1>1 DEF File, PackageFile, DiskFile
<1>3. SizeOf(files[fd]) \in Positions
  BY <1>1, <1>2, Numbers, NodesAre DEF SizeOf
<1> QED BY <1>1, <1>2, <1>3

LEMMA MovedIs ==
  ASSUME NEW f \in File, NEW pos \in Positions
  PROVE  LET g == [f EXCEPT !.at = pos]
         IN g \in File /\ g.kind = f.kind /\ g.of = f.of /\ g.at = pos
<1>1. CASE f \in PackageFile
  BY <1>1 DEF PackageFile, File
<1>2. CASE f \in DiskFile
  BY <1>2 DEF DiskFile, File
<1> QED BY <1>1, <1>2 DEF File

(* The four lookups by name agree in every state with the right types. *)
LEMMA LookupsFollow ==
  ASSUME TypeOK, Told
  PROVE  LookupsAgree
<1> SUFFICES ASSUME NEW n \in Names
             PROVE  /\ (Info(n) = "file") <=> (GetLen(n) # -1)
                    /\ (Info(n) = "file") <=> (FromPackage(n, {}) \/ OpensOnDisk(n, {}))
                    /\ n \notin Packaged \ Exact => ReadFileLen(n) = GetLen(n)
  BY DEF LookupsAgree, Told
<1>1. (Info(n) = "file") <=> n \in Packaged \/ IsFile(PathOf[n])
  BY DEF Info
<1>2. /\ n \in Packaged => PackLen[n] # -1
      /\ IsFile(PathOf[n]) => sizes[places[PathOf[n]]] # -1
  BY Numbers, NodesAre DEF IsFile
<1>3. FromPackage(n, {}) <=> n \in Packaged
  BY DEF FromPackage, WantsWrite, WantsCreate
<1>4. OpensOnDisk(n, {}) <=> IsFile(PathOf[n])
  BY DEF OpensOnDisk, WantsCreate
<1>5. n \in Exact => n \in Packaged
  BY FileAssumption
<1> QED BY <1>1, <1>2, <1>3, <1>4, <1>5 DEF GetLen, ReadFileLen

-----------------------------------------------------------------------------
(* The ways in which the calls change the handles.                         *)

(* A handle is somewhere else, and nothing else has changed. *)
LEMMA MoveKeeps ==
  ASSUME FileInv, NEW fd \in Live, NEW pos \in Positions, NEW s \in Seen,
         Moved(fd, pos, s), UNCHANGED <<disk, sized>>,
         pos = s.from + s.given + s.missed,
         files[fd].kind = "package" =>
           s.missed = 0 /\ (s.given > 0 => pos <= SizeOf(files[fd]))
  PROVE  FileInv'
<1> USE DEF FileInv
<1>1. /\ UNCHANGED <<next, panicked, places, sizes, sized>> /\ Live' = Live
      /\ files'[fd] = [files[fd] EXCEPT !.at = pos] /\ seen'[fd] = s
      /\ \A x \in Live \ {fd} : files'[x] = files[x] /\ seen'[x] = seen[x]
      /\ files' = [x \in Live |-> files'[x]] /\ DOMAIN seen' = Live
  BY DEF Moved, disk, TypeOK, Live
<1>2. /\ files'[fd] \in File /\ files'[fd].kind = files[fd].kind
      /\ files'[fd].of = files[fd].of /\ files'[fd].at = pos
  BY <1>1, FileIs, MovedIs
<1>3. \A x \in Live : /\ files'[x] \in File /\ files'[x].kind = files[x].kind
                      /\ files'[x].of = files[x].of
  BY <1>1, <1>2, FileIs
<1>4. \A x \in Live : SizeOf(files[x])' = SizeOf(files[x])
  BY <1>1, <1>3 DEF SizeOf
<1>5. TypeOK'
  <2>1. files' \in [Live' -> PackageFile \cup DiskFile] /\ Live' \subseteq Fds
    BY <1>1, <1>3 DEF TypeOK, File
  <2>2. \A x \in Live : seen'[x] \in Seen
    BY <1>1 DEF TypeOK, Seen
  <2>3. Nodes' = Nodes
    BY <1>1 DEF Nodes
  <2>4. \A x \in Live : /\ files'[x].kind = "disk" => files'[x].of \in Nodes
                        /\ sized'[x] \in {-1} \cup Positions
    BY <1>1, <1>3 DEF TypeOK
  <2> QED BY <1>1, <2>1, <2>2, <2>3, <2>4 DEF TypeOK, Seen
<1>6. ReadsFollow'
  <2> SUFFICES ASSUME NEW x \in Live
               PROVE  /\ files'[x].at = seen'[x].from + seen'[x].given + seen'[x].missed
                      /\ files'[x].kind = "package" =>
                           /\ seen'[x].missed = 0
                           /\ seen'[x].given > 0 => files'[x].at <= SizeOf(files[x])'
    BY <1>1 DEF ReadsFollow
  <2>1. CASE x = fd
    BY <1>1, <1>2, <1>4, <2>1
  <2>2. CASE x # fd
    <3>1. files'[x] = files[x] /\ seen'[x] = seen[x]
      BY <1>1, <2>2
    <3> QED BY <1>4, <3>1 DEF ReadsFollow
  <2> QED BY <2>1, <2>2
<1>7. Told'
  BY <1>1, <1>4 DEF Told
<1> QED BY <1>5, <1>6, <1>7

(* Names come and go. *)
LEMMA PlacesKeep ==
  ASSUME FileInv, places' \in [Places -> {Absent, Directory} \cup Nodes],
         UNCHANGED <<files, next, sizes, panicked, seen, sized>>
  PROVE  FileInv'
<1>1. Live' = Live /\ Nodes' = Nodes
  BY DEF Live, Nodes
<1>2. \A x \in Live : SizeOf(files[x])' = SizeOf(files[x])
  BY DEF SizeOf
<1>3. TypeOK'
  BY <1>1 DEF FileInv, TypeOK
<1>4. ReadsFollow' /\ Told'
  BY <1>1, <1>2 DEF FileInv, ReadsFollow, Told
<1> QED BY <1>3, <1>4 DEF FileInv

LEMMA NameCallKeeps ==
  ASSUME FileInv, NameCall
  PROVE  FileInv'
<1>1. \A n \in Names : PathOf[n] \in Places
  BY Numbers
<1>2. places \in [Places -> {Absent, Directory} \cup Nodes]
  BY DEF FileInv, TypeOK
<1>3. ASSUME NEW n \in Names, Remove(n) \/ MkDir(n) \/ RmDir(n)
      PROVE  FileInv'
  BY <1>1, <1>2, <1>3, PlacesKeep DEF Remove, MkDir, RmDir
<1>4. ASSUME NEW old \in Names, NEW new \in Names, Rename(old, new)
      PROVE  FileInv'
  BY <1>1, <1>2, <1>4, PlacesKeep DEF Rename
<1> QED BY <1>3, <1>4 DEF NameCall

LEMMA CloseKeeps ==
  ASSUME FileInv, NEW fd \in Live, Close(fd)
  PROVE  FileInv'
<1>1. UNCHANGED <<next, places, sizes, panicked>> /\ Nodes' = Nodes
  BY DEF Close, disk, Nodes
<1>2. /\ Live' = Live \ {fd} /\ DOMAIN seen' = Live \ {fd} /\ DOMAIN sized' = Live \ {fd}
      /\ \A x \in Live \ {fd} : /\ files'[x] = files[x] /\ seen'[x] = seen[x]
                                /\ sized'[x] = sized[x]
      /\ files' = [x \in Live' |-> files'[x]]
  BY DEF Close, Restrict, Live
<1>3. \A x \in Live' : SizeOf(files[x])' = SizeOf(files[x])
  BY <1>1, <1>2 DEF SizeOf
<1>4. TypeOK'
  <2>1. files' \in [Live' -> PackageFile \cup DiskFile] /\ Live' \subseteq Fds
    BY <1>2 DEF FileInv, TypeOK
  <2> QED BY <1>1, <1>2, <2>1 DEF FileInv, TypeOK
<1>5. ReadsFollow' /\ Told'
  BY <1>2, <1>3 DEF FileInv, ReadsFollow, Told
<1> QED BY <1>4, <1>5 DEF FileInv

-----------------------------------------------------------------------------
(* Reading and seeking are moves.                                          *)

LEMMA AvailableIs ==
  ASSUME FileInv, NEW fd \in Live, NEW n \in Positions
  PROVE  LET k == Smaller(n, Available(files[fd]))
         IN /\ k \in Nat /\ files[fd].at + k \in Positions
            /\ k > 0 => files[fd].at + k <= SizeOf(files[fd])
<1> DEFINE k == Smaller(n, Available(files[fd]))
<1>1. /\ files[fd].at \in Positions /\ SizeOf(files[fd]) \in Positions
  BY FileIs DEF FileInv
<1>2. /\ k \in Nat /\ k <= Available(files[fd])
  BY <1>1, FileAssumption DEF Smaller, Available, Positions
<1>3. files[fd].at + k <= SizeOf(files[fd]) \/ k = 0
  BY <1>1, <1>2, FileAssumption DEF Available, Positions
<1> HIDE DEF k
<1>4. files[fd].at + k \in Positions
  BY <1>1, <1>2, <1>3, FileAssumption DEF Positions
<1>5. k > 0 => files[fd].at + k <= SizeOf(files[fd])
  BY <1>2, <1>3
<1> QED BY <1>2, <1>4, <1>5 DEF k

LEMMA ReadKeeps ==
  ASSUME FileInv, NEW fd \in Live, NEW n \in Positions, Read(fd, n)
  PROVE  FileInv'
<1> DEFINE k == Smaller(n, Available(files[fd]))
           f == files[fd]
           s == seen[fd]
<1>1. /\ k \in Nat /\ f.at + k \in Positions
      /\ k > 0 => f.at + k <= SizeOf(f)
  BY AvailableIs
<1>2. /\ s \in Seen /\ f.at = s.from + s.given + s.missed
      /\ f.kind = "package" => s.missed = 0 /\ (s.given > 0 => f.at <= SizeOf(f))
      /\ f.at \in Nat
  BY FileIs, Numbers DEF FileInv, TypeOK, ReadsFollow, Seen
<1> HIDE DEF k
<1>3. ASSUME Received(fd, k), UNCHANGED <<disk, sized>>
      PROVE  FileInv'
  <2> DEFINE t == [s EXCEPT !.given = @ + k]
  <2>1. /\ t \in Seen /\ t.from = s.from /\ t.given = s.given + k /\ t.missed = s.missed
    BY <1>1, <1>2 DEF Seen
  <2>2. f.at + k = t.from + t.given + t.missed
    BY <1>1, <1>2, <2>1, Numbers DEF Seen
  <2>3. f.kind = "package" => t.missed = 0 /\ (t.given > 0 => f.at + k <= SizeOf(f))
    BY <1>1, <1>2, <2>1 DEF Seen
  <2>4. Moved(fd, f.at + k, t)
    BY <1>3 DEF Received
  <2> HIDE DEF t
  <2> QED BY <1>1, <1>3, <2>1, <2>2, <2>3, <2>4, MoveKeeps
<1>4. ASSUME f.kind = "disk", Lost(fd, k), UNCHANGED <<disk, sized>>
      PROVE  FileInv'
  <2> DEFINE t == [s EXCEPT !.missed = @ + k]
  <2>1. /\ t \in Seen /\ t.from = s.from /\ t.given = s.given /\ t.missed = s.missed + k
    BY <1>1, <1>2 DEF Seen
  <2>2. f.at + k = t.from + t.given + t.missed
    BY <1>1, <1>2, <2>1, Numbers DEF Seen
  <2>3. Moved(fd, f.at + k, t)
    BY <1>4 DEF Lost
  <2> HIDE DEF t
  <2> QED BY <1>1, <1>4, <2>1, <2>2, <2>3, MoveKeeps
<1>5. CASE PackageRead(fd, n)
  BY <1>3, <1>5 DEF PackageRead, k
<1>6. CASE DiskRead(fd, n)
  BY <1>3, <1>4, <1>6 DEF DiskRead, k
<1>7. CASE PackageReadPanics(fd)
  <2>1. UNCHANGED <<files, next, places, sizes, seen, sized>> /\ panicked' \in BOOLEAN
    BY <1>7 DEF PackageReadPanics, disk
  <2>2. Live' = Live /\ Nodes' = Nodes /\ \A x \in Live : SizeOf(files[x])' = SizeOf(files[x])
    BY <2>1 DEF Live, Nodes, SizeOf
  <2>3. TypeOK'
    BY <2>1, <2>2 DEF FileInv, TypeOK
  <2>4. ReadsFollow' /\ Told'
    BY <2>1, <2>2 DEF FileInv, ReadsFollow, Told
  <2> QED BY <2>3, <2>4 DEF FileInv
<1> QED BY <1>5, <1>6, <1>7 DEF Read

LEMMA SeekKeeps ==
  ASSUME FileInv, NEW fd \in Live, NEW pos, NEW method, Seek(fd, pos, method)
  PROVE  FileInv'
<1> DEFINE to == Target(files[fd], pos, method)
           s == From(to)
<1>1. to \in Positions /\ Moved(fd, to, s) /\ UNCHANGED <<disk, sized>>
  BY DEF Seek
<1> HIDE DEF to
<1>2. /\ s \in Seen /\ to = s.from + s.given + s.missed /\ s.missed = 0 /\ ~(s.given > 0)
  BY <1>1, Numbers DEF From, Seen
<1> HIDE DEF s
<1> QED BY <1>1, <1>2, MoveKeeps

-----------------------------------------------------------------------------
(* A write changes the length of one file, and takes back what was         *)
(* promised of it.                                                         *)
LEMMA WriteKeeps ==
  ASSUME FileInv, NEW fd \in Live, NEW n \in Positions, Write(fd, n)
  PROVE  FileInv'
<1> DEFINE f == files[fd]
           pos == f.at + n
           s == From(pos)
<1>1. /\ f.kind = "disk" /\ pos \in Positions
      /\ sizes' = [sizes EXCEPT ![f.of] = Larger(@, pos)]
      /\ sized' = Unpromised(f.of) /\ Moved(fd, pos, s) /\ UNCHANGED places
  BY DEF Write
<1>2. f.of \in Nodes /\ sizes[f.of] \in Positions
  BY <1>1, FileIs, NodesAre DEF FileInv
<1>3. /\ Larger(sizes[f.of], pos) \in Positions
  BY <1>1, <1>2 DEF Larger
<1>4. /\ sizes' \in Seq(Positions) /\ Len(sizes') = Len(sizes) /\ Nodes' = Nodes
      /\ \A k \in Nodes \ {f.of} : sizes'[k] = sizes[k]
  <2>1. sizes \in Seq(Positions) /\ Nodes = 1 .. Len(sizes)
    BY NodesAre DEF FileInv, TypeOK
  <2>2. sizes' \in Seq(Positions) /\ Len(sizes') = Len(sizes)
    BY <1>1, <1>2, <1>3, <2>1, ExceptSeq
  <2>3. Nodes' = Nodes
    BY <2>1, <2>2, LenProperties DEF Nodes
  <2> QED BY <1>1, <2>1, <2>2, <2>3 DEF Nodes
<1>5. /\ UNCHANGED <<next, panicked>> /\ Live' = Live
      /\ files'[fd] = [f EXCEPT !.at = pos] /\ seen'[fd] = s
      /\ \A x \in Live \ {fd} : files'[x] = files[x] /\ seen'[x] = seen[x]
      /\ files' = [x \in Live |-> files'[x]] /\ DOMAIN seen' = Live
  BY <1>1 DEF Moved, FileInv, TypeOK, Live
<1> HIDE DEF pos
<1>6. /\ files'[fd] \in File /\ files'[fd].kind = f.kind
      /\ files'[fd].of = f.of /\ files'[fd].at = pos
  BY <1>1, <1>5, FileIs, MovedIs DEF FileInv
<1>7. \A x \in Live : /\ files'[x] \in File /\ files'[x].kind = files[x].kind
                      /\ files'[x].of = files[x].of
  BY <1>5, <1>6, FileIs DEF FileInv
<1>8. /\ s \in Seen /\ pos = s.from + s.given + s.missed
  BY <1>1, Numbers DEF From, Seen
<1> HIDE DEF s
<1>9. TypeOK'
  <2>1. files' \in [Live' -> PackageFile \cup DiskFile] /\ Live' \subseteq Fds
    BY <1>5, <1>7 DEF FileInv, TypeOK, File
  <2>2. \A x \in Live : seen'[x] \in Seen
    BY <1>5, <1>8 DEF FileInv, TypeOK, Seen
  <2>3. DOMAIN sized' = Live /\ \A x \in Live : sized'[x] \in {-1} \cup Positions
    BY <1>1 DEF Unpromised, FileInv, TypeOK
  <2>4. \A x \in Live : files'[x].kind = "disk" => files'[x].of \in Nodes
    BY <1>7, FileIs DEF FileInv
  <2> QED BY <1>1, <1>4, <1>5, <2>1, <2>2, <2>3, <2>4 DEF FileInv, TypeOK, Seen
<1>10. \A x \in Live : files[x].kind = "package" => SizeOf(files[x])' = SizeOf(files[x])
  BY <1>7 DEF SizeOf
<1>11. ReadsFollow'
  <2> SUFFICES ASSUME NEW x \in Live
               PROVE  /\ files'[x].at = seen'[x].from + seen'[x].given + seen'[x].missed
                      /\ files'[x].kind = "package" =>
                           /\ seen'[x].missed = 0
                           /\ seen'[x].given > 0 => files'[x].at <= SizeOf(files[x])'
    BY <1>5 DEF ReadsFollow
  <2>1. CASE x = fd
    BY <1>1, <1>5, <1>6, <1>8, <2>1
  <2>2. CASE x # fd
    <3>1. files'[x] = files[x] /\ seen'[x] = seen[x]
      BY <1>5, <2>2
    <3> QED BY <1>10, <3>1 DEF FileInv, ReadsFollow
  <2> QED BY <2>1, <2>2
<1>12. Told'
  <2> SUFFICES ASSUME NEW x \in Live, sized'[x] # -1
               PROVE  SizeOf(files[x])' = sized'[x]
    BY <1>5 DEF Told
  <2>1. sized'[x] = sized[x] /\ ~(files[x].kind = "disk" /\ files[x].of = f.of)
    BY <1>1 DEF Unpromised
  <2>2. SizeOf(files[x])' = SizeOf(files[x])
    <3>1. CASE files[x].kind = "package"
      BY <1>10, <3>1
    <3>2. CASE files[x].kind = "disk"
      BY <1>4, <1>7, <2>1, <3>2, FileIs DEF SizeOf, FileInv
    <3> QED BY <3>1, <3>2, FileIs DEF FileInv
  <2> QED BY <2>1, <2>2 DEF FileInv, Told
<1> QED BY <1>9, <1>11, <1>12 DEF FileInv

-----------------------------------------------------------------------------
(* A new handle, to a file that may be new on the disk, or cut off.  What  *)
(* is promised of the others stays, or is taken back.                      *)
SizeIn(f, sz) == IF f.kind = "package" THEN PackLen[f.of] ELSE sz[f.of]

LEMMA OpenedKeeps ==
  ASSUME FileInv, NEW f \in File, f.at = 0, Opened(f),
         sizes' \in Seq(Positions), Len(sizes') <= LastNode, Nodes \subseteq Nodes',
         places' \in [Places -> {Absent, Directory} \cup Nodes'],
         f.kind = "disk" => f.of \in Nodes',
         DOMAIN sized' = Live \cup {next}, sized'[next] \in {-1} \cup Positions,
         sized'[next] # -1 => sized'[next] = SizeIn(f, sizes'),
         \A x \in Live \ {next} :
           \/ sized'[x] = -1
           \/ sized'[x] = sized[x] /\ SizeIn(files[x], sizes') = SizeIn(files[x], sizes)
  PROVE  FileInv'
<1>1. /\ next \in Fds /\ next' = next + 1 /\ UNCHANGED panicked
      /\ Live' = Live \cup {next} /\ DOMAIN seen' = Live \cup {next}
      /\ files'[next] = f /\ seen'[next] = From(0)
      /\ \A x \in Live \ {next} : files'[x] = files[x] /\ seen'[x] = seen[x]
      /\ files' = [x \in Live' |-> files'[x]]
  BY DEF Opened, NextFd, Put, FileInv, TypeOK, Live
<1>2. From(0) \in Seen /\ From(0).from = 0 /\ From(0).given = 0 /\ From(0).missed = 0
  BY Numbers DEF From, Seen
<1>3. TypeOK'
  <2>1. files' \in [Live' -> PackageFile \cup DiskFile] /\ Live' \subseteq Fds
    BY <1>1 DEF FileInv, TypeOK, File
  <2>2. \A x \in Live' : seen'[x] \in Seen
    BY <1>1, <1>2 DEF FileInv, TypeOK, Seen
  <2>3. \A x \in Live' : sized'[x] \in {-1} \cup Positions
    BY <1>1 DEF FileInv, TypeOK
  <2>4. \A x \in Live' : files'[x].kind = "disk" => files'[x].of \in Nodes'
    BY <1>1, FileIs DEF FileInv
  <2>5. next' \in FirstFd .. LastFd + 1
    BY <1>1, FileAssumption DEF Fds
  <2> QED BY <1>1, <2>1, <2>2, <2>3, <2>4, <2>5 DEF FileInv, TypeOK, Seen
<1>4. ReadsFollow'
  <2> SUFFICES ASSUME NEW x \in Live'
               PROVE  /\ files'[x].at = seen'[x].from + seen'[x].given + seen'[x].missed
                      /\ files'[x].kind = "package" =>
                           /\ seen'[x].missed = 0
                           /\ seen'[x].given > 0 => files'[x].at <= SizeOf(files[x])'
    BY DEF ReadsFollow
  <2>1. CASE x = next
    BY <1>1, <1>2, <2>1
  <2>2. CASE x # next
    <3>1. x \in Live /\ files'[x] = files[x] /\ seen'[x] = seen[x]
      BY <1>1, <2>2
    <3>2. files[x].kind = "package" => SizeOf(files[x])' = SizeOf(files[x])
      BY <3>1 DEF SizeOf
    <3> QED BY <3>1, <3>2 DEF FileInv, ReadsFollow
  <2> QED BY <2>1, <2>2
<1>5. Told'
  <2> SUFFICES ASSUME NEW x \in Live', sized'[x] # -1
               PROVE  SizeIn(files'[x], sizes') = sized'[x]
    BY DEF Told, SizeOf, SizeIn
  <2>1. CASE x = next
    BY <1>1, <2>1
  <2>2. CASE x # next
    <3>1. /\ x \in Live /\ files'[x] = files[x] /\ sized'[x] = sized[x]
          /\ SizeIn(files[x], sizes') = SizeIn(files[x], sizes)
      BY <1>1, <2>2
    <3>2. SizeIn(files[x], sizes) = SizeOf(files[x])
      BY DEF SizeIn, SizeOf
    <3> QED BY <3>1, <3>2 DEF FileInv, Told
  <2> QED BY <2>1, <2>2
<1> QED BY <1>3, <1>4, <1>5 DEF FileInv

LEMMA OpenPackageKeeps ==
  ASSUME FileInv, NEW n \in Names, NEW mode \in SUBSET Flags, OpenPackage(n, mode)
  PROVE  FileInv'
<1> DEFINE f == [kind |-> "package", of |-> n, at |-> 0, read |-> TRUE, write |-> FALSE]
<1>1. /\ n \in Packaged /\ Opened(f) /\ sized' = Put(sized, next, PackLen[n])
      /\ UNCHANGED <<places, sizes>> /\ Nodes' = Nodes
  BY DEF OpenPackage, FromPackage, GetLen, disk, NextFd, Nodes
<1>2. f \in File /\ f.at = 0 /\ f.kind = "package" /\ f.of = n
  BY <1>1, Numbers DEF File, PackageFile
<1>3. /\ DOMAIN sized' = Live \cup {next} /\ sized'[next] = PackLen[n]
      /\ \A x \in Live \ {next} : sized'[x] = sized[x]
  BY <1>1 DEF Put, FileInv, TypeOK
<1>4. PackLen[n] \in Positions /\ PackLen[n] = SizeIn(f, sizes')
  BY <1>1, <1>2, Numbers DEF SizeIn
<1>5. /\ sizes' \in Seq(Positions) /\ Len(sizes') <= LastNode /\ Nodes \subseteq Nodes'
      /\ places' \in [Places -> {Absent, Directory} \cup Nodes']
  BY <1>1 DEF FileInv, TypeOK
<1>6. \A x \in Live \ {next} :
        sized'[x] = sized[x] /\ SizeIn(files[x], sizes') = SizeIn(files[x], sizes)
  BY <1>1, <1>3
<1> HIDE DEF f
<1> QED BY <1>1, <1>2, <1>3, <1>4, <1>5, <1>6, OpenedKeeps

(* One more file on the disk, or one cut off. *)
LEMMA EmptiedIs ==
  ASSUME TypeOK, NEW k \in NodeIds, k \in Nodes \/ k = Len(sizes) + 1
  PROVE  LET new == Put(sizes, k, 0)
         IN /\ new \in Seq(Positions) /\ Len(new) <= LastNode
            /\ DOMAIN new = Nodes \cup {k} /\ new[k] = 0
            /\ \A x \in Nodes \ {k} : new[x] = sizes[x]
<1> DEFINE new == Put(sizes, k, 0)
           m == IF k \in Nodes THEN Len(sizes) ELSE k
<1>1. /\ Len(sizes) \in Nat /\ Nodes = 1 .. Len(sizes) /\ Len(sizes) <= LastNode
      /\ \A x \in Nodes : sizes[x] \in Positions
  BY NodesAre DEF TypeOK
<1>2. /\ DOMAIN new = Nodes \cup {k} /\ new[k] = 0
      /\ \A x \in Nodes \ {k} : new[x] = sizes[x]
  BY DEF Put, Nodes
<1>3. m \in Nat /\ m <= LastNode /\ DOMAIN new = 1 .. m
  <2>1. CASE k \in Nodes
    BY <1>1, <1>2, <2>1
  <2>2. CASE k \notin Nodes
    <3>1. k = Len(sizes) + 1 /\ m = k /\ m <= LastNode /\ DOMAIN new = (1 .. Len(sizes)) \cup {k}
      BY <1>1, <1>2, <2>2, FileAssumption DEF NodeIds
    <3> HIDE DEF m, new
    <3> QED BY <1>1, <3>1
  <2> QED BY <2>1, <2>2
<1>4. new = [x \in 1 .. m |-> new[x]]
  BY <1>3 DEF Put
<1>5. \A x \in 1 .. m : new[x] \in Positions
  BY <1>1, <1>2, <1>3, Numbers
<1> HIDE DEF new, m
<1>6. new \in [1 .. m -> Positions]
  BY <1>4, <1>5
<1>7. new \in Seq(Positions)
  BY <1>3, <1>6, SeqDef
<1>8. Len(new) = m
  BY <1>3, <1>7, LenProperties
<1> QED BY <1>2, <1>3, <1>7, <1>8 DEF new

LEMMA OpenDiskKeeps ==
  ASSUME FileInv, NEW n \in Names, NEW mode \in SUBSET Flags, OpenDisk(n, mode)
  PROVE  FileInv'
<1> DEFINE p == PathOf[n]
           k == IF IsFile(p) THEN places[p] ELSE Len(sizes) + 1
           empty == ~IsFile(p) \/ "RECREATE" \in mode
           f == [kind |-> "disk", of |-> k, at |-> 0,
                 read |-> Reads(mode), write |-> WantsWrite(mode)]
<1>1. /\ ~FromPackage(n, mode) /\ OpensOnDisk(n, mode) /\ k \in NodeIds /\ Opened(f)
      /\ places' = [places EXCEPT ![p] = k]
      /\ sizes' = IF empty THEN Put(sizes, k, 0) ELSE sizes
      /\ sized' = IF WantsWrite(mode)
                  THEN Put(IF empty THEN Unpromised(k) ELSE sized, next, -1)
                  ELSE Put(sized, next, GetLen(n))
  BY DEF OpenDisk, NextFd
<1>2. /\ p \in Places /\ (k \in Nodes \/ k = Len(sizes) + 1)
      /\ IsFile(p) => k \in Nodes /\ k = places[p]
  BY Numbers DEF IsFile
<1>3. TypeOK /\ sizes \in Seq(Positions) /\ Len(sizes) <= LastNode
      /\ places \in [Places -> {Absent, Directory} \cup Nodes] /\ DOMAIN sized = Live
  BY DEF FileInv, TypeOK
<1>4. f \in File /\ f.at = 0 /\ f.kind = "disk" /\ f.of = k
  BY <1>1, Numbers DEF File, DiskFile, Reads, WantsWrite
<1>5. ~WantsWrite(mode) => ~empty /\ n \notin Packaged
  BY <1>1 DEF OpensOnDisk, FromPackage, WantsCreate
<1> HIDE DEF k, empty, f
<1>6. /\ sizes' \in Seq(Positions) /\ Len(sizes') <= LastNode
      /\ Nodes' = Nodes \cup {k}
      /\ \A x \in Nodes \ {k} : sizes'[x] = sizes[x]
  <2>1. CASE empty
    BY <1>1, <1>2, <1>3, <2>1, EmptiedIs DEF Nodes
  <2>2. CASE ~empty
    <3>1. k \in Nodes
      BY <1>2, <2>2 DEF empty
    <3> QED BY <1>1, <1>3, <2>2, <3>1 DEF Nodes
  <2> QED BY <2>1, <2>2
<1>7. places' \in [Places -> {Absent, Directory} \cup Nodes']
  BY <1>1, <1>2, <1>3, <1>6
<1>8. CASE WantsWrite(mode)
  <2>1. DOMAIN sized' = Live \cup {next} /\ sized'[next] = -1
    BY <1>1, <1>3, <1>8 DEF Put, Unpromised
  <2>2. ASSUME NEW x \in Live \ {next}
        PROVE  \/ sized'[x] = -1
               \/ sized'[x] = sized[x] /\ SizeIn(files[x], sizes') = SizeIn(files[x], sizes)
    <3>1. CASE empty
      <4>1. sized'[x] = IF files[x].kind = "disk" /\ files[x].of = k THEN -1 ELSE sized[x]
        BY <1>1, <1>3, <1>8, <2>2, <3>1 DEF Put, Unpromised
      <4>2. CASE files[x].kind = "disk" /\ files[x].of # k
        <5>1. files[x].of \in Nodes \ {k}
          BY <1>3, <4>2, FileIs
        <5> QED BY <1>6, <4>1, <4>2, <5>1 DEF SizeIn
      <4>3. CASE files[x].kind = "disk" /\ files[x].of = k
        BY <4>1, <4>3
      <4>4. CASE files[x].kind = "package"
        BY <4>1, <4>4 DEF SizeIn
      <4>5. files[x].kind \in {"package", "disk"}
        BY <1>3, FileIs
      <4> QED BY <4>2, <4>3, <4>4, <4>5
    <3>2. CASE ~empty
      BY <1>1, <1>3, <1>8, <2>2, <3>2 DEF Put
    <3> QED BY <3>1, <3>2
  <2> QED BY <1>1, <1>4, <1>6, <1>7, <2>1, <2>2, OpenedKeeps
<1>9. CASE ~WantsWrite(mode)
  <2>1. sizes' = sizes /\ k \in Nodes /\ GetLen(n) = sizes[k]
    BY <1>1, <1>2, <1>5, <1>9 DEF GetLen, empty
  <2>2. GetLen(n) \in Positions /\ GetLen(n) = SizeIn(f, sizes')
    BY <1>3, <1>4, <2>1, NodesAre DEF SizeIn
  <2>3. /\ DOMAIN sized' = Live \cup {next} /\ sized'[next] = GetLen(n)
        /\ \A x \in Live \ {next} : sized'[x] = sized[x]
    BY <1>1, <1>3, <1>9 DEF Put
  <2>4. \A x \in Live \ {next} :
          sized'[x] = sized[x] /\ SizeIn(files[x], sizes') = SizeIn(files[x], sizes)
    BY <2>1, <2>3
  <2> QED BY <1>1, <1>4, <1>6, <1>7, <2>2, <2>3, <2>4, OpenedKeeps
<1> QED BY <1>8, <1>9

-----------------------------------------------------------------------------
LEMMA InitFileInv == Init => FileInv
<1> SUFFICES ASSUME Init PROVE FileInv
  OBVIOUS
<1>1. /\ Live = {} /\ files \in [Live -> PackageFile \cup DiskFile]
      /\ DOMAIN seen = {} /\ DOMAIN sized = {}
  BY DEF Init, Live
<1>2. sizes \in Seq(Positions) /\ Len(sizes) = 1 /\ Nodes = {1}
  BY Numbers DEF Init, Nodes
<1>3. places \in [Places -> {Absent, Directory} \cup Nodes]
  BY <1>2 DEF Init
<1>4. TypeOK
  <2>1. Live \subseteq Fds /\ panicked \in BOOLEAN
    BY <1>1 DEF Init
  <2>2. next \in FirstFd .. LastFd + 1
    BY FileAssumption DEF Init
  <2>3. Len(sizes) <= LastNode
    BY <1>2, FileAssumption
  <2> QED BY <1>1, <1>2, <1>3, <2>1, <2>2, <2>3 DEF TypeOK
<1>5. ReadsFollow /\ Told
  BY <1>1 DEF ReadsFollow, Told
<1> QED BY <1>4, <1>5 DEF FileInv

LEMMA NextFileInv == FileInv /\ [Next]_vars => FileInv'
<1> SUFFICES ASSUME FileInv, [Next]_vars PROVE FileInv'
  OBVIOUS
<1>1. CASE HandleCall
  <2>1. ASSUME NEW n \in Names, NEW mode \in SUBSET Flags, Open(n, mode)
        PROVE  FileInv'
    BY <2>1, OpenPackageKeeps, OpenDiskKeeps DEF Open
  <2>2. ASSUME NEW fd \in Live, Close(fd) PROVE FileInv'
    BY <2>2, CloseKeeps
  <2>3. ASSUME NEW fd \in Live, NEW n \in Positions, Read(fd, n) \/ Write(fd, n)
        PROVE  FileInv'
    BY <2>3, ReadKeeps, WriteKeeps
  <2>4. ASSUME NEW fd \in Live, NEW pos, NEW method, Seek(fd, pos, method)
        PROVE  FileInv'
    BY <2>4, SeekKeeps
  <2> QED BY <1>1, <2>1, <2>2, <2>3, <2>4 DEF HandleCall
<1>2. CASE NameCall
  BY <1>2, NameCallKeeps
<1>3. CASE UNCHANGED vars
  <2>1. /\ places' \in [Places -> {Absent, Directory} \cup Nodes]
        /\ UNCHANGED <<files, next, sizes, panicked, seen, sized>>
    BY <1>3 DEF vars, FileInv, TypeOK
  <2> QED BY <2>1, PlacesKeep
<1> QED BY <1>1, <1>2, <1>3 DEF Next, Call, Fails

LEMMA FilesInductive == Spec => []FileInv
<1> QED BY InitFileInv, NextFileInv, PTL DEF Spec

(* The variables keep their types: no handle without a file, no file       *)
(* without a length.                                                       *)
THEOREM FileTypes == Spec => []TypeOK
<1>1. FileInv => TypeOK
  BY DEF FileInv
<1> QED BY <1>1, FilesInductive, PTL

(* The cursor of a handle is where the last move put it and what has been  *)
(* read since, faults and reads at the end included (read_host_file and    *)
(* DsmHostFn::Read).                                                       *)
THEOREM CursorsFollow == Spec => []ReadsFollow
<1>1. FileInv => ReadsFollow
  BY DEF FileInv
<1> QED BY <1>1, FilesInductive, PTL

(* What mr_info, mr_getLen, mr_readFile and mr_open say of a name agrees,  *)
(* and what mr_getLen said when a file was opened for reading holds until  *)
(* somebody writes it.                                                     *)
THEOREM LookupsAlwaysAgree == Spec => []LookupsAgree
<1>1. FileInv => LookupsAgree
  BY LookupsFollow DEF FileInv
<1> QED BY <1>1, FilesInductive, PTL

-----------------------------------------------------------------------------
(* No call brings back a handle that was closed (next_file_handle).        *)
THEOREM HandlesNeverReturn == Spec => HandlesLiveOnce
<1>1. ASSUME [Next]_vars, NEW fd \in Fds, fd < next, fd \notin Live
      PROVE  fd \notin Live'
  <2>1. ASSUME NEW f, Opened(f) PROVE fd \notin Live'
    <3>1. fd # next /\ Live' = Live \cup {next}
      BY <1>1, <2>1, Numbers DEF Opened, Put, NextFd, Live
    <3> QED BY <1>1, <3>1
  <2>2. ASSUME NEW x, NEW pos, NEW s, Moved(x, pos, s) PROVE fd \notin Live'
    BY <1>1, <2>2 DEF Moved, Live
  <2>3. ASSUME NEW n, NEW mode, Open(n, mode) PROVE fd \notin Live'
    BY <2>1, <2>3 DEF Open, OpenPackage, OpenDisk
  <2>4. ASSUME NEW x, Close(x) PROVE fd \notin Live'
    BY <1>1, <2>4 DEF Close, Restrict, Live
  <2>5. ASSUME NEW x, NEW n, Read(x, n) \/ Write(x, n) PROVE fd \notin Live'
    <3>1. CASE PackageReadPanics(x)
      BY <1>1, <3>1 DEF PackageReadPanics, Live
    <3>2. CASE \E k : Received(x, k) \/ Lost(x, k)
      BY <2>2, <3>2 DEF Received, Lost
    <3>3. CASE Write(x, n)
      BY <2>2, <3>3 DEF Write
    <3> QED BY <2>5, <3>1, <3>2, <3>3 DEF Read, PackageRead, DiskRead
  <2>6. ASSUME NEW x, NEW pos, NEW method, Seek(x, pos, method) PROVE fd \notin Live'
    BY <2>2, <2>6 DEF Seek
  <2>7. CASE UNCHANGED files
    BY <1>1, <2>7 DEF Live
  <2>8. NameCall => UNCHANGED files
    BY DEF NameCall, Remove, Rename, MkDir, RmDir
  <2>9. UNCHANGED vars => UNCHANGED files
    BY DEF vars
  <2> QED BY <1>1, <2>3, <2>4, <2>5, <2>6, <2>7, <2>8, <2>9
          DEF Next, Call, Fails, HandleCall
<1>2. [Next]_vars => [\A fd \in Fds : fd < next /\ fd \notin Live => fd \notin Live']_vars
  BY <1>1
<1> QED BY <1>2, PTL DEF Spec, HandlesLiveOnce
=============================================================================
