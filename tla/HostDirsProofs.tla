-------------------------- MODULE HostDirsProofs --------------------------
(***************************************************************************)
(* Proofs about HostDirs, for every finite set of entries and any number   *)
(* of handles.                                                             *)
(***************************************************************************)
EXTENDS HostDirs, SequenceTheorems, FiniteSetTheorems, TLAPS

(* A handle with the list es, at c, through which the guest was given g    *)
(* and missed m, of a directory of which f was listed.                     *)
Fine(es, c, g, m, f) ==
  /\ es \in Seq(Entries) /\ c \in 0 .. Len(es)
  /\ \A i, j \in 1 .. Len(es) : es[i] = es[j] => i = j
  /\ f = {es[i] : i \in 1 .. Len(es)}
  /\ g \in Seq(Entries) /\ m \subseteq Entries
  /\ \A i, j \in 1 .. Len(g) : g[i] = g[j] => i = j
  /\ {g[i] : i \in 1 .. Len(g)} \cup m = {es[i] : i \in 1 .. c}
  /\ {g[i] : i \in 1 .. Len(g)} \cap m = {}

(* What holds of a handle whether it is open or not. *)
Lists(g, m, f) ==
  /\ ToSet(g) \cup m \subseteq f
  /\ IsInjective(g)
  /\ ToSet(g) \cap m = {}

Types ==
  /\ present \subseteq Entries
  /\ Open \subseteq Handles /\ dirs \in [Open -> Dir]
  /\ next \in FirstHandle .. LastHandle + 1
  /\ given \in [Handles -> Seq(Entries)] /\ missed \in [Handles -> SUBSET Entries]
  /\ found \in [Handles -> SUBSET Entries] /\ dropped \in [Handles -> SUBSET Entries]
  /\ ended \subseteq Handles

Listed(h) == found[h] \ dropped[h]

OpenFine ==
  \A h \in Open :
    /\ Fine(dirs[h].entries, dirs[h].cursor, given[h], missed[h], Listed(h))
    /\ h \in ended => dirs[h].cursor = Len(dirs[h].entries)

(* What the list left out was there, and held all that cannot be named. *)
DropsFound ==
  \A h \in Handles : dropped[h] \subseteq found[h] /\ found[h] \ Nameable \subseteq dropped[h]

(* Handles are given out in order. *)
Unused ==
  \A h \in Handles : h >= next =>
    h \notin Open /\ h \notin ended /\ given[h] = << >> /\ missed[h] = {}

DirInv == Types /\ OpenFine /\ DropsFound /\ Unused /\ ListsASnapshot /\ EndIsTheEnd

-----------------------------------------------------------------------------
(* One handle. *)

(* A list of all entries, each once, and nothing of it given yet. *)
LEMMA FreshIsFine ==
  ASSUME NEW P \in SUBSET Entries, NEW list \in SetToSeqs(P)
  PROVE  Fine(list, 0, << >>, {}, P)
<1>1. IsFiniteSet(P) /\ Cardinality(P) \in Nat
  BY DirAssumption, FS_Subset, FS_CardinalityType
<1> DEFINE n == Cardinality(P)
<1>2. list \in [1 .. n -> P] /\ \A i, j \in 1 .. n : i # j => list[i] # list[j]
  BY DEF SetToSeqs
<1>3. list \in Seq(Entries) /\ Len(list) = n
  BY <1>1, <1>2, SeqDef, LenProperties
<1>4. IsFiniteSet(1 .. n) /\ Cardinality(1 .. n) = n
  BY <1>1, FS_Interval
<1>5. list \in Injection(1 .. n, P)
  BY <1>2 DEF Injection, IsInjective
<1> HIDE DEF n
<1>6. list \in Surjection(1 .. n, P)
  BY <1>1, <1>4, <1>5, FS_Injection DEF n
<1>7. P = {list[i] : i \in 1 .. Len(list)}
  BY <1>2, <1>3, <1>6 DEF Surjection
<1>8. {list[i] : i \in 1 .. 0} = {} /\ {<< >>[i] : i \in 1 .. Len(<< >>)} = {}
      /\ Len(<< >>) = 0 /\ << >> \in Seq(Entries)
  BY EmptySeq
<1> QED BY <1>1, <1>2, <1>3, <1>7, <1>8 DEF Fine, n

(* The entry under the cursor is given. *)
LEMMA GivenIsFine ==
  ASSUME NEW es, NEW c, NEW g, NEW m, NEW f, Fine(es, c, g, m, f), c < Len(es)
  PROVE  Fine(es, c + 1, Append(g, es[c + 1]), m, f)
<1> DEFINE e == es[c + 1]
           k == Append(g, e)
<1>1. es \in Seq(Entries) /\ Len(es) \in Nat /\ c \in 0 .. Len(es) /\ c + 1 \in 1 .. Len(es)
      /\ e \in Entries
  BY LenProperties, ElementOfSeq DEF Fine
<1>2. g \in Seq(Entries) /\ Len(g) \in Nat
  BY LenProperties DEF Fine
<1>3. k \in Seq(Entries) /\ Len(k) = Len(g) + 1 /\ k[Len(g) + 1] = e
      /\ \A i \in 1 .. Len(g) : k[i] = g[i]
  BY <1>1, <1>2, AppendProperties
<1>4. e \notin {es[i] : i \in 1 .. c}
  BY <1>1 DEF Fine
<1> HIDE DEF k
<1>5. {k[i] : i \in 1 .. Len(k)} = {g[i] : i \in 1 .. Len(g)} \cup {e}
  BY <1>2, <1>3
<1>6. {es[i] : i \in 1 .. c + 1} = {es[i] : i \in 1 .. c} \cup {e}
  BY <1>1
<1>7. e \notin {g[i] : i \in 1 .. Len(g)} /\ e \notin m
  BY <1>4 DEF Fine
<1>8. \A i, j \in 1 .. Len(k) : k[i] = k[j] => i = j
  <2>1. \A i \in 1 .. Len(g) : g[i] # e
    BY <1>7
  <2>2. \A i, j \in 1 .. Len(g) : g[i] = g[j] => i = j
    BY DEF Fine
  <2> QED BY <1>2, <1>3, <2>1, <2>2
<1>9. c + 1 \in 0 .. Len(es)
  BY <1>1
<1> HIDE DEF e
<1>10. {k[i] : i \in 1 .. Len(k)} \cup m = {es[i] : i \in 1 .. c + 1}
  <2>1. {g[i] : i \in 1 .. Len(g)} \cup m = {es[i] : i \in 1 .. c}
    BY DEF Fine
  <2> QED BY <1>5, <1>6, <2>1, Zenon
<1>11. {k[i] : i \in 1 .. Len(k)} \cap m = {}
  <2>1. {g[i] : i \in 1 .. Len(g)} \cap m = {}
    BY DEF Fine
  <2> QED BY <1>5, <1>7, <2>1, Zenon
<1>12. /\ \A i, j \in 1 .. Len(es) : es[i] = es[j] => i = j
       /\ f = {es[i] : i \in 1 .. Len(es)} /\ m \subseteq Entries
  BY DEF Fine
<1>13. Fine(es, c + 1, k, m, f)
  BY <1>1, <1>3, <1>8, <1>9, <1>10, <1>11, <1>12, Zenon DEF Fine
<1> QED BY <1>13, Zenon DEF k, e

(* The entry under the cursor is lost. *)
LEMMA MissedIsFine ==
  ASSUME NEW es, NEW c, NEW g, NEW m, NEW f, Fine(es, c, g, m, f), c < Len(es)
  PROVE  Fine(es, c + 1, g, m \cup {es[c + 1]}, f)
<1> DEFINE e == es[c + 1]
<1>1. es \in Seq(Entries) /\ Len(es) \in Nat /\ c \in 0 .. Len(es) /\ c + 1 \in 1 .. Len(es)
      /\ e \in Entries
  BY LenProperties, ElementOfSeq DEF Fine
<1>2. e \notin {es[i] : i \in 1 .. c}
  BY <1>1 DEF Fine
<1>3. {es[i] : i \in 1 .. c + 1} = {es[i] : i \in 1 .. c} \cup {e}
  BY <1>1
<1>4. e \notin {g[i] : i \in 1 .. Len(g)}
  BY <1>2 DEF Fine
<1>5. c + 1 \in 0 .. Len(es)
  BY <1>1
<1> HIDE DEF e
<1>6. {g[i] : i \in 1 .. Len(g)} \cup (m \cup {e}) = {es[i] : i \in 1 .. c + 1}
  <2>1. {g[i] : i \in 1 .. Len(g)} \cup m = {es[i] : i \in 1 .. c}
    BY DEF Fine
  <2> QED BY <1>3, <2>1, Zenon
<1>7. {g[i] : i \in 1 .. Len(g)} \cap (m \cup {e}) = {}
  <2>1. {g[i] : i \in 1 .. Len(g)} \cap m = {}
    BY DEF Fine
  <2> QED BY <1>4, <2>1, Zenon
<1>8. /\ \A i, j \in 1 .. Len(es) : es[i] = es[j] => i = j
      /\ f = {es[i] : i \in 1 .. Len(es)}
      /\ g \in Seq(Entries) /\ m \cup {e} \subseteq Entries
      /\ \A i, j \in 1 .. Len(g) : g[i] = g[j] => i = j
  BY <1>1 DEF Fine
<1>9. Fine(es, c + 1, g, m \cup {e}, f)
  BY <1>1, <1>5, <1>6, <1>7, <1>8, Zenon DEF Fine
<1> QED BY <1>9, Zenon DEF e

(* What the guest has got through a handle is a part of the list, and all  *)
(* of it at the end.                                                       *)
LEMMA FineLists ==
  ASSUME NEW es, NEW c, NEW g, NEW m, NEW f, Fine(es, c, g, m, f)
  PROVE  /\ Lists(g, m, f)
         /\ c = Len(es) => f = ToSet(g) \cup m
<1>1. Len(es) \in Nat /\ c \in 0 .. Len(es) /\ DOMAIN g = 1 .. Len(g)
  BY LenProperties DEF Fine
<1>2. ToSet(g) = {g[i] : i \in 1 .. Len(g)}
  BY <1>1 DEF ToSet
<1>3. IsInjective(g)
  BY <1>1 DEF Fine, IsInjective
<1>4. {es[i] : i \in 1 .. c} \subseteq f
  BY <1>1 DEF Fine
<1> QED BY <1>1, <1>2, <1>3, <1>4 DEF Fine, Lists

-----------------------------------------------------------------------------
(* The operations, by what they do to the handles.                         *)

(* A new handle is given out. *)
LEMMA InsertKeeps ==
  ASSUME DirInv, NextHandle \in Handles,
         NEW listed \in Readable, Keeps(listed),
         NEW d \in Dir, NEW g, NEW m, Fine(d.entries, d.cursor, g, m, listed),
         dirs' = Inserted(d), next' = next + 1,
         given' = [given EXCEPT ![NextHandle] = g],
         missed' = [missed EXCEPT ![NextHandle] = m],
         UNCHANGED <<present, ended>>
  PROVE  DirInv'
<1>1. /\ next \in Handles /\ next \in Int /\ Handles \subseteq Int
      /\ Open' = Open \cup {next}
      /\ dirs'[next] = d /\ \A h \in Open \ {next} : dirs'[h] = dirs[h]
  BY DirAssumption DEF DirInv, Types, Inserted, NextHandle, Handles, Open
<1>2. next \notin Open /\ next \notin ended
  BY <1>1 DEF DirInv, Unused
<1>3. g \in Seq(Entries) /\ m \subseteq Entries
  BY DEF Fine
<1>4. /\ given'[next] = g /\ missed'[next] = m
      /\ found'[next] = present /\ dropped'[next] = present \ listed
      /\ \A h \in Handles \ {next} :
           given'[h] = given[h] /\ missed'[h] = missed[h]
           /\ found'[h] = found[h] /\ dropped'[h] = dropped[h]
  BY <1>1 DEF DirInv, Types, NextHandle, Keeps
<1>11. listed \subseteq present /\ listed \subseteq Nameable /\ present \subseteq Entries
  BY DEF Readable, DirInv, Types
<1>12. /\ found'[next] \ dropped'[next] = listed
       /\ \A h \in Handles \ {next} : found'[h] \ dropped'[h] = Listed(h)
  <2>1. present \ (present \ listed) = listed
    BY <1>11
  <2> QED BY <1>4, <2>1 DEF Listed
<1>13. DropsFound'
  BY <1>4, <1>11 DEF DirInv, DropsFound
<1>5. Types'
  <2>1. /\ given' \in [Handles -> Seq(Entries)] /\ missed' \in [Handles -> SUBSET Entries]
        /\ found' \in [Handles -> SUBSET Entries] /\ dropped' \in [Handles -> SUBSET Entries]
    BY <1>1, <1>3, <1>11 DEF DirInv, Types, NextHandle, Keeps
  <2>2. Open' \subseteq Handles /\ dirs' \in [Open' -> Dir]
    BY <1>1 DEF DirInv, Types, Inserted, NextHandle
  <2>3. next' \in FirstHandle .. LastHandle + 1
    BY <1>1, DirAssumption DEF DirInv, Types, Handles
  <2> QED BY <2>1, <2>2, <2>3 DEF DirInv, Types
<1>6. OpenFine'
  <2> SUFFICES ASSUME NEW h \in Open'
               PROVE  /\ Fine(dirs'[h].entries, dirs'[h].cursor, given'[h], missed'[h], found'[h] \ dropped'[h])
                      /\ h \in ended => dirs'[h].cursor = Len(dirs'[h].entries)
    BY DEF OpenFine, Listed
  <2>1. CASE h = next
    BY <1>1, <1>2, <1>4, <1>12, <2>1
  <2>2. CASE h # next
    <3>1. h \in Open /\ h \in Handles /\ dirs'[h] = dirs[h]
      BY <1>1, <2>2 DEF DirInv, Types
    <3>2. given'[h] = given[h] /\ missed'[h] = missed[h] /\ found'[h] \ dropped'[h] = Listed(h)
      BY <1>4, <1>12, <2>2, <3>1
    <3> QED BY <3>1, <3>2 DEF DirInv, OpenFine
  <2> QED BY <2>1, <2>2
<1>7. Unused'
  <2> SUFFICES ASSUME NEW h \in Handles, h >= next'
               PROVE  h \notin Open' /\ h \notin ended' /\ given'[h] = << >> /\ missed'[h] = {}
    BY DEF Unused
  <2>1. h >= next /\ h # next
    BY <1>1
  <2> QED BY <1>1, <1>4, <2>1 DEF DirInv, Unused
<1>8. Lists(g, m, listed)
  BY FineLists
<1>9. ListsASnapshot'
  <2>1. \A h \in Handles : Lists(given[h], missed[h], Listed(h))
    BY DEF DirInv, ListsASnapshot, Lists, Listed
  <2>2. \A h \in Handles : Lists(given'[h], missed'[h], found'[h] \ dropped'[h])
    BY <1>4, <1>8, <1>12, <2>1
  <2> QED BY <2>2 DEF ListsASnapshot, Lists, Listed
<1>10. EndIsTheEnd'
  <2>1. \A h \in ended : h \in Handles \ {next}
    BY <1>2 DEF DirInv, Types
  <2> QED BY <1>4, <2>1 DEF DirInv, EndIsTheEnd
<1> QED BY <1>5, <1>6, <1>7, <1>9, <1>10, <1>13 DEF DirInv

(* The cursor of a handle moves on, and the guest gets an entry or not. *)
LEMMA WalkKeeps ==
  ASSUME DirInv, NEW h \in Open, More(dirs[h]),
         NEW d \in Dir, NEW g, NEW m, Fine(d.entries, d.cursor, g, m, Listed(h)),
         dirs' = [dirs EXCEPT ![h] = d],
         given' = [given EXCEPT ![h] = g], missed' = [missed EXCEPT ![h] = m],
         UNCHANGED <<present, next, found, dropped, ended>>
  PROVE  DirInv'
<1>1. /\ h \in Handles /\ Open' = Open
      /\ dirs'[h] = d /\ \A k \in Open \ {h} : dirs'[k] = dirs[k]
  BY DEF DirInv, Types, Open
<1>2. h \notin ended
  <2>1. dirs[h].cursor < Len(dirs[h].entries)
    BY DEF More
  <2>2. dirs[h].cursor \in Int
    BY DEF DirInv, Types, Dir
  <2> QED BY <2>1, <2>2 DEF DirInv, OpenFine
<1>3. g \in Seq(Entries) /\ m \subseteq Entries
  BY DEF Fine
<1>4. /\ given'[h] = g /\ missed'[h] = m
      /\ \A k \in Handles \ {h} : given'[k] = given[k] /\ missed'[k] = missed[k]
  BY <1>1 DEF DirInv, Types
<1>5. Types'
  <2>1. given' \in [Handles -> Seq(Entries)] /\ missed' \in [Handles -> SUBSET Entries]
    BY <1>1, <1>3 DEF DirInv, Types
  <2>2. Open' \subseteq Handles /\ dirs' \in [Open' -> Dir]
    BY <1>1 DEF DirInv, Types
  <2> QED BY <2>1, <2>2 DEF DirInv, Types
<1>6. OpenFine'
  <2> SUFFICES ASSUME NEW k \in Open
               PROVE  /\ Fine(dirs'[k].entries, dirs'[k].cursor, given'[k], missed'[k], Listed(k))
                      /\ k \in ended => dirs'[k].cursor = Len(dirs'[k].entries)
    BY <1>1 DEF OpenFine, Listed
  <2>1. CASE k = h
    BY <1>1, <1>2, <1>4, <2>1
  <2>2. CASE k # h
    <3>1. k \in Handles /\ dirs'[k] = dirs[k]
      BY <1>1, <2>2 DEF DirInv, Types
    <3> QED BY <1>4, <2>2, <3>1 DEF DirInv, OpenFine
  <2> QED BY <2>1, <2>2
<1>7. Unused'
  <2> SUFFICES ASSUME NEW k \in Handles, k >= next
               PROVE  k \notin Open /\ k \notin ended /\ given'[k] = << >> /\ missed'[k] = {}
    BY <1>1 DEF Unused
  <2>1. k \notin Open /\ k \notin ended /\ given[k] = << >> /\ missed[k] = {}
    BY DEF DirInv, Unused
  <2>2. k # h
    BY <2>1
  <2> QED BY <1>4, <2>1, <2>2
<1>8. Lists(g, m, Listed(h))
  BY FineLists
<1>9. ListsASnapshot'
  <2>1. \A k \in Handles : Lists(given[k], missed[k], Listed(k))
    BY DEF DirInv, ListsASnapshot, Lists, Listed
  <2>2. \A k \in Handles : Lists(given'[k], missed'[k], Listed(k))
    BY <1>4, <1>8, <2>1
  <2> QED BY <2>2 DEF ListsASnapshot, Lists, Listed
<1>11. DropsFound'
  BY DEF DirInv, DropsFound
<1>10. EndIsTheEnd'
  <2>1. \A k \in ended : k \in Handles \ {h}
    BY <1>2 DEF DirInv, Types
  <2> QED BY <1>4, <2>1 DEF DirInv, EndIsTheEnd
<1> QED BY <1>5, <1>6, <1>7, <1>9, <1>10, <1>11 DEF DirInv

(* The guest is told the end. *)
LEMMA EndKeeps ==
  ASSUME DirInv, NEW h \in Open, ~More(dirs[h]), ended' = ended \cup {h},
         UNCHANGED <<present, dirs, next, found, dropped, given, missed>>
  PROVE  DirInv'
<1>1. h \in Handles /\ Open' = Open
  BY DEF DirInv, Types, Open
<1>2. dirs[h].cursor = Len(dirs[h].entries)
  <2>1. /\ dirs[h].cursor \in 0 .. Len(dirs[h].entries) /\ Len(dirs[h].entries) \in Nat
    BY LenProperties DEF DirInv, OpenFine, Fine
  <2> QED BY <2>1 DEF More
<1>3. /\ found[h] = ToSet(given[h]) \cup missed[h] \cup dropped[h]
      /\ found[h] \ Nameable \subseteq dropped[h]
  <2>1. Listed(h) = ToSet(given[h]) \cup missed[h]
    BY <1>2, FineLists DEF DirInv, OpenFine
  <2>2. dropped[h] \subseteq found[h] /\ found[h] \ Nameable \subseteq dropped[h]
    BY <1>1 DEF DirInv, DropsFound
  <2> QED BY <2>1, <2>2 DEF Listed
<1>4. Types' /\ OpenFine' /\ DropsFound' /\ EndIsTheEnd'
  BY <1>1, <1>2, <1>3 DEF DirInv, Types, OpenFine, Listed, DropsFound, EndIsTheEnd
<1>5. Unused'
  <2>1. ~(h >= next)
    BY <1>1 DEF DirInv, Unused
  <2> QED BY <1>1, <2>1 DEF DirInv, Unused
<1>6. ListsASnapshot'
  BY DEF DirInv, ListsASnapshot
<1> QED BY <1>4, <1>5, <1>6 DEF DirInv

LEMMA CloseKeeps ==
  ASSUME DirInv, NEW h \in Open, CloseDir(h)
  PROVE  DirInv'
<1>1. /\ Open' = Open \ {h} /\ \A k \in Open' : dirs'[k] = dirs[k]
      /\ dirs' \in [Open' -> Dir]
  BY DEF CloseDir, DirInv, Types, Open
<1>2. Types' /\ OpenFine' /\ DropsFound' /\ Unused' /\ ListsASnapshot' /\ EndIsTheEnd'
  <2>1. UNCHANGED <<present, next, given, missed, found, dropped, ended>>
    BY DEF CloseDir, history
  <2>2. Types'
    BY <1>1, <2>1 DEF DirInv, Types
  <2>3. OpenFine'
    BY <1>1, <2>1 DEF DirInv, OpenFine, Listed
  <2>4. Unused'
    BY <1>1, <2>1 DEF DirInv, Unused
  <2>5. DropsFound' /\ ListsASnapshot' /\ EndIsTheEnd'
    BY <2>1 DEF DirInv, DropsFound, ListsASnapshot, EndIsTheEnd
  <2> QED BY <2>2, <2>3, <2>4, <2>5
<1> QED BY <1>2 DEF DirInv

-----------------------------------------------------------------------------
(* What Step makes of a handle. *)
LEMMA StepFact ==
  ASSUME NEW d \in Dir
  PROVE  /\ Step(d) \in Dir /\ Step(d).entries = d.entries /\ Step(d).cursor = d.cursor + 1
         /\ [Step(d) EXCEPT !.scratch = TRUE] \in Dir
         /\ [Step(d) EXCEPT !.scratch = TRUE].entries = d.entries
         /\ [Step(d) EXCEPT !.scratch = TRUE].cursor = d.cursor + 1
<1>1. d.cursor \in Nat /\ d.entries \in Seq(Entries) /\ d.scratch \in BOOLEAN
  BY DEF Dir
<1>2. Step(d) = [entries |-> d.entries, cursor |-> d.cursor + 1, scratch |-> d.scratch]
  BY DEF Step, Dir
<1>3. d.cursor + 1 \in Nat
  BY <1>1
<1>4. Step(d) \in Dir
  BY <1>1, <1>2, <1>3 DEF Dir
<1>5. Step(d).entries = d.entries /\ Step(d).cursor = d.cursor + 1
  BY <1>2
<1>6. \A s \in Dir : /\ [s EXCEPT !.scratch = TRUE] \in Dir
                     /\ [s EXCEPT !.scratch = TRUE].entries = s.entries
                     /\ [s EXCEPT !.scratch = TRUE].cursor = s.cursor
  BY DEF Dir
<1> QED BY <1>4, <1>5, <1>6

(* One step of one handle: the list stays, and the entry under the cursor  *)
(* is given or lost.                                                       *)
LEMMA StepKeeps ==
  ASSUME DirInv, NEW h \in Open, More(dirs[h]), NEW d \in Dir,
         d.entries = dirs[h].entries, d.cursor = dirs[h].cursor + 1,
         dirs' = [dirs EXCEPT ![h] = d], Walks(h, dirs[h]),
         UNCHANGED <<present, next, found, dropped, ended>>
  PROVE  DirInv'
<1> DEFINE e == dirs[h]
<1>1. /\ Fine(e.entries, e.cursor, given[h], missed[h], Listed(h)) /\ e.cursor < Len(e.entries)
      /\ h \in Handles /\ given \in [Handles -> Seq(Entries)]
      /\ missed \in [Handles -> SUBSET Entries]
  BY DEF DirInv, Types, OpenFine, More
<1>2. CASE Gives(h, e) /\ UNCHANGED missed
  <2>1. Fine(d.entries, d.cursor, Append(given[h], Current(e)), missed[h], Listed(h))
    BY <1>1, GivenIsFine DEF Current
  <2>2. /\ given' = [given EXCEPT ![h] = Append(given[h], Current(e))]
        /\ missed' = [missed EXCEPT ![h] = missed[h]]
    BY <1>1, <1>2 DEF Gives
  <2> QED BY <2>1, <2>2, WalkKeeps
<1>3. CASE Misses(h, e) /\ UNCHANGED given
  <2>1. Fine(d.entries, d.cursor, given[h], missed[h] \cup {Current(e)}, Listed(h))
    <3>1. Fine(e.entries, e.cursor + 1, given[h], missed[h] \cup {e.entries[e.cursor + 1]}, Listed(h))
      BY <1>1, MissedIsFine
    <3> QED BY <3>1 DEF Current
  <2>2. /\ given' = [given EXCEPT ![h] = given[h]]
        /\ missed' = [missed EXCEPT ![h] = missed[h] \cup {Current(e)}]
    BY <1>1, <1>3 DEF Misses
  <2> QED BY <2>1, <2>2, WalkKeeps
<1> QED BY <1>2, <1>3 DEF Walks

LEMMA OpeningKeeps ==
  ASSUME DirInv, OpenDir \/ FindStart
  PROVE  DirInv'
<1>1. NextHandle \in Handles /\ next' = next + 1 /\ UNCHANGED <<present, ended>>
  BY DEF OpenDir, FindStart, NextHandle
<1>9. PICK listed \in Readable : \E list \in SetToSeqs(listed) :
        LET d == Opened(list)
        IN /\ Keeps(listed)
           /\ \/ dirs' = Inserted(d) /\ UNCHANGED <<given, missed>>
              \/ More(d) /\ dirs' = Inserted(Step(d)) /\ Walks(NextHandle, d)
  BY DEF OpenDir, FindStart
<1>2. PICK list \in SetToSeqs(listed) :
        LET d == Opened(list)
        IN /\ Keeps(listed)
           /\ \/ dirs' = Inserted(d) /\ UNCHANGED <<given, missed>>
              \/ More(d) /\ dirs' = Inserted(Step(d)) /\ Walks(NextHandle, d)
  BY <1>9
<1> DEFINE d == Opened(list)
           n == NextHandle
<1>3. Fine(list, 0, << >>, {}, listed)
  <2>1. listed \in SUBSET Entries
    BY DirAssumption DEF Readable
  <2> QED BY <2>1, FreshIsFine
<1>8. Keeps(listed)
  BY <1>2
<1>4. /\ d \in Dir /\ d.entries = list /\ d.cursor = 0
      /\ Step(d) \in Dir /\ Step(d).entries = list /\ Step(d).cursor = 0 + 1
  <2>1. list \in Seq(Entries)
    BY <1>3 DEF Fine
  <2>2. d \in Dir /\ d.entries = list /\ d.cursor = 0
    BY <2>1 DEF Opened, Dir
  <2> HIDE DEF d
  <2> QED BY <2>2, StepFact
<1>5. /\ given[n] = << >> /\ missed[n] = {}
      /\ given \in [Handles -> Seq(Entries)] /\ missed \in [Handles -> SUBSET Entries]
  <2>1. n >= next
    BY DirAssumption DEF DirInv, Types, NextHandle
  <2> QED BY <1>1, <2>1 DEF DirInv, Types, Unused
<1>6. CASE dirs' = Inserted(d) /\ UNCHANGED <<given, missed>>
  <2>1. /\ given' = [given EXCEPT ![n] = << >>] /\ missed' = [missed EXCEPT ![n] = {}]
    BY <1>1, <1>5, <1>6
  <2>2. Fine(d.entries, d.cursor, << >>, {}, listed)
    BY <1>3, <1>4
  <2> HIDE DEF d
  <2> QED BY <1>1, <1>4, <1>6, <1>8, <2>1, <2>2, InsertKeeps DEF n
<1>7. CASE More(d) /\ dirs' = Inserted(Step(d)) /\ Walks(n, d)
  <2>1. 0 < Len(list) /\ Current(d) = list[0 + 1]
    BY <1>4, <1>7 DEF More, Current
  <2>2. CASE Gives(n, d) /\ UNCHANGED missed
    <3>1. Fine(Step(d).entries, Step(d).cursor, Append(<< >>, Current(d)), {}, listed)
      BY <1>3, <1>4, <2>1, GivenIsFine
    <3>2. /\ given' = [given EXCEPT ![n] = Append(<< >>, Current(d))]
          /\ missed' = [missed EXCEPT ![n] = {}]
      BY <1>1, <1>5, <2>2 DEF Gives
    <3> HIDE DEF d
    <3> QED BY <1>1, <1>4, <1>7, <1>8, <3>1, <3>2, InsertKeeps DEF n
  <2>3. CASE Misses(n, d) /\ UNCHANGED given
    <3>1. Fine(Step(d).entries, Step(d).cursor, << >>, {} \cup {Current(d)}, listed)
      BY <1>3, <1>4, <2>1, MissedIsFine
    <3>2. /\ given' = [given EXCEPT ![n] = << >>]
          /\ missed' = [missed EXCEPT ![n] = {} \cup {Current(d)}]
      BY <1>1, <1>5, <2>3 DEF Misses
    <3> HIDE DEF d
    <3> QED BY <1>1, <1>4, <1>7, <1>8, <3>1, <3>2, InsertKeeps DEF n
  <2> QED BY <1>7, <2>2, <2>3 DEF Walks
<1> QED BY <1>2, <1>6, <1>7

LEMMA WalkingKeeps ==
  ASSUME DirInv, NEW h \in Open, FindGetNext(h) \/ ReadDir(h)
  PROVE  DirInv'
<1> DEFINE d == dirs[h]
           taken == [Step(d) EXCEPT !.scratch = TRUE]
<1>1. d \in Dir /\ UNCHANGED <<present, next, found, dropped>>
  BY DEF DirInv, Types, FindGetNext, ReadDir
<1>2. /\ Step(d) \in Dir /\ Step(d).entries = d.entries /\ Step(d).cursor = d.cursor + 1
      /\ taken \in Dir /\ taken.entries = d.entries /\ taken.cursor = d.cursor + 1
  BY <1>1, StepFact
<1>3. CASE ~More(d)
  BY <1>1, <1>3, EndKeeps DEF FindGetNext, ReadDir
<1>4. CASE More(d)
  <2>1. UNCHANGED ended /\ Walks(h, d)
        /\ \E e \in {Step(d), taken} : dirs' = [dirs EXCEPT ![h] = e]
    BY <1>4 DEF FindGetNext, ReadDir, Walks
  <2> HIDE DEF taken
  <2> QED BY <1>1, <1>2, <1>4, <2>1, StepKeeps
<1> QED BY <1>3, <1>4

LEMMA InitDirInv == Init => DirInv
<1> SUFFICES ASSUME Init PROVE DirInv
  OBVIOUS
<1>1. Open = {} /\ dirs \in [Open -> Dir]
  BY DEF Init, Open
<1>2. /\ IsInjective(<< >>) /\ ToSet(<< >>) = {} /\ << >> \in Seq(Entries)
  BY EmptySeq DEF IsInjective, ToSet
<1>3. Types
  BY <1>1, <1>2, DirAssumption DEF Init, Types, Handles
<1>4. OpenFine /\ DropsFound /\ Unused /\ EndIsTheEnd
  BY <1>1 DEF Init, OpenFine, DropsFound, Unused, EndIsTheEnd
<1>5. ListsASnapshot
  BY <1>2 DEF Init, ListsASnapshot
<1> QED BY <1>3, <1>4, <1>5 DEF DirInv

LEMMA NextDirInv == DirInv /\ [Next]_vars => DirInv'
<1> SUFFICES ASSUME DirInv, [Next]_vars PROVE DirInv'
  OBVIOUS
<1>1. CASE EntryChanges
  <2>1. present' \subseteq Entries /\ UNCHANGED <<dirs, next, given, missed, found, dropped, ended>>
    BY <1>1 DEF EntryChanges, history, DirInv, Types
  <2>2. Open' = Open
    BY <2>1 DEF Open
  <2>3. Types' /\ OpenFine' /\ DropsFound' /\ Unused'
    BY <2>1, <2>2 DEF DirInv, Types, OpenFine, Listed, DropsFound, Unused
  <2>4. ListsASnapshot' /\ EndIsTheEnd'
    BY <2>1 DEF DirInv, ListsASnapshot, EndIsTheEnd
  <2> QED BY <2>3, <2>4 DEF DirInv
<1>2. CASE OpenDir \/ FindStart
  BY <1>2, OpeningKeeps
<1>3. CASE \E h \in Open : FindGetNext(h) \/ ReadDir(h) \/ CloseDir(h)
  BY <1>3, WalkingKeeps, CloseKeeps
<1>4. CASE UNCHANGED vars
  <2>1. UNCHANGED <<present, dirs, next, given, missed, found, dropped, ended>> /\ Open' = Open
    BY <1>4 DEF vars, Open
  <2> QED BY <2>1 DEF DirInv, Types, OpenFine, Listed, DropsFound, Unused, ListsASnapshot, EndIsTheEnd
<1> QED BY <1>1, <1>2, <1>3, <1>4 DEF Next

-----------------------------------------------------------------------------
LEMMA DirsInductive == Spec => []DirInv
<1> QED BY InitDirInv, NextDirInv, PTL DEF Spec

(* The variables keep their types, and no cursor leaves its list.          *)
THEOREM DirTypes == Spec => []TypeOK
<1>1. DirInv => TypeOK
  <2> SUFFICES ASSUME DirInv PROVE TypeOK
    OBVIOUS
  <2>1. \A h \in Open : dirs[h].cursor <= Len(dirs[h].entries)
    BY DEF DirInv, OpenFine, Fine
  <2> QED BY <2>1 DEF DirInv, Types, TypeOK
<1> QED BY <1>1, DirsInductive, PTL

(* Whatever comes and goes on the disk, and however the calls of the two   *)
(* tables are mixed, a handle walks the entries that were listed when it   *)
(* was opened, each at most once (find_get_next and readdir).              *)
THEOREM WalksASnapshot == Spec => []ListsASnapshot
<1>1. DirInv => ListsASnapshot
  BY DEF DirInv
<1> QED BY <1>1, DirsInductive, PTL

(* The answer "no more" of find_get_next and readdir comes after every     *)
(* entry that the list did not leave out when the directory was opened and *)
(* that no fault and no lack of memory ate since; all that is not Unicode  *)
(* is left out.                                                            *)
THEOREM NoEntryPassedOver == Spec => []EndIsTheEnd
<1>1. DirInv => EndIsTheEnd
  BY DEF DirInv
<1> QED BY <1>1, DirsInductive, PTL
=============================================================================
