--------------------------- MODULE PintosFs_proofs ---------------------------
(***************************************************************************)
(* Wherever the power fails, the disk of the Pintos file system is sound,  *)
(* and an open file keeps its sectors: FsInv is inductive, for any number  *)
(* of sectors, slots, names, handles and lengths.                          *)
(*                                                                         *)
(* And the calls implement FsAbs: FsInv with FsDetail gives every step its *)
(* step of FsAbs, or none.                                                 *)
(*                                                                         *)
(* The same two show that sectors are lost only in failures.               *)
(***************************************************************************)
EXTENDS PintosFs, FiniteSetTheorems, TLAPS

\* None is the number of a sector that no file can have.
LEMMA NoneIsNoSector == None \notin Sectors /\ Sectors \subseteq Nat
  BY FsConstants DEF None, Sectors

\* What the record of a call under way contains.
LEMMA CallFields ==
  ASSUME op \in Calls
  PROVE  /\ op.at \in {"inode", "write", "zero"} => op.name \in Names
         /\ op # Idle => op.sector \in Sectors
         /\ op.at \in {"inode", "write"} => op.length \in Nat
         /\ op.at = "write" => op.start \in Nat
         /\ op.at = "zero" => /\ op.todo \in SUBSET Sectors
                              /\ op \in [at : {"zero"}, name : Names,
                                         sector : Sectors, todo : SUBSET Sectors]
         /\ op.at # "idle" => op # Idle
         /\ op = Idle => op.at = "idle"
  BY DEF Calls, Idle

\* Between calls nothing is held.
LEMMA IdleHoldsNothing == ASSUME op' = Idle PROVE Holds' = {} /\ HoldsApart'
  BY DEF Holds, HoldsApart, Idle

\* Files that are there no more leave the others apart.
LEMMA FewerFilesApart ==
  ASSUME FilesApart, Inodes' \subseteq Inodes,
         UNCHANGED <<disk_inode, free_map>>
  PROVE  FilesApart'
  BY DEF FilesApart, SectorsOf, DataOf, Run

\* An inode that is neither listed nor open is that of no file.
LEMMA InodesAre == \A s \in Sectors : s \in Inodes <=>
                       \/ \E i \in Slots : disk_dir[i].sector = s
                       \/ Openers(s) # {}
  BY NoneIsNoSector DEF Inodes, ListedInodes, OpenInodes, Openers, None

\* The set of handles of an inode is finite.
LEMMA OpenersFinite == \A s : /\ IsFiniteSet(Openers(s))
                              /\ Cardinality(Openers(s)) \in Nat
                              /\ Cardinality(Openers(s)) = 0 <=> Openers(s) = {}
<1> TAKE s
<1>1. Openers(s) \subseteq Handles
  BY DEF Openers
<1> QED
  BY <1>1, FsConstants, FS_Subset, FS_CardinalityType, FS_EmptySet

\* A step that opens, closes, lists and removes nothing.
LEMMA SameFiles ==
  ASSUME FsInv, UNCHANGED <<disk_dir, inodes, files>>,
         op.at # "remove", op'.at # "remove"
  PROVE  ListedOnce' /\ OpenersCounted' /\ RemovedUnlisted' /\ Inodes' = Inodes
<1>1. ListedOnce' /\ Inodes' = Inodes
  BY DEF FsInv, ListedOnce, Inodes, ListedInodes, OpenInodes
<1>2. \A s : Openers(s)' = Openers(s) /\ Busy("remove", s)' = Busy("remove", s)
  BY DEF Openers, Busy
<1>3. OpenersCounted'
  BY <1>2 DEF FsInv, OpenersCounted
<1>4. RemovedUnlisted'
  BY <1>2 DEF FsInv, RemovedUnlisted, ListedInodes
<1> QED
  BY <1>1, <1>3, <1>4

\* Such a step that leaves the sectors of every file alone.
LEMMA SameSectors ==
  ASSUME FilesApart, Inodes' = Inodes,
         \A s \in Inodes : SectorsOf(s)' = SectorsOf(s)
                            /\ SectorsOf(s) \subseteq free_map'
  PROVE  FilesApart'
  BY DEF FilesApart

\* filesys_create takes a free sector, which is that of no file.
LEMMA CreateKeeps ==
  ASSUME FsInv, NEW n \in Names, NEW len \in Lengths, Create(n, len)
  PROVE  FsInv'
<1>1. PICK s \in Sectors :
         /\ FirstFit(s, 1)
         /\ Allocate({s})
         /\ op' = [at |-> "inode", name |-> n, sector |-> s, length |-> len]
  BY DEF Create
<1>2. op = Idle /\ UNCHANGED <<disk_dir, disk_inode, disk_data, inodes, files>>
  BY DEF Create
<1>3. s \notin free_map
  <2>1. s \in Run(s, 1)
    BY NoneIsNoSector DEF Run
  <2> QED
    BY <1>1, <2>1 DEF FirstFit, IsFree
<1>4. TypeOK'
  BY <1>1, <1>2, FsConstants DEF FsInv, TypeOK, Allocate, Calls
<1>5. MapSaved'
  BY <1>1 DEF Allocate, MapSaved
<1>6. ListedOnce' /\ OpenersCounted' /\ RemovedUnlisted' /\ Inodes' = Inodes
  BY <1>1, <1>2, SameFiles DEF Idle
<1>7. \A t \in Inodes : SectorsOf(t)' = SectorsOf(t)
                        /\ SectorsOf(t) \subseteq free_map'
  BY <1>1, <1>2 DEF FsInv, FilesApart, SectorsOf, DataOf, Run, Allocate
<1>8. FilesApart'
  BY <1>6, <1>7, SameSectors DEF FsInv
<1>9. HoldsApart'
  <2>1. Holds' = {s}
    BY <1>1 DEF Holds
  <2> QED
    BY <1>1, <1>3, <1>6, <1>7, <2>1 DEF HoldsApart, FsInv, FilesApart, Allocate
<1> QED
  BY <1>4, <1>5, <1>6, <1>8, <1>9 DEF FsInv

\* inode_create takes free sectors for the data.
LEMMA CreateDataKeeps == ASSUME FsInv, CreateData PROVE FsInv'
<1>1. PICK start \in Sectors \cup {None} :
         /\ FirstFit(start, op.length)
         /\ Allocate(Run(start, op.length))
         /\ op' = [at |-> "write", name |-> op.name, sector |-> op.sector,
                   start |-> start, length |-> op.length]
  BY DEF CreateData
<1>2. /\ op.at = "inode"
      /\ UNCHANGED <<disk_dir, disk_inode, disk_data, inodes, files>>
  BY DEF CreateData
<1>3. op.name \in Names /\ op.sector \in Sectors /\ op.length \in Nat
  BY <1>2, CallFields DEF FsInv, TypeOK
<1>4. Run(start, op.length) \subseteq Sectors \ free_map
  <2>1. CASE op.length = 0
    BY <2>1, NoneIsNoSector DEF Run, None
  <2>2. CASE op.length # 0
    BY <1>1, <2>2 DEF FirstFit, IsFree
  <2> QED
    BY <2>1, <2>2
<1>5. TypeOK'
  BY <1>1, <1>2, <1>3, <1>4, NoneIsNoSector
  DEF FsInv, TypeOK, Allocate, Calls, None
<1>6. MapSaved'
  BY <1>1 DEF Allocate, MapSaved
<1>7. ListedOnce' /\ OpenersCounted' /\ RemovedUnlisted' /\ Inodes' = Inodes
  BY <1>1, <1>2, SameFiles
<1>8. \A t \in Inodes : SectorsOf(t)' = SectorsOf(t)
                        /\ SectorsOf(t) \subseteq free_map'
  BY <1>1, <1>2 DEF FsInv, FilesApart, SectorsOf, DataOf, Run, Allocate
<1>9. FilesApart'
  BY <1>7, <1>8, SameSectors DEF FsInv
<1>10. HoldsApart'
  <2>1. Holds = {op.sector} /\ Holds' = {op.sector} \cup Run(start, op.length)
    BY <1>1, <1>2 DEF Holds, Run
  <2>2. op.sector \in free_map
    BY <1>2, <2>1 DEF FsInv, HoldsApart
  <2>3. \A t \in Inodes : op.sector \notin SectorsOf(t)
                          /\ SectorsOf(t) \subseteq free_map
    BY <1>2, <2>1 DEF FsInv, HoldsApart, Busy, FilesApart
  <2> QED
    BY <1>1, <1>4, <1>7, <1>8, <2>1, <2>2, <2>3 DEF HoldsApart, Allocate
<1> QED
  BY <1>5, <1>6, <1>7, <1>9, <1>10 DEF FsInv

\* The disk is full: the inode's sector is still held.
LEMMA CreateNoRoomKeeps == ASSUME FsInv, CreateNoRoom PROVE FsInv'
<1>1. /\ op.at = "inode" /\ op' = [at |-> "undo", sector |-> op.sector]
      /\ UNCHANGED <<diskVars, memVars>>
  BY DEF CreateNoRoom
<1>2. op.sector \in Sectors
  BY <1>1, CallFields DEF FsInv, TypeOK
<1>3. TypeOK' /\ MapSaved'
  BY <1>1, <1>2 DEF FsInv, TypeOK, MapSaved, diskVars, memVars, Calls
<1>4. ListedOnce' /\ OpenersCounted' /\ RemovedUnlisted' /\ Inodes' = Inodes
  BY <1>1, SameFiles DEF diskVars, memVars
<1>5. FilesApart'
  BY <1>1, <1>4, FewerFilesApart DEF FsInv, diskVars, memVars
<1>6. HoldsApart'
  <2>1. Holds = {op.sector} /\ Holds' = {op.sector}
    BY <1>1 DEF Holds
  <2>2. \A t \in Inodes : SectorsOf(t)' = SectorsOf(t) /\ ~Busy("remove", t)
    BY <1>1 DEF SectorsOf, DataOf, Run, diskVars, Busy
  <2> QED
    BY <1>1, <1>4, <2>1, <2>2 DEF FsInv, HoldsApart, memVars
<1> QED
  BY <1>3, <1>4, <1>5, <1>6 DEF FsInv

\* inode_create writes an inode that is that of no file.
LEMMA CreateWriteKeeps == ASSUME FsInv, CreateWrite PROVE FsInv'
<1>1. /\ op.at = "write"
      /\ disk_inode' = [disk_inode EXCEPT ![op.sector] =
                           [start |-> op.start, length |-> op.length]]
      /\ op' = [at |-> "zero", name |-> op.name, sector |-> op.sector,
                todo |-> ToZero(op.start, op.length)]
      /\ UNCHANGED <<disk_map, disk_dir, disk_data, memVars>>
  BY DEF CreateWrite
<1>2. /\ op.name \in Names /\ op.sector \in Sectors
      /\ op.length \in Nat /\ op.start \in Nat
  BY <1>1, CallFields DEF FsInv, TypeOK
<1>3. Holds = {op.sector} \cup Run(op.start, op.length)
  BY <1>1 DEF Holds
<1>4. /\ Holds \subseteq free_map
      /\ \A t \in Inodes : Holds \cap SectorsOf(t) = {}
  BY <1>1 DEF FsInv, HoldsApart, Busy
<1>5. TypeOK' /\ MapSaved'
  BY <1>1, <1>2, <1>3, <1>4
  DEF FsInv, TypeOK, MapSaved, memVars, Calls, ToZero
<1>6. ListedOnce' /\ OpenersCounted' /\ RemovedUnlisted' /\ Inodes' = Inodes
  BY <1>1, SameFiles DEF memVars
<1>7. op.sector \notin Inodes
  BY <1>3, <1>4 DEF SectorsOf
<1>8. \A t \in Inodes : SectorsOf(t)' = SectorsOf(t)
  <2> SUFFICES ASSUME NEW t \in Inodes
               PROVE  disk_inode'[t] = disk_inode[t]
    BY DEF SectorsOf, DataOf, Run
  <2>1. t \in Sectors
    BY NoneIsNoSector
    DEF FsInv, TypeOK, Inodes, ListedInodes, OpenInodes, Entries, NoEntry, Closed
  <2> QED
    BY <1>1, <1>7, <2>1 DEF FsInv, TypeOK
<1>9. FilesApart'
  BY <1>1, <1>6, <1>8, SameSectors DEF FsInv, FilesApart, memVars
<1>10. HoldsApart'
  <2>1. Holds' = SectorsOf(op.sector)'
    BY <1>1 DEF Holds
  <2>2. SectorsOf(op.sector)' = Holds
    BY <1>1, <1>2, <1>3 DEF SectorsOf, DataOf, Run, FsInv, TypeOK
  <2> QED
    BY <1>1, <1>4, <1>6, <1>8, <2>1, <2>2 DEF HoldsApart, memVars
<1> QED
  BY <1>5, <1>6, <1>9, <1>10 DEF FsInv

\* Zeros are written to sectors that are not in any file yet.
LEMMA CreateZeroKeeps == ASSUME FsInv, CreateZero PROVE FsInv'
<1>1. PICK s \in op.todo : /\ disk_data' = [disk_data EXCEPT ![s] = Zero]
                           /\ op' = [op EXCEPT !.todo = @ \ {s}]
  BY DEF CreateZero
<1>2. op.at = "zero" /\ UNCHANGED <<disk_map, disk_dir, disk_inode, memVars>>
  BY DEF CreateZero
<1>3. op \in [at : {"zero"}, name : Names, sector : Sectors,
               todo : SUBSET Sectors]
  BY <1>2, CallFields DEF FsInv, TypeOK
<1>4. op' \in [at : {"zero"}, name : Names, sector : Sectors,
               todo : SUBSET Sectors]
      /\ op'.at = "zero" /\ op'.sector = op.sector
  BY <1>1, <1>3
<1>5. TypeOK' /\ MapSaved'
  BY <1>1, <1>2, <1>4, FsConstants
  DEF FsInv, TypeOK, MapSaved, memVars, Calls
<1>6. ListedOnce' /\ OpenersCounted' /\ RemovedUnlisted' /\ Inodes' = Inodes
  BY <1>2, <1>4, SameFiles DEF memVars
<1>7. FilesApart'
  BY <1>2, <1>6, FewerFilesApart DEF FsInv, memVars
<1>8. HoldsApart'
  <2>1. \A t : SectorsOf(t)' = SectorsOf(t) /\ ~Busy("remove", t)
    BY <1>2 DEF SectorsOf, DataOf, Run, Busy
  <2>2. Holds = SectorsOf(op.sector) /\ Holds' = SectorsOf(op.sector)
    BY <1>2, <1>4, <2>1 DEF Holds
  <2> QED
    BY <1>2, <1>6, <2>1, <2>2 DEF FsInv, HoldsApart, memVars
<1> QED
  BY <1>5, <1>6, <1>7, <1>8 DEF FsInv

\* What is in no file has no opener and is not marked as removed.
LEMMA StrangersClosed ==
  ASSUME FsInv, NEW s \in Sectors, s \notin Inodes, ~Busy("remove", s)
  PROVE  Openers(s) = {} /\ ~inodes[s].removed
<1>1. Openers(s) = {}
  BY InodesAre
<1>2. inodes[s].open_cnt = 0
  BY <1>1, OpenersFinite DEF FsInv, OpenersCounted
<1> QED
  BY <1>1, <1>2 DEF FsInv, OpenersCounted

\* dir_add lists the new inode under a name that was not listed.
LEMMA CreateAddKeeps == ASSUME FsInv, CreateAdd PROVE FsInv'
<1>1. PICK i \in Listed(None) :
         disk_dir' = [disk_dir EXCEPT ![i] = [name |-> op.name,
                                              sector |-> op.sector]]
  BY DEF CreateAdd
<1>2. /\ op.at = "zero" /\ Listed(op.name) = {} /\ op' = Idle
      /\ UNCHANGED <<disk_map, disk_inode, disk_data, memVars>>
  BY DEF CreateAdd
<1>3. op.name \in Names /\ op.sector \in Sectors
  BY <1>2, CallFields, FsConstants DEF FsInv, TypeOK, Idle
<1>4. Holds = SectorsOf(op.sector)
  BY <1>2 DEF Holds
<1>5. /\ SectorsOf(op.sector) \subseteq free_map
      /\ \A t \in Inodes : SectorsOf(op.sector) \cap SectorsOf(t) = {}
  BY <1>2, <1>4 DEF FsInv, HoldsApart, Busy
<1>6. op.sector \notin Inodes
  BY <1>5 DEF SectorsOf
<1>7. i \in Slots /\ disk_dir[i] = NoEntry
  BY <1>1, FsConstants DEF Listed, FsInv, TypeOK, Entries, NoEntry, None
<1>8. \A j \in Slots : disk_dir'[j] = IF j = i THEN [name |-> op.name,
                                                     sector |-> op.sector]
                                     ELSE disk_dir[j]
  BY <1>1, <1>7 DEF FsInv, TypeOK
<1>9. TypeOK' /\ MapSaved'
  BY <1>1, <1>2, <1>3 DEF FsInv, TypeOK, MapSaved, memVars, Entries, Calls
<1>10. ListedOnce'
  <2>1. \A j \in Slots : disk_dir[j].name # op.name /\ disk_dir[j].sector # op.sector
    BY <1>2, <1>3, <1>6, NoneIsNoSector DEF Listed, Inodes, ListedInodes
  <2>2. op.name # None /\ op.sector # None
    BY <1>3, FsConstants, NoneIsNoSector DEF None
  <2>3. \A j \in Slots : j # i /\ disk_dir[j] # NoEntry =>
            disk_dir[j].name # None /\ disk_dir[j].sector # None
    BY FsConstants, NoneIsNoSector DEF FsInv, TypeOK, Entries, NoEntry, None
  <2>4. NoEntry.name = None /\ NoEntry.sector = None
    BY DEF NoEntry
  <2> QED
    BY <1>8, <2>1, <2>2, <2>3, <2>4 DEF FsInv, ListedOnce
<1>11. Inodes' = Inodes \cup {op.sector}
  <2>1. ListedInodes' = ListedInodes \cup {op.sector}
    BY <1>3, <1>7, <1>8, NoneIsNoSector DEF ListedInodes, NoEntry
  <2>2. OpenInodes' = OpenInodes
    BY <1>2 DEF OpenInodes, memVars
  <2> QED
    BY <2>1, <2>2 DEF Inodes
<1>12. OpenersCounted'
  <2>1. \A s : /\ Openers(s)' = Openers(s)
               /\ ~Busy("remove", s) /\ ~Busy("remove", s)'
    BY <1>2 DEF Openers, memVars, Busy, Idle
  <2> QED
    BY <1>2, <2>1 DEF FsInv, OpenersCounted, memVars
<1>13. RemovedUnlisted'
  <2>1. ~inodes[op.sector].removed
    BY <1>2, <1>3, <1>6, StrangersClosed DEF Busy
  <2>2. ListedInodes' \subseteq ListedInodes \cup {op.sector}
    BY <1>7, <1>8 DEF ListedInodes
  <2>3. \A s : ~Busy("remove", s)'
    BY <1>2 DEF Busy, Idle
  <2> QED
    BY <1>2, <2>1, <2>2, <2>3 DEF FsInv, RemovedUnlisted, memVars
<1>14. FilesApart'
  <2>1. \A t : SectorsOf(t)' = SectorsOf(t)
    BY <1>2 DEF SectorsOf, DataOf, Run
  <2> QED
    BY <1>2, <1>5, <1>11, <2>1 DEF FsInv, FilesApart, memVars
<1>15. HoldsApart'
  BY <1>2, IdleHoldsNothing
<1> QED
  BY <1>9, <1>10, <1>12, <1>13, <1>14, <1>15 DEF FsInv

\* dir_add fails: of what the call held only the inode's sector is given back.
LEMMA CreateExistsKeeps == ASSUME FsInv, CreateExists PROVE FsInv'
<1>1. /\ op.at = "zero" /\ op' = [at |-> "undo", sector |-> op.sector]
      /\ UNCHANGED <<diskVars, memVars>>
  BY DEF CreateExists
<1>2. op.sector \in Sectors
  BY <1>1, CallFields DEF FsInv, TypeOK
<1>3. TypeOK' /\ MapSaved'
  BY <1>1, <1>2 DEF FsInv, TypeOK, MapSaved, diskVars, memVars, Calls
<1>4. ListedOnce' /\ OpenersCounted' /\ RemovedUnlisted' /\ Inodes' = Inodes
  BY <1>1, SameFiles DEF diskVars, memVars
<1>5. FilesApart'
  BY <1>1, <1>4, FewerFilesApart DEF FsInv, diskVars, memVars
<1>6. HoldsApart'
  <2>1. Holds = SectorsOf(op.sector) /\ Holds' = {op.sector}
    BY <1>1 DEF Holds
  <2>2. \A t : SectorsOf(t)' = SectorsOf(t) /\ ~Busy("remove", t)
    BY <1>1 DEF SectorsOf, DataOf, Run, diskVars, Busy
  <2>3. op.sector \in SectorsOf(op.sector)
    BY DEF SectorsOf
  <2> QED
    BY <1>1, <1>4, <2>1, <2>2, <2>3 DEF FsInv, HoldsApart, memVars
<1> QED
  BY <1>3, <1>4, <1>5, <1>6 DEF FsInv

\* The sector that filesys_create gives back is that of no file.
LEMMA CreateUndoKeeps == ASSUME FsInv, CreateUndo PROVE FsInv'
<1>1. /\ op.at = "undo" /\ Release({op.sector}) /\ op' = Idle
      /\ UNCHANGED <<disk_dir, disk_inode, disk_data, inodes, files>>
  BY DEF CreateUndo
<1>2. Holds = {op.sector}
  BY <1>1 DEF Holds
<1>3. \A t \in Inodes : op.sector \notin SectorsOf(t)
  BY <1>1, <1>2 DEF FsInv, HoldsApart, Busy
<1>4. TypeOK' /\ MapSaved'
  BY <1>1 DEF FsInv, TypeOK, MapSaved, Release, Calls
<1>5. ListedOnce' /\ OpenersCounted' /\ RemovedUnlisted' /\ Inodes' = Inodes
  BY <1>1, SameFiles DEF Idle
<1>6. FilesApart'
  <2>1. \A t : SectorsOf(t)' = SectorsOf(t)
    BY <1>1 DEF SectorsOf, DataOf, Run
  <2> QED
    BY <1>1, <1>3, <1>5, <2>1, SameSectors DEF FsInv, FilesApart, Release
<1>7. HoldsApart'
  BY <1>1, IdleHoldsNothing
<1> QED
  BY <1>4, <1>5, <1>6, <1>7 DEF FsInv

\* inode_open and inode_reopen count one more opener of a file that exists.
LEMMA OpeningKeeps ==
  ASSUME FsInv, NEW h \in Handles, NEW s \in Sectors, s \in Inodes,
         op = Idle, files[h] = Closed,
         inodes' = Opened(s),
         files' = [files EXCEPT ![h] = [inode |-> s, deny_write |-> FALSE]],
         UNCHANGED <<diskVars, free_map, op>>
  PROVE  FsInv'
<1>1. \A g \in Handles : files'[g].inode = IF g = h THEN s ELSE files[g].inode
  BY DEF FsInv, TypeOK
<1>2. files[h].inode = None /\ s # None
  BY NoneIsNoSector DEF Closed
<1>3. \A t \in Sectors : /\ t # s => inodes'[t] = inodes[t]
                         /\ inodes'[t].removed = inodes[t].removed
  BY DEF FsInv, TypeOK, Opened
<1>4. inodes'[s].open_cnt = inodes[s].open_cnt + 1
  BY DEF FsInv, TypeOK, Opened
<1>5. TypeOK'
  <2>1. inodes' \in [Sectors -> [open_cnt : Nat, removed : BOOLEAN,
                                 deny_write_cnt : Int]]
    <3>1. inodes \in [Sectors -> [open_cnt : Nat, removed : BOOLEAN,
                                   deny_write_cnt : Int]]
      BY DEF FsInv, TypeOK
    <3>2. inodes[s].open_cnt + 1 \in Nat
      BY <3>1
    <3> QED BY ONLY <3>1, <3>2, inodes' = Opened(s) DEF Opened
  <2>2. files' \in [Handles -> [inode : Sectors, deny_write : BOOLEAN]
                                \cup {Closed}]
    BY DEF FsInv, TypeOK
  <2> QED
    BY <2>1, <2>2 DEF FsInv, TypeOK, diskVars
<1>6. MapSaved' /\ ListedOnce'
  BY DEF FsInv, MapSaved, ListedOnce, diskVars
<1>7. ListedInodes' = ListedInodes
  BY DEF ListedInodes, diskVars
<1>8. OpenersCounted'
  <2>1. \A t \in Sectors : t # s => Openers(t)' = Openers(t)
    BY <1>1, <1>2, NoneIsNoSector DEF Openers
  <2>2. Openers(s)' = Openers(s) \cup {h} /\ h \notin Openers(s)
    BY <1>1, <1>2 DEF Openers
  <2>3. Cardinality(Openers(s)') = Cardinality(Openers(s)) + 1
    BY <2>2, OpenersFinite, FS_AddElement
  <2>4. \A t : ~Busy("remove", t) /\ ~Busy("remove", t)'
    BY DEF Busy, Idle
  <2>5. Cardinality(Openers(s)) \in Nat
    BY OpenersFinite
  <2> QED
    BY <1>3, <1>4, <2>1, <2>3, <2>4, <2>5 DEF FsInv, OpenersCounted
<1>9. RemovedUnlisted'
  BY <1>3, <1>7 DEF FsInv, RemovedUnlisted, Busy
<1>10. Inodes' \subseteq Inodes
  <2>1. OpenInodes' \subseteq OpenInodes \cup {s}
    BY <1>1 DEF OpenInodes
  <2> QED
    BY <1>7, <2>1 DEF Inodes
<1>11. FilesApart'
  BY <1>10, FewerFilesApart DEF FsInv, diskVars
<1>12. HoldsApart'
  BY IdleHoldsNothing
<1> QED
  BY <1>5, <1>6, <1>8, <1>9, <1>11, <1>12 DEF FsInv

\* filesys_open opens an inode that is listed.
LEMMA OpenKeeps ==
  ASSUME FsInv, NEW h \in Handles, NEW n \in Names, Open(h, n)
  PROVE  FsInv'
<1>1. PICK i \in Listed(n) :
         /\ inodes' = Opened(disk_dir[i].sector)
         /\ files' = [files EXCEPT ![h] = [inode |-> disk_dir[i].sector,
                                           deny_write |-> FALSE]]
  BY DEF Open
<1>2. op = Idle /\ files[h] = Closed /\ UNCHANGED <<diskVars, free_map, op>>
  BY DEF Open
<1>3. disk_dir[i].sector \in Sectors /\ disk_dir[i].sector \in Inodes
  BY FsConstants, NoneIsNoSector
  DEF Listed, FsInv, TypeOK, Entries, NoEntry, None, Inodes, ListedInodes
<1> QED
  BY <1>1, <1>2, <1>3, OpeningKeeps

\* file_reopen opens an inode that is open.
LEMMA ReopenKeeps ==
  ASSUME FsInv, NEW h \in Handles, NEW g \in Handles, Reopen(h, g)
  PROVE  FsInv'
<1>1. /\ op = Idle /\ files[h] = Closed /\ files[g] # Closed
      /\ inodes' = Opened(files[g].inode)
      /\ files' = [files EXCEPT ![h] = [inode |-> files[g].inode,
                                        deny_write |-> FALSE]]
      /\ UNCHANGED <<diskVars, free_map, op>>
  BY DEF Reopen
<1>2. files[g].inode \in Sectors /\ files[g].inode \in Inodes
  <2>1. files[g].inode \in Sectors
    BY <1>1 DEF FsInv, TypeOK
  <2> QED
    BY <2>1, NoneIsNoSector DEF Inodes, OpenInodes
<1> QED
  BY <1>1, <1>2, OpeningKeeps

\* inode_close forgets the inode with its last opener, and goes on to free it
\* when its file was removed.  The close is that of a handle, or dir_remove's:
\* either way the openers that are left are counted.
LEMMA ClosingKeeps ==
  ASSUME FsInv, NEW s \in Sectors, s \in Inodes \/ Busy("remove", s),
         NEW i \in [open_cnt : Nat, removed : BOOLEAN, deny_write_cnt : Int],
         i.open_cnt = inodes[s].open_cnt, i.open_cnt # 0,
         i.removed <=> inodes[s].removed \/ Busy("remove", s),
         \A t \in Sectors : t # s => ~Busy("remove", t),
         op.at \in {"idle", "remove"},
         CloseInode(s, i),
         files' \in [Handles -> [inode : Sectors, deny_write : BOOLEAN]
                                \cup {Closed}],
         \A t \in Sectors \ {s} : Openers(t)' = Openers(t),
         Openers(s)' \subseteq Openers(s),
         Cardinality(Openers(s)') = inodes[s].open_cnt - 1,
         UNCHANGED <<diskVars, free_map>>
  PROVE  FsInv'
<1>1. /\ inodes' = [inodes EXCEPT ![s] = IF LastOpener(s) THEN NotOpen
                                       ELSE [i EXCEPT !.open_cnt = @ - 1]]
      /\ op' = IF LastOpener(s) /\ i.removed
               THEN [at |-> "free", sector |-> s] ELSE Idle
  BY DEF CloseInode
<1>2. \A t \in Sectors : t # s => inodes'[t] = inodes[t]
  BY <1>1 DEF FsInv, TypeOK
<1>3. /\ LastOpener(s) => inodes'[s] = NotOpen
      /\ ~LastOpener(s) => inodes'[s] = [i EXCEPT !.open_cnt = @ - 1]
  BY <1>1 DEF FsInv, TypeOK
<1>4. inodes[s].open_cnt \in Nat \ {0}
  BY DEF FsInv, TypeOK
<1>5. inodes'[s].open_cnt = inodes[s].open_cnt - 1
  BY <1>3, <1>4 DEF LastOpener, NotOpen
<1>6. TypeOK'
  <2>1. inodes' \in [Sectors -> [open_cnt : Nat, removed : BOOLEAN,
                                 deny_write_cnt : Int]]
    <3>1. inodes'[s] \in [open_cnt : Nat, removed : BOOLEAN,
                          deny_write_cnt : Int]
      <4>1. CASE LastOpener(s)
        <5>1. NotOpen \in [open_cnt : Nat, removed : BOOLEAN,
                           deny_write_cnt : Int]
          BY DEF NotOpen
        <5> QED
          BY <1>3, <4>1, <5>1
      <4>2. CASE ~LastOpener(s)
        <5>1. i.open_cnt - 1 \in Nat
          BY <1>4
        <5>2. [i EXCEPT !.open_cnt = @ - 1]
                \in [open_cnt : Nat, removed : BOOLEAN, deny_write_cnt : Int]
          BY <5>1
        <5> QED
          BY <1>3, <4>2, <5>2
      <4> QED
        BY <4>1, <4>2
    <3>2. inodes' = [t \in Sectors |-> inodes'[t]]
      BY <1>1 DEF FsInv, TypeOK
    <3> QED
      BY <1>2, <3>1, <3>2 DEF FsInv, TypeOK
  <2>2. op' \in Calls
    BY <1>1 DEF Calls
  <2> QED
    BY <2>1, <2>2 DEF FsInv, TypeOK, diskVars
<1>7. MapSaved' /\ ListedOnce'
  BY DEF FsInv, MapSaved, ListedOnce, diskVars
<1>8. ListedInodes' = ListedInodes
  BY DEF ListedInodes, diskVars
<1>9. \A t : ~Busy("remove", t)'
  BY <1>1 DEF Busy, Idle
<1>10. OpenersCounted'
  <2>1. \A t \in Sectors : t # s =>
          /\ inodes[t].open_cnt = Cardinality(Openers(t)) + 0
          /\ inodes[t].open_cnt = 0 => ~inodes[t].removed
    BY DEF FsInv, OpenersCounted
  <2>2. inodes'[s].open_cnt = 0 => ~inodes'[s].removed
    BY <1>3, <1>5 DEF LastOpener, NotOpen
  <2>3. inodes'[s].open_cnt = Cardinality(Openers(s)') + 0
    BY <1>4, <1>5
  <2> QED
    BY <1>2, <1>9, <2>1, <2>2, <2>3 DEF OpenersCounted
<1>11. i.removed => s \notin ListedInodes
  BY DEF FsInv, RemovedUnlisted
<1>12. RemovedUnlisted'
  <2>1. inodes'[s].removed => i.removed
    BY <1>3 DEF NotOpen
  <2> QED
    BY <1>2, <1>8, <1>9, <1>11, <2>1 DEF FsInv, RemovedUnlisted
<1>13. Inodes' \subseteq Inodes
  <2>1. \A t \in OpenInodes' : t \in Sectors /\ Openers(t)' # {}
    BY DEF OpenInodes, Openers, Closed, None
  <2>2. \A t \in OpenInodes' : Openers(t) # {}
    BY <2>1
  <2> QED
    BY <1>8, <2>1, <2>2, InodesAre DEF Inodes
<1>14. FilesApart'
  BY <1>13, FewerFilesApart DEF FsInv, diskVars
<1>15. \A t : SectorsOf(t)' = SectorsOf(t)
  BY DEF SectorsOf, DataOf, Run, diskVars
<1>16. HoldsApart'
  <2>1. CASE LastOpener(s) /\ i.removed
    <3>1. Holds' = SectorsOf(s) /\ op'.at = "free"
      BY <1>1, <1>15, <2>1 DEF Holds
    <3>2. s \notin Inodes'
      <4>1. Openers(s)' = {}
        <5>1. Cardinality(Openers(s)') = 0 /\ IsFiniteSet(Openers(s)')
          BY <2>1, OpenersFinite, FS_Subset DEF LastOpener
        <5> QED
          BY <5>1, FS_EmptySet
      <4>2. s \notin OpenInodes'
        BY <4>1 DEF OpenInodes, Openers
      <4> QED
        BY <1>8, <1>11, <2>1, <4>2 DEF Inodes
    <3>3. SectorsOf(s) \subseteq free_map
      <4>1. CASE s \in Inodes
        BY <4>1 DEF FsInv, FilesApart
      <4>2. CASE Busy("remove", s)
        BY <4>2 DEF FsInv, HoldsApart, Holds, Busy
      <4> QED
        BY <4>1, <4>2
    <3>4. \A t \in Inodes \ {s} : SectorsOf(s) \cap SectorsOf(t) = {}
      <4>1. CASE s \in Inodes
        BY <4>1 DEF FsInv, FilesApart
      <4>2. CASE Busy("remove", s)
        <5>1. Holds = SectorsOf(s)
          BY <4>2 DEF Holds, Busy
        <5>2. \A t \in Inodes \ {s} : ~Busy("remove", t)
          BY <4>2 DEF Busy
        <5> QED
          BY <5>1, <5>2 DEF FsInv, HoldsApart
      <4> QED
        BY <4>1, <4>2
    <3> QED
      BY <1>13, <1>15, <3>1, <3>2, <3>3, <3>4 DEF HoldsApart
  <2>2. CASE ~(LastOpener(s) /\ i.removed)
    BY <1>1, <2>2, IdleHoldsNothing
  <2> QED
    BY <2>1, <2>2
<1> QED
  BY <1>6, <1>7, <1>10, <1>12, <1>14, <1>16 DEF FsInv

\* file_close: the handle is one of the openers.
LEMMA CloseKeeps == ASSUME FsInv, NEW h \in Handles, Close(h) PROVE FsInv'
<1>0. PICK s, i : /\ s = files[h].inode
                  /\ i = IF files[h].deny_write
                         THEN [inodes[s] EXCEPT !.deny_write_cnt = @ - 1]
                         ELSE inodes[s]
  OBVIOUS
<1>1. /\ op = Idle /\ files[h] # Closed /\ CloseInode(s, i)
      /\ files' = [files EXCEPT ![h] = Closed]
      /\ UNCHANGED <<diskVars, free_map>>
  BY <1>0 DEF Close
<1>2. s \in Sectors
  BY <1>0, <1>1 DEF FsInv, TypeOK
<1>3. h \in Openers(s) /\ s \in Inodes
  BY <1>0, <1>2, InodesAre DEF Openers
<1>4. \A t : ~Busy("remove", t)
  BY <1>1 DEF Busy, Idle
<1>5. \A g \in Handles : files'[g].inode = IF g = h THEN None ELSE files[g].inode
  BY <1>1 DEF FsInv, TypeOK, Closed
<1>6. \A t \in Sectors \ {s} : Openers(t)' = Openers(t)
  BY <1>0, <1>5, NoneIsNoSector DEF Openers
<1>7. Openers(s)' = Openers(s) \ {h}
  BY <1>0, <1>2, <1>5, NoneIsNoSector DEF Openers
<1>8. Cardinality(Openers(s)') = Cardinality(Openers(s)) - 1
  BY <1>3, <1>7, OpenersFinite, FS_RemoveElement
<1>9. inodes[s].open_cnt = Cardinality(Openers(s)) + 0
  BY <1>2, <1>4 DEF FsInv, OpenersCounted
<1>10. Cardinality(Openers(s)) \in Nat \ {0}
  BY <1>3, OpenersFinite
<1>11. /\ i \in [open_cnt : Nat, removed : BOOLEAN, deny_write_cnt : Int]
       /\ i.open_cnt = inodes[s].open_cnt /\ i.removed = inodes[s].removed
  BY <1>0, <1>2 DEF FsInv, TypeOK
<1>12. files' \in [Handles -> [inode : Sectors, deny_write : BOOLEAN]
                              \cup {Closed}]
  BY <1>1 DEF FsInv, TypeOK
<1>13. op.at = "idle"
  BY <1>1 DEF Idle
<1>14. Cardinality(Openers(s)') = inodes[s].open_cnt - 1 /\ i.open_cnt # 0
  BY <1>8, <1>9, <1>10, <1>11
<1> QED
  BY <1>1, <1>2, <1>3, <1>4, <1>6, <1>7, <1>11, <1>12, <1>13, <1>14, ClosingKeeps

\* dir_remove marks the inode that it has open, and closes it.
LEMMA RemoveInodeKeeps == ASSUME FsInv, RemoveInode PROVE FsInv'
<1>0. PICK s, i : s = op.sector /\ i = [inodes[s] EXCEPT !.removed = TRUE]
  OBVIOUS
<1>1. op.at = "remove" /\ CloseInode(s, i)
      /\ UNCHANGED <<diskVars, free_map, files>>
  BY <1>0 DEF RemoveInode
<1>2. s \in Sectors /\ Busy("remove", s)
  BY <1>0, <1>1, CallFields DEF FsInv, TypeOK, Busy
<1>3. \A t : t # s => ~Busy("remove", t)
  BY <1>0 DEF Busy
<1>4. \A t : Openers(t)' = Openers(t)
  BY <1>1 DEF Openers
<1>5. inodes[s].open_cnt = Cardinality(Openers(s)) + 1
  BY <1>2 DEF FsInv, OpenersCounted
<1>6. Cardinality(Openers(s)) \in Nat
  BY OpenersFinite
<1>7. /\ i \in [open_cnt : Nat, removed : BOOLEAN, deny_write_cnt : Int]
      /\ i.open_cnt = inodes[s].open_cnt /\ i.removed = TRUE
  BY <1>0, <1>2 DEF FsInv, TypeOK
<1>8. files' \in [Handles -> [inode : Sectors, deny_write : BOOLEAN]
                             \cup {Closed}]
  BY <1>1 DEF FsInv, TypeOK
<1>9. Cardinality(Openers(s)') = inodes[s].open_cnt - 1 /\ i.open_cnt # 0
  BY <1>4, <1>5, <1>6, <1>7
<1> QED
  BY <1>1, <1>2, <1>3, <1>4, <1>7, <1>8, <1>9, ClosingKeeps

\* inode_close gives back the inode's sector, ...
LEMMA FreeInodeKeeps == ASSUME FsInv, FreeInode PROVE FsInv'
<1>1. /\ op.at = "free" /\ Release({op.sector})
      /\ op' = [at |-> "free_data", sector |-> op.sector]
      /\ UNCHANGED <<disk_dir, disk_inode, disk_data, inodes, files>>
  BY DEF FreeInode
<1>2. op.sector \in Sectors
  BY <1>1, CallFields DEF FsInv, TypeOK
<1>3. Holds = SectorsOf(op.sector)
  BY <1>1 DEF Holds
<1>4. \A t \in Inodes : SectorsOf(op.sector) \cap SectorsOf(t) = {}
  BY <1>1, <1>3 DEF FsInv, HoldsApart, Busy
<1>5. TypeOK' /\ MapSaved'
  BY <1>1, <1>2 DEF FsInv, TypeOK, MapSaved, Release, Calls
<1>6. ListedOnce' /\ OpenersCounted' /\ RemovedUnlisted' /\ Inodes' = Inodes
  BY <1>1, SameFiles
<1>7. \A t : SectorsOf(t)' = SectorsOf(t)
  BY <1>1 DEF SectorsOf, DataOf, Run
<1>8. FilesApart'
  <2>1. \A t \in Inodes : op.sector \notin SectorsOf(t)
    BY <1>4 DEF SectorsOf
  <2> QED
    BY <1>1, <1>6, <1>7, <2>1, SameSectors DEF FsInv, FilesApart, Release
<1>9. HoldsApart'
  <2>1. op'.at = "free_data" /\ Holds' \subseteq SectorsOf(op.sector)
    BY <1>1 DEF Holds, SectorsOf, DataOf, Run
  <2> QED
    BY <1>4, <1>6, <1>7, <2>1 DEF HoldsApart
<1> QED
  BY <1>5, <1>6, <1>8, <1>9 DEF FsInv

\* ... and then the sectors of the data: none is in a file that is left.
LEMMA FreeDataKeeps == ASSUME FsInv, FreeData PROVE FsInv'
<1>1. /\ op.at = "free_data" /\ Release(FreedData(op.sector)) /\ op' = Idle
      /\ UNCHANGED <<disk_dir, disk_inode, disk_data, inodes, files>>
  BY DEF FreeData
<1>2. Holds = FreedData(op.sector)
  BY <1>1 DEF Holds, FreedData
<1>3. \A t \in Inodes : FreedData(op.sector) \cap SectorsOf(t) = {}
  BY <1>1, <1>2 DEF FsInv, HoldsApart, Busy
<1>4. TypeOK' /\ MapSaved'
  BY <1>1 DEF FsInv, TypeOK, MapSaved, Release, Calls
<1>5. ListedOnce' /\ OpenersCounted' /\ RemovedUnlisted' /\ Inodes' = Inodes
  BY <1>1, SameFiles DEF Idle
<1>6. FilesApart'
  <2>1. \A t : SectorsOf(t)' = SectorsOf(t)
    BY <1>1 DEF SectorsOf, DataOf, Run
  <2> QED
    BY <1>1, <1>3, <1>5, <2>1, SameSectors DEF FsInv, FilesApart, Release
<1>7. HoldsApart'
  BY <1>1, IdleHoldsNothing
<1> QED
  BY <1>4, <1>5, <1>6, <1>7 DEF FsInv

\* dir_remove opens the inode of the entry that it erases: the file is listed
\* no more, and the call holds its sectors.
LEMMA RemoveKeeps == ASSUME FsInv, NEW n \in Names, Remove(n) PROVE FsInv'
<1>1. PICK i \in Listed(n) :
         /\ inodes' = Opened(disk_dir[i].sector)
         /\ disk_dir' = [disk_dir EXCEPT ![i] = NoEntry]
         /\ op' = [at |-> "remove", sector |-> disk_dir[i].sector]
  BY DEF Remove
<1>2. /\ op = Idle
      /\ UNCHANGED <<disk_map, disk_inode, disk_data, free_map, files>>
  BY DEF Remove
<1>3. PICK s : s = disk_dir[i].sector
  OBVIOUS
<1>4. i \in Slots /\ disk_dir[i] # NoEntry /\ s \in Sectors /\ s \in ListedInodes
  BY <1>3, FsConstants, NoneIsNoSector
  DEF Listed, FsInv, TypeOK, Entries, NoEntry, None, ListedInodes
<1>5. \A j \in Slots : disk_dir'[j] = IF j = i THEN NoEntry ELSE disk_dir[j]
  BY <1>1, <1>4 DEF FsInv, TypeOK
<1>6. \A t \in Sectors : /\ t # s => inodes'[t] = inodes[t]
                         /\ inodes'[t].removed = inodes[t].removed
  BY <1>1, <1>3 DEF FsInv, TypeOK, Opened
<1>7. inodes'[s].open_cnt = inodes[s].open_cnt + 1
  BY <1>1, <1>3, <1>4 DEF FsInv, TypeOK, Opened
<1>8. TypeOK'
  <2>1. inodes' \in [Sectors -> [open_cnt : Nat, removed : BOOLEAN,
                                 deny_write_cnt : Int]]
    <3>1. inodes \in [Sectors -> [open_cnt : Nat, removed : BOOLEAN,
                                   deny_write_cnt : Int]]
      BY DEF FsInv, TypeOK
    <3>2. inodes[s].open_cnt + 1 \in Nat
      BY <1>4, <3>1
    <3>3. inodes' = Opened(s)
      BY <1>1, <1>3
    <3> QED BY ONLY <3>1, <3>2, <3>3 DEF Opened
  <2>2. disk_dir' \in [Slots -> Entries]
    BY <1>1 DEF FsInv, TypeOK, Entries
  <2>3. op' \in Calls
    BY <1>1, <1>3, <1>4 DEF Calls
  <2> QED
    BY <1>2, <2>1, <2>2, <2>3 DEF FsInv, TypeOK
<1>9. MapSaved'
  BY <1>2 DEF FsInv, MapSaved
<1>10. ListedOnce'
  <2>1. \A j, k \in Slots : j # k /\ disk_dir[j] # NoEntry =>
            /\ disk_dir[j].name # disk_dir[k].name
            /\ disk_dir[j].sector # disk_dir[k].sector
    BY DEF FsInv, ListedOnce
  <2>2. NoEntry.name = None /\ NoEntry.sector = None
    BY DEF NoEntry
  <2>3. \A j \in Slots : disk_dir[j] # NoEntry =>
            disk_dir[j].name # None /\ disk_dir[j].sector # None
    BY FsConstants, NoneIsNoSector DEF FsInv, TypeOK, Entries, NoEntry, None
  <2> QED
    BY <1>5, <2>1, <2>2, <2>3 DEF ListedOnce
<1>11. ListedInodes' \subseteq ListedInodes \ {s}
  <2> SUFFICES ASSUME NEW j \in Slots, disk_dir'[j].sector # None
               PROVE  disk_dir'[j].sector \in ListedInodes \ {s}
    BY DEF ListedInodes
  <2>1. j # i /\ disk_dir'[j] = disk_dir[j]
    BY <1>5 DEF NoEntry
  <2> QED
    BY <1>3, <1>4, <2>1 DEF FsInv, ListedOnce, ListedInodes
<1>12. OpenInodes' = OpenInodes
  BY <1>2 DEF OpenInodes
<1>13. \A t : /\ ~Busy("remove", t)
              /\ Busy("remove", t)' <=> t = s
              /\ Openers(t)' = Openers(t)
  BY <1>1, <1>2, <1>3 DEF Busy, Idle, Openers
<1>14. OpenersCounted'
  <2>1. \A t \in Sectors :
          /\ inodes[t].open_cnt = Cardinality(Openers(t)) + 0
          /\ inodes[t].open_cnt = 0 => ~inodes[t].removed
    BY <1>13 DEF FsInv, OpenersCounted
  <2>2. Cardinality(Openers(s)) \in Nat
    BY OpenersFinite
  <2>3. inodes'[s].open_cnt = Cardinality(Openers(s)) + 1
        /\ inodes'[s].open_cnt # 0
    BY <1>4, <1>7, <2>1, <2>2
  <2> QED
    BY <1>4, <1>6, <1>13, <2>1, <2>3 DEF OpenersCounted
<1>15. RemovedUnlisted'
  BY <1>6, <1>11, <1>13 DEF FsInv, RemovedUnlisted
<1>16. Inodes' \subseteq Inodes /\ s \in Inodes
  BY <1>4, <1>11, <1>12 DEF Inodes
<1>17. FilesApart'
  BY <1>2, <1>16, FewerFilesApart DEF FsInv
<1>18. HoldsApart'
  <2>1. \A t : SectorsOf(t)' = SectorsOf(t)
    BY <1>2 DEF SectorsOf, DataOf, Run
  <2>2. Holds' = SectorsOf(s)
    BY <1>1, <1>3, <2>1 DEF Holds
  <2>3. op'.at = "remove" /\ op'.sector = s
    BY <1>1, <1>3
  <2> QED
    BY <1>2, <1>16, <2>1, <2>2, <2>3 DEF HoldsApart, FsInv, FilesApart, Busy
<1> QED
  BY <1>8, <1>9, <1>10, <1>14, <1>15, <1>17, <1>18 DEF FsInv

\* A step that opens, closes, lists, allocates and frees nothing.
LEMMA QuietKeeps ==
  ASSUME FsInv, op = Idle, TypeOK',
         \A t \in Sectors : /\ inodes'[t].open_cnt = inodes[t].open_cnt
                            /\ inodes'[t].removed = inodes[t].removed,
         \A h \in Handles : files'[h].inode = files[h].inode,
         UNCHANGED <<disk_map, disk_dir, disk_inode, free_map, op>>
  PROVE  FsInv'
<1>1. MapSaved' /\ ListedOnce'
  BY DEF FsInv, MapSaved, ListedOnce
<1>2. \A t : /\ Openers(t)' = Openers(t)
             /\ ~Busy("remove", t) /\ ~Busy("remove", t)'
  BY DEF Openers, Busy, Idle
<1>3. OpenersCounted'
  BY <1>2 DEF FsInv, OpenersCounted
<1>4. ListedInodes' = ListedInodes /\ OpenInodes' = OpenInodes
  BY DEF ListedInodes, OpenInodes
<1>5. RemovedUnlisted'
  BY <1>2, <1>4 DEF FsInv, RemovedUnlisted
<1>6. Inodes' \subseteq Inodes
  BY <1>4 DEF Inodes
<1>7. FilesApart' /\ HoldsApart'
  BY <1>6, FewerFilesApart, IdleHoldsNothing DEF FsInv
<1> QED
  BY <1>1, <1>3, <1>5, <1>7 DEF FsInv

\* file_write changes what a sector contains, and nothing else.
LEMMA WriteKeeps == ASSUME FsInv, NEW h \in Handles, Write(h) PROVE FsInv'
<1>1. /\ op = Idle
      /\ \E s \in DataOf(disk_inode[files[h].inode]), v \in Values :
            disk_data' = [disk_data EXCEPT ![s] = v]
      /\ UNCHANGED <<disk_map, disk_dir, disk_inode, memVars, op>>
  BY DEF Write
<1>2. TypeOK'
  BY <1>1 DEF FsInv, TypeOK, memVars
<1> QED
  BY <1>1, <1>2, QuietKeeps DEF memVars

\* file_deny_write and file_allow_write count neither openers nor sectors.
LEMMA DenyWriteKeeps ==
  ASSUME FsInv, NEW h \in Handles, DenyWrite(h) PROVE FsInv'
<1>1. /\ op = Idle /\ files[h] # Closed
      /\ files' = [files EXCEPT ![h].deny_write = TRUE]
      /\ inodes' = [inodes EXCEPT ![files[h].inode].deny_write_cnt = @ + 1]
      /\ UNCHANGED <<diskVars, free_map, op>>
  BY DEF DenyWrite
<1>2. files[h] \in [inode : Sectors, deny_write : BOOLEAN]
  BY <1>1 DEF FsInv, TypeOK
<1>3. TypeOK'
  <2>1. inodes' \in [Sectors -> [open_cnt : Nat, removed : BOOLEAN,
                                 deny_write_cnt : Int]]
    BY <1>1, <1>2 DEF FsInv, TypeOK
  <2>2. files' \in [Handles -> [inode : Sectors, deny_write : BOOLEAN]
                                \cup {Closed}]
    BY <1>1, <1>2 DEF FsInv, TypeOK
  <2> QED
    BY <1>1, <2>1, <2>2 DEF FsInv, TypeOK, diskVars
<1>4. \A t \in Sectors : /\ inodes'[t].open_cnt = inodes[t].open_cnt
                         /\ inodes'[t].removed = inodes[t].removed
  BY <1>1 DEF FsInv, TypeOK
<1>5. \A g \in Handles : files'[g].inode = files[g].inode
  BY <1>1 DEF FsInv, TypeOK
<1> QED
  BY <1>1, <1>3, <1>4, <1>5, QuietKeeps DEF diskVars

\* The same for file_allow_write.
LEMMA AllowWriteKeeps ==
  ASSUME FsInv, NEW h \in Handles, AllowWrite(h) PROVE FsInv'
<1>1. /\ op = Idle /\ files[h].deny_write
      /\ files' = [files EXCEPT ![h].deny_write = FALSE]
      /\ inodes' = [inodes EXCEPT ![files[h].inode].deny_write_cnt = @ - 1]
      /\ UNCHANGED <<diskVars, free_map, op>>
  BY DEF AllowWrite
<1>2. files[h] \in [inode : Sectors, deny_write : BOOLEAN]
  BY <1>1 DEF FsInv, TypeOK, Closed
<1>3. TypeOK'
  <2>1. inodes' \in [Sectors -> [open_cnt : Nat, removed : BOOLEAN,
                                 deny_write_cnt : Int]]
    BY <1>1, <1>2 DEF FsInv, TypeOK
  <2>2. files' \in [Handles -> [inode : Sectors, deny_write : BOOLEAN]
                                \cup {Closed}]
    BY <1>1, <1>2 DEF FsInv, TypeOK
  <2> QED
    BY <1>1, <2>1, <2>2 DEF FsInv, TypeOK, diskVars
<1>4. \A t \in Sectors : /\ inodes'[t].open_cnt = inodes[t].open_cnt
                         /\ inodes'[t].removed = inodes[t].removed
  BY <1>1 DEF FsInv, TypeOK
<1>5. \A g \in Handles : files'[g].inode = files[g].inode
  BY <1>1 DEF FsInv, TypeOK
<1> QED
  BY <1>1, <1>3, <1>4, <1>5, QuietKeeps DEF diskVars

\* The power fails: what was only in memory is forgotten, and the free map
\* that is read back is the one that was in memory.
LEMMA RebootKeeps == ASSUME FsInv, Reboot PROVE FsInv'
<1>1. /\ free_map' = disk_map /\ op' = Idle
      /\ inodes' = [s \in Sectors |-> NotOpen]
      /\ files' = [h \in Handles |-> Closed]
      /\ UNCHANGED diskVars
  BY DEF Reboot
<1>2. free_map' = free_map
  BY <1>1 DEF FsInv, MapSaved
<1>3. TypeOK' /\ MapSaved' /\ ListedOnce'
  BY <1>1, <1>2
  DEF FsInv, TypeOK, MapSaved, ListedOnce, diskVars, NotOpen, Calls
<1>4. \A s \in Sectors : Openers(s)' = {} /\ ~Busy("remove", s)'
  BY <1>1, NoneIsNoSector DEF Openers, Closed, Busy, Idle
<1>5. \A s \in Sectors : inodes'[s].open_cnt = 0 /\ ~inodes'[s].removed
  BY <1>1 DEF NotOpen
<1>6. OpenersCounted'
  BY <1>4, <1>5, FS_EmptySet DEF OpenersCounted
<1>7. RemovedUnlisted'
  BY <1>4, <1>5 DEF RemovedUnlisted
<1>8. Inodes' \subseteq Inodes
  BY <1>1 DEF Inodes, ListedInodes, OpenInodes, Closed, diskVars
<1>9. FilesApart' /\ HoldsApart'
  BY <1>1, <1>2, <1>8, FewerFilesApart, IdleHoldsNothing DEF FsInv, diskVars
<1> QED
  BY <1>3, <1>6, <1>7, <1>9 DEF FsInv

\* An empty disk is sound.
LEMMA FsInit == Init => FsInv
<1> SUFFICES ASSUME Init PROVE FsInv
  OBVIOUS
<1>1. TypeOK
  BY FsConstants DEF Init, TypeOK, Entries, NotOpen, Closed, Calls, None
<1>2. MapSaved /\ ListedOnce
  BY DEF Init, MapSaved, ListedOnce
<1>3. Inodes = {}
  BY DEF Init, Inodes, ListedInodes, OpenInodes, NoEntry, Closed
<1>4. \A s \in Sectors : /\ Openers(s) = {} /\ ~Busy("remove", s)
                         /\ inodes[s].open_cnt = 0 /\ ~inodes[s].removed
  BY NoneIsNoSector DEF Init, Openers, Closed, Busy, Idle, NotOpen
<1>5. OpenersCounted
  BY <1>4, FS_EmptySet DEF OpenersCounted
<1>6. RemovedUnlisted
  BY <1>4 DEF RemovedUnlisted
<1>7. FilesApart /\ HoldsApart
  BY <1>3 DEF Init, FilesApart, HoldsApart, Holds, Idle
<1> QED
  BY <1>1, <1>2, <1>5, <1>6, <1>7 DEF FsInv

LEMMA NextKeeps == FsInv /\ [Next]_vars => FsInv'
<1> SUFFICES ASSUME FsInv, [Next]_vars PROVE FsInv'
  OBVIOUS
<1>1. CASE CreateStep
  BY <1>1, CreateDataKeeps, CreateNoRoomKeeps, CreateWriteKeeps,
     CreateZeroKeeps, CreateAddKeeps, CreateExistsKeeps, CreateUndoKeeps
  DEF CreateStep
<1>2. CASE \E n \in Names : Remove(n) \/ \E len \in Lengths : Create(n, len)
  BY <1>2, RemoveKeeps, CreateKeeps
<1>3. CASE RemoveInode \/ FreeInode \/ FreeData
  BY <1>3, RemoveInodeKeeps, FreeInodeKeeps, FreeDataKeeps
<1>4. CASE \E h \in Handles : Close(h) \/ Write(h)
                              \/ DenyWrite(h) \/ AllowWrite(h)
  BY <1>4, CloseKeeps, WriteKeeps, DenyWriteKeeps, AllowWriteKeeps
<1>5. CASE \E h \in Handles : \/ \E n \in Names : Open(h, n)
                              \/ \E g \in Handles : Reopen(h, g)
  BY <1>5, OpenKeeps, ReopenKeeps
<1>6. CASE Reboot
  BY <1>6, RebootKeeps
<1>7. CASE UNCHANGED vars
  <2> USE <1>7 DEF vars, diskVars, memVars
  <2>1. TypeOK' /\ MapSaved' /\ ListedOnce'
    BY DEF FsInv, TypeOK, MapSaved, ListedOnce
  <2>2. /\ Inodes' = Inodes /\ ListedInodes' = ListedInodes
        /\ \A s : /\ SectorsOf(s)' = SectorsOf(s)
                  /\ Openers(s)' = Openers(s)
                  /\ Busy("remove", s)' = Busy("remove", s)
    BY DEF Inodes, ListedInodes, OpenInodes, SectorsOf, DataOf, Run,
           Openers, Busy
  <2>3. Holds' = Holds
    BY <2>2 DEF Holds, DataOf, Run
  <2>4. OpenersCounted' /\ RemovedUnlisted'
    BY <2>2 DEF FsInv, OpenersCounted, RemovedUnlisted
  <2>5. FilesApart' /\ HoldsApart'
    BY <2>2, <2>3 DEF FsInv, FilesApart, HoldsApart
  <2> QED
    BY <2>1, <2>4, <2>5 DEF FsInv
<1> QED
  BY <1>1, <1>2, <1>3, <1>4, <1>5, <1>6, <1>7 DEF Next

\* The file system is consistent whatever calls are made, whatever they find,
\* and wherever the power fails: the invariant that the theorems below need.
THEOREM FsInvariant == Spec => []FsInv
<1> QED
  BY NextKeeps, FsInit, PTL DEF Spec

\* Wherever the power fails, the disk is sound: every sector of a listed file
\* is marked in the free map on the disk, and no two listed files share one.
THEOREM DiskAlwaysSound == Spec => []DiskSound
<1>1. FsInv => DiskSound
  <2> SUFFICES ASSUME FsInv PROVE DiskSound
    OBVIOUS
  <2>1. \A s \in ListedInodes : SectorsOf(s) \subseteq disk_map
    BY DEF FsInv, FilesApart, MapSaved, Inodes
  <2>2. ASSUME NEW i \in Slots, NEW j \in Slots, i # j, disk_dir[i] # NoEntry
        PROVE  /\ disk_dir[i].name # disk_dir[j].name
               /\ disk_dir[j] # NoEntry =>
                     SectorsOf(disk_dir[i].sector)
                         \cap SectorsOf(disk_dir[j].sector) = {}
    <3>1. /\ disk_dir[i].name # disk_dir[j].name
          /\ disk_dir[i].sector # disk_dir[j].sector
      BY <2>2 DEF FsInv, ListedOnce
    <3>2. \A k \in Slots : disk_dir[k] # NoEntry =>
              disk_dir[k].sector \in Inodes
      BY NoneIsNoSector DEF FsInv, TypeOK, Entries, Inodes, ListedInodes
    <3> QED
      BY <2>2, <3>1, <3>2 DEF FsInv, FilesApart
  <2> QED
    BY <2>1, <2>2 DEF DiskSound
<1> QED
  BY <1>1, FsInvariant, PTL

\* An open file keeps its sectors, though its name be removed and reused.
THEOREM OpenFilesKeepSectors == Spec => []OpenSound
<1>1. FsInv => OpenSound
  BY DEF FsInv, FilesApart, OpenSound, Inodes
<1> QED
  BY <1>1, FsInvariant, PTL
-----------------------------------------------------------------------------
(* What the calls do to handles and inodes, stated once for the proofs     *)
(* below.                                                                  *)

\* An entry that has a name is that of a file.
LEMMA ListedFile ==
  ASSUME FsInv, NEW n \in Names, NEW i \in Listed(n)
  PROVE  /\ i \in Slots /\ disk_dir[i] # NoEntry
         /\ disk_dir[i].sector \in Sectors
         /\ disk_dir[i].sector \in ListedInodes
         /\ disk_dir[i].sector \in Inodes
BY FsConstants, NoneIsNoSector
DEF Listed, FsInv, TypeOK, Entries, NoEntry, None, ListedInodes, Inodes

\* A handle that is not closed refers to a file.
LEMMA OpenFile ==
  ASSUME FsInv, NEW h \in Handles, files[h] # Closed
  PROVE  /\ files[h] \in [inode : Sectors, deny_write : BOOLEAN]
         /\ files[h].inode \in Sectors /\ files[h].inode # None
         /\ files[h].inode \in OpenInodes /\ files[h].inode \in Inodes
         /\ h \in Openers(files[h].inode)
BY NoneIsNoSector DEF FsInv, TypeOK, OpenInodes, Inodes, Openers

LEMMA OpenInodesAre == ASSUME FsInv PROVE \A s \in Sectors : s \in OpenInodes <=> Openers(s) # {}
BY NoneIsNoSector DEF OpenInodes, Openers, None

LEMMA ClosedFile == Closed.inode = None /\ ~Closed.deny_write
BY DEF Closed

\* The set of handles that deny writes is finite.
LEMMA DeniersFinite == \A s : /\ IsFiniteSet(Deniers(s))
                              /\ Cardinality(Deniers(s)) \in Nat
                              /\ Cardinality(Deniers(s)) = 0 <=> Deniers(s) = {}
<1> TAKE s
<1>1. Deniers(s) \subseteq Openers(s)
  BY DEF Deniers
<1> QED
  BY <1>1, OpenersFinite, FS_Subset, FS_CardinalityType, FS_EmptySet

\* file_close.
LEMMA CloseEffect ==
  ASSUME FsInv, NEW h \in Handles, Close(h), NEW s, s = files[h].inode
  PROVE  /\ op = Idle /\ files[h] # Closed /\ s \in Sectors /\ s \in Inodes
         /\ UNCHANGED <<diskVars, free_map>>
         /\ files' = [files EXCEPT ![h] = Closed]
         /\ \A t \in Sectors \ {s} : inodes'[t] = inodes[t] /\ Openers(t)' = Openers(t)
         /\ h \in Openers(s) /\ Openers(s)' = Openers(s) \ {h}
         /\ LastOpener(s) <=> Openers(s)' = {}
         /\ LastOpener(s) => inodes'[s] = NotOpen
         /\ ~LastOpener(s) => /\ inodes'[s].removed = inodes[s].removed
                              /\ inodes'[s].deny_write_cnt =
                                   IF files[h].deny_write THEN inodes[s].deny_write_cnt - 1
                                   ELSE inodes[s].deny_write_cnt
         /\ op' = IF LastOpener(s) /\ inodes[s].removed
                  THEN [at |-> "free", sector |-> s] ELSE Idle
<1> DEFINE i == IF files[h].deny_write
                THEN [inodes[s] EXCEPT !.deny_write_cnt = @ - 1]
                ELSE inodes[s]
<1>1. /\ op = Idle /\ files[h] # Closed /\ CloseInode(s, i)
      /\ files' = [files EXCEPT ![h] = Closed]
      /\ UNCHANGED <<diskVars, free_map>>
  BY DEF Close
<1>2. s \in Sectors /\ s \in Inodes /\ h \in Openers(s)
  BY <1>1, OpenFile
<1>3. \A g \in Handles : files'[g].inode = IF g = h THEN None ELSE files[g].inode
  BY <1>1, ClosedFile DEF FsInv, TypeOK
<1>4. \A t \in Sectors \ {s} : Openers(t)' = Openers(t)
  BY <1>3, NoneIsNoSector DEF Openers
<1>5. Openers(s)' = Openers(s) \ {h}
  BY <1>2, <1>3, NoneIsNoSector DEF Openers
<1>6. inodes[s].open_cnt = Cardinality(Openers(s)) + 0
  BY <1>1, <1>2 DEF FsInv, OpenersCounted, Busy, Idle
<1>7. LastOpener(s) <=> Openers(s)' = {}
  <2>1. /\ Cardinality(Openers(s) \ {h}) = Cardinality(Openers(s)) - 1
        /\ IsFiniteSet(Openers(s) \ {h})
        /\ Cardinality(Openers(s)) \in Nat
    BY <1>2, OpenersFinite, FS_RemoveElement
  <2>2. Cardinality(Openers(s) \ {h}) = 0 <=> Openers(s) \ {h} = {}
    BY <2>1, FS_EmptySet
  <2> QED
    BY <1>5, <1>6, <2>1, <2>2 DEF LastOpener
<1>8. inodes[s] \in [open_cnt : Nat, removed : BOOLEAN, deny_write_cnt : Int]
  BY <1>2 DEF FsInv, TypeOK
<1>9. /\ i.removed = inodes[s].removed
      /\ i.deny_write_cnt = IF files[h].deny_write THEN inodes[s].deny_write_cnt - 1
                            ELSE inodes[s].deny_write_cnt
      /\ i \in [open_cnt : Nat, removed : BOOLEAN, deny_write_cnt : Int]
  BY <1>8
<1> HIDE DEF i
<1>10. /\ inodes' = [inodes EXCEPT ![s] = IF LastOpener(s) THEN NotOpen
                                         ELSE [i EXCEPT !.open_cnt = @ - 1]]
       /\ op' = IF LastOpener(s) /\ i.removed
                THEN [at |-> "free", sector |-> s] ELSE Idle
  BY <1>1 DEF CloseInode
<1>11. \A t \in Sectors \ {s} : inodes'[t] = inodes[t]
  BY <1>10 DEF FsInv, TypeOK
<1>12. inodes'[s] = IF LastOpener(s) THEN NotOpen ELSE [i EXCEPT !.open_cnt = @ - 1]
  BY <1>2, <1>10 DEF FsInv, TypeOK
<1>13. /\ [i EXCEPT !.open_cnt = @ - 1].removed = i.removed
       /\ [i EXCEPT !.open_cnt = @ - 1].deny_write_cnt = i.deny_write_cnt
  BY <1>9
<1> QED
  BY <1>1, <1>2, <1>4, <1>5, <1>7, <1>9, <1>10, <1>11, <1>12, <1>13

\* The second half of filesys_remove.
LEMMA RemoveInodeEffect ==
  ASSUME FsInv, RemoveInode, NEW s, s = op.sector
  PROVE  /\ op.at = "remove" /\ s \in Sectors /\ s \notin ListedInodes
         /\ UNCHANGED <<diskVars, free_map, files>>
         /\ \A t \in Sectors \ {s} : inodes'[t] = inodes[t]
         /\ LastOpener(s) <=> Openers(s) = {}
         /\ inodes'[s].deny_write_cnt = IF LastOpener(s) THEN 0
                                        ELSE inodes[s].deny_write_cnt
         /\ ~LastOpener(s) => inodes'[s].removed
         /\ op' = IF LastOpener(s) THEN [at |-> "free", sector |-> s] ELSE Idle
<1> DEFINE i == [inodes[s] EXCEPT !.removed = TRUE]
<1>1. /\ op.at = "remove" /\ CloseInode(s, i)
      /\ UNCHANGED <<diskVars, free_map, files>>
  BY DEF RemoveInode
<1>2. s \in Sectors /\ Busy("remove", s)
  BY <1>1, CallFields DEF FsInv, TypeOK, Busy
<1>3. s \notin ListedInodes
  BY <1>2 DEF FsInv, RemovedUnlisted
<1>4. inodes[s].open_cnt = Cardinality(Openers(s)) + 1
  BY <1>2 DEF FsInv, OpenersCounted
<1>5. LastOpener(s) <=> Openers(s) = {}
  BY <1>4, OpenersFinite DEF LastOpener
<1>6. inodes[s] \in [open_cnt : Nat, removed : BOOLEAN, deny_write_cnt : Int]
  BY <1>2 DEF FsInv, TypeOK
<1>7. /\ i.removed /\ i.deny_write_cnt = inodes[s].deny_write_cnt
      /\ i \in [open_cnt : Nat, removed : BOOLEAN, deny_write_cnt : Int]
  BY <1>6
<1> HIDE DEF i
<1>8. /\ inodes' = [inodes EXCEPT ![s] = IF LastOpener(s) THEN NotOpen
                                         ELSE [i EXCEPT !.open_cnt = @ - 1]]
      /\ op' = IF LastOpener(s) /\ i.removed
               THEN [at |-> "free", sector |-> s] ELSE Idle
  BY <1>1 DEF CloseInode
<1>9. \A t \in Sectors \ {s} : inodes'[t] = inodes[t]
  BY <1>8 DEF FsInv, TypeOK
<1>10. inodes'[s] = IF LastOpener(s) THEN NotOpen ELSE [i EXCEPT !.open_cnt = @ - 1]
  BY <1>2, <1>8 DEF FsInv, TypeOK
<1>11. /\ [i EXCEPT !.open_cnt = @ - 1].removed = i.removed
       /\ [i EXCEPT !.open_cnt = @ - 1].deny_write_cnt = i.deny_write_cnt
       /\ NotOpen.deny_write_cnt = 0
  BY <1>7 DEF NotOpen
<1> QED
  BY <1>1, <1>2, <1>3, <1>5, <1>7, <1>8, <1>9, <1>10, <1>11

\* The first half of filesys_remove.
LEMMA RemoveEffect ==
  ASSUME FsInv, NEW n \in Names, Remove(n)
  PROVE  \E i \in Listed(n), s \in Sectors :
           /\ s = disk_dir[i].sector /\ s \in ListedInodes /\ s \in Inodes
           /\ op = Idle /\ op' = [at |-> "remove", sector |-> s]
           /\ UNCHANGED <<disk_map, disk_inode, disk_data, free_map, files>>
           /\ i \in Slots /\ disk_dir' = [disk_dir EXCEPT ![i] = NoEntry]
           /\ ListedInodes' = ListedInodes \ {s}
           /\ \A t \in Sectors : /\ inodes'[t].removed = inodes[t].removed
                                 /\ inodes'[t].deny_write_cnt = inodes[t].deny_write_cnt
<1>1. PICK i \in Listed(n) :
         /\ inodes' = Opened(disk_dir[i].sector)
         /\ disk_dir' = [disk_dir EXCEPT ![i] = NoEntry]
         /\ op' = [at |-> "remove", sector |-> disk_dir[i].sector]
  BY DEF Remove
<1>2. /\ op = Idle
      /\ UNCHANGED <<disk_map, disk_inode, disk_data, free_map, files>>
  BY DEF Remove
<1>3. PICK s \in Sectors : s = disk_dir[i].sector
  BY ListedFile
<1>4. /\ i \in Slots /\ disk_dir[i] # NoEntry /\ s \in ListedInodes /\ s \in Inodes
  BY <1>3, ListedFile
<1>5. \A j \in Slots : disk_dir'[j] = IF j = i THEN NoEntry ELSE disk_dir[j]
  BY <1>1, <1>4 DEF FsInv, TypeOK
<1>6. \A t \in Sectors : /\ inodes'[t].removed = inodes[t].removed
                         /\ inodes'[t].deny_write_cnt = inodes[t].deny_write_cnt
  BY <1>1, <1>3 DEF FsInv, TypeOK, Opened
<1>7. \A j \in Slots \ {i} : disk_dir[j].sector # s
  BY <1>3, <1>4 DEF FsInv, ListedOnce
<1>8. ListedInodes' = ListedInodes \ {s}
  BY <1>3, <1>4, <1>5, <1>7 DEF ListedInodes, NoEntry
<1> QED
  BY <1>1, <1>2, <1>3, <1>4, <1>6, <1>8

\* Opening, by name or again.
LEMMA OpenEffect ==
  ASSUME FsInv, NEW h \in Handles,
         \/ \E n \in Names : Open(h, n)
         \/ \E g \in Handles : Reopen(h, g)
  PROVE  \E s \in Sectors :
           /\ s \in Inodes /\ op = Idle /\ files[h] = Closed
           /\ inodes' = Opened(s)
           /\ files' = [files EXCEPT ![h] = [inode |-> s, deny_write |-> FALSE]]
           /\ OpenInodes' = OpenInodes \cup {s}
           /\ UNCHANGED <<diskVars, free_map, op>>
<1>1. PICK s \in Sectors :
           /\ s \in Inodes /\ op = Idle /\ files[h] = Closed
           /\ inodes' = Opened(s)
           /\ files' = [files EXCEPT ![h] = [inode |-> s, deny_write |-> FALSE]]
           /\ UNCHANGED <<diskVars, free_map, op>>
  <2>1. CASE \E n \in Names : Open(h, n)
    <3>1. PICK n \in Names : Open(h, n)
      BY <2>1
    <3>2. PICK i \in Listed(n) :
             /\ inodes' = Opened(disk_dir[i].sector)
             /\ files' = [files EXCEPT ![h] = [inode |-> disk_dir[i].sector,
                                               deny_write |-> FALSE]]
      BY <3>1 DEF Open
    <3>3. disk_dir[i].sector \in Sectors /\ disk_dir[i].sector \in Inodes
      BY ListedFile
    <3> QED
      BY <3>1, <3>2, <3>3 DEF Open
  <2>2. CASE \E g \in Handles : Reopen(h, g)
    <3>1. PICK g \in Handles : Reopen(h, g)
      BY <2>2
    <3>2. files[g].inode \in Sectors /\ files[g].inode \in Inodes
      BY <3>1, OpenFile DEF Reopen
    <3> QED
      BY <3>1, <3>2 DEF Reopen
  <2> QED
    BY <2>1, <2>2
<1>2. \A g \in Handles : files'[g].inode = IF g = h THEN s ELSE files[g].inode
  BY <1>1 DEF FsInv, TypeOK
<1>3. OpenInodes' = OpenInodes \cup {s}
  BY <1>1, <1>2, ClosedFile, NoneIsNoSector DEF OpenInodes
<1> QED
  BY <1>1, <1>3

-----------------------------------------------------------------------------
(* The invariant of the refinement.                                        *)

\* A step that opens, closes and denies nothing.
LEMMA DetailSameFiles ==
  ASSUME FsDetail, UNCHANGED <<inodes, files>>, ListedInodes \subseteq ListedInodes',
         op.at # "remove"
  PROVE  DenyCounted' /\ UnlistedRemoved'
<1>1. \A s : Deniers(s)' = Deniers(s)
  BY DEF Deniers, Openers
<1>2. OpenInodes' = OpenInodes
  BY DEF OpenInodes
<1> QED
  BY <1>1, <1>2 DEF FsDetail, DenyCounted, UnlistedRemoved, Busy

\* ... and leaves the directory alone.
LEMMA DetailSameDir ==
  ASSUME FsDetail, UNCHANGED <<inodes, files, disk_dir>>, op.at # "remove"
  PROVE  DenyCounted' /\ UnlistedRemoved'
BY DetailSameFiles DEF ListedInodes

LEMMA NoZeroing ==
  ASSUME op'.at \notin {"inode", "write", "zero"} PROVE ZeroedSoFar'
BY DEF ZeroedSoFar

LEMMA CreateDetail ==
  ASSUME FsInv, FsDetail, CreateStep \/ \E n \in Names, len \in Lengths : Create(n, len)
  PROVE  FsDetail'
<1> USE DEF FsDetail
<1>1. CASE \E n \in Names, len \in Lengths : Create(n, len)
  <2>1. PICK n \in Names, len \in Lengths : Create(n, len)
    BY <1>1
  <2>2. op'.at = "inode" /\ op'.length = len
    BY <2>1 DEF Create
  <2>3. DenyCounted' /\ UnlistedRemoved'
    BY <2>1, DetailSameDir DEF Create, Idle
  <2> QED
    BY <2>2, <2>3 DEF ZeroedSoFar
<1>2. CASE CreateData
  <2>1. op.at = "inode" /\ op'.at = "write" /\ op'.length = op.length
    BY <1>2 DEF CreateData
  <2>2. DenyCounted' /\ UnlistedRemoved'
    BY <1>2, DetailSameDir DEF CreateData
  <2> QED
    BY <2>1, <2>2 DEF ZeroedSoFar
<1>3. CASE CreateNoRoom \/ CreateExists
  <2>1. op'.at = "undo"
    BY <1>3 DEF CreateNoRoom, CreateExists
  <2>2. DenyCounted' /\ UnlistedRemoved'
    BY <1>3, DetailSameDir DEF CreateNoRoom, CreateExists, diskVars, memVars
  <2> QED
    BY <2>1, <2>2, NoZeroing
<1>4. CASE CreateWrite
  <2>1. /\ op.at = "write"
        /\ disk_inode' = [disk_inode EXCEPT ![op.sector] =
                              [start |-> op.start, length |-> op.length]]
        /\ op' = [at |-> "zero", name |-> op.name, sector |-> op.sector,
                  todo |-> Run(op.start, op.length)]
        /\ UNCHANGED <<disk_map, disk_dir, disk_data, memVars>>
    BY <1>4 DEF CreateWrite, ToZero
  <2>2. op.sector \in Sectors
    BY <2>1, CallFields DEF FsInv, TypeOK
  <2>3. disk_inode'[op.sector] = [start |-> op.start, length |-> op.length]
    BY <2>1, <2>2 DEF FsInv, TypeOK
  <2>4. /\ op'.at = "zero" /\ op'.sector = op.sector
        /\ op'.todo = Run(op.start, op.length)
    BY <2>1
  <2>5. disk_inode'[op'.sector].length = op.length
        /\ DataOf(disk_inode'[op'.sector]) = op'.todo
    BY <2>3, <2>4 DEF DataOf
  <2>6. ZeroedSoFar'
    BY <2>1, <2>4, <2>5 DEF ZeroedSoFar, DataOf
  <2>7. DenyCounted' /\ UnlistedRemoved'
    BY <2>1, DetailSameDir DEF memVars
  <2> QED
    BY <2>6, <2>7
<1>5. CASE CreateZero
  <2>1. PICK s \in op.todo : /\ disk_data' = [disk_data EXCEPT ![s] = Zero]
                             /\ op' = [op EXCEPT !.todo = @ \ {s}]
    BY <1>5 DEF CreateZero
  <2>2. op.at = "zero" /\ UNCHANGED <<disk_map, disk_dir, disk_inode, memVars>>
    BY <1>5 DEF CreateZero
  <2>3. /\ op.todo \in SUBSET Sectors
        /\ op \in [at : {"zero"}, name : Names, sector : Sectors,
                   todo : SUBSET Sectors]
    BY <2>2, CallFields DEF FsInv, TypeOK
  <2>4. op'.at = "zero" /\ op'.sector = op.sector /\ op'.todo = op.todo \ {s}
    BY <2>1, <2>3
  <2>5. \A t \in Sectors : disk_data'[t] = IF t = s THEN Zero ELSE disk_data[t]
    BY <2>1 DEF FsInv, TypeOK
  <2>6. DataOf(disk_inode[op.sector]) \subseteq Sectors
    <3>1. Holds = SectorsOf(op.sector)
      BY <2>2 DEF Holds
    <3> QED
      BY <2>2, <3>1 DEF FsInv, HoldsApart, SectorsOf, TypeOK
  <2>7. ZeroedSoFar'
    <3>1. /\ disk_inode[op.sector].length \in Lengths
          /\ op.todo \subseteq DataOf(disk_inode[op.sector])
          /\ \A t \in DataOf(disk_inode[op.sector]) :
                t \in op.todo \/ disk_data[t] = Zero
      BY <2>2 DEF ZeroedSoFar
    <3>2. \A t \in DataOf(disk_inode[op.sector]) :
             t \in op.todo \ {s} \/ disk_data'[t] = Zero
      BY <2>5, <2>6, <3>1
    <3>3. DataOf(disk_inode'[op'.sector]) = DataOf(disk_inode[op.sector])
      BY <2>2, <2>4 DEF DataOf
    <3> QED
      BY <2>2, <2>4, <3>1, <3>2, <3>3 DEF ZeroedSoFar, DataOf
  <2>8. DenyCounted' /\ UnlistedRemoved'
    BY <2>2, DetailSameDir DEF memVars
  <2> QED
    BY <2>7, <2>8
<1>6. CASE CreateAdd
  <2>1. PICK i \in Listed(None) :
           disk_dir' = [disk_dir EXCEPT ![i] = [name |-> op.name,
                                                sector |-> op.sector]]
    BY <1>6 DEF CreateAdd
  <2>2. op.at = "zero" /\ op'.at = "idle" /\ UNCHANGED <<inodes, files>>
    BY <1>6 DEF CreateAdd, Idle, memVars
  <2>3. i \in Slots /\ disk_dir[i].sector = None
    BY <2>1, FsConstants DEF Listed, FsInv, TypeOK, Entries, NoEntry, None
  <2>4. \A j \in Slots : j # i => disk_dir'[j] = disk_dir[j]
    BY <2>1 DEF FsInv, TypeOK
  <2>5. ListedInodes \subseteq ListedInodes'
    BY <2>3, <2>4 DEF ListedInodes
  <2> QED
    BY <2>2, <2>5, DetailSameFiles, NoZeroing
<1>7. CASE CreateUndo
  BY <1>7, DetailSameDir, NoZeroing DEF CreateUndo, Idle
<1> QED
  BY <1>1, <1>2, <1>3, <1>4, <1>5, <1>6, <1>7 DEF CreateStep

LEMMA OpenDetail ==
  ASSUME FsInv, FsDetail, NEW h \in Handles,
         \/ \E n \in Names : Open(h, n)
         \/ \E g \in Handles : Reopen(h, g)
  PROVE  FsDetail'
<1>1. PICK s \in Sectors :
           /\ s \in Inodes /\ op = Idle /\ files[h] = Closed
           /\ inodes' = Opened(s)
           /\ files' = [files EXCEPT ![h] = [inode |-> s, deny_write |-> FALSE]]
           /\ OpenInodes' = OpenInodes \cup {s}
           /\ UNCHANGED <<diskVars, free_map, op>>
  BY OpenEffect
<1>2. \A t \in Sectors : /\ inodes'[t].removed = inodes[t].removed
                         /\ inodes'[t].deny_write_cnt = inodes[t].deny_write_cnt
  BY <1>1 DEF FsInv, TypeOK, Opened
<1>3. ListedInodes' = ListedInodes
  BY <1>1 DEF ListedInodes, diskVars
<1>4. \A t \in Sectors : Deniers(t)' = Deniers(t)
  <2>1. \A g \in Handles : g # h => files'[g] = files[g]
    BY <1>1 DEF FsInv, TypeOK
  <2>2. ~files[h].deny_write /\ ~files'[h].deny_write
    BY <1>1, ClosedFile DEF FsInv, TypeOK
  <2> QED
    BY <2>1, <2>2 DEF Deniers, Openers
<1>5. DenyCounted'
  BY <1>2, <1>4 DEF FsDetail, DenyCounted
<1>6. \A t : ~Busy("remove", t)
  BY <1>1 DEF Busy, Idle
<1>7. UnlistedRemoved'
  <2>1. \A t \in OpenInodes : t \in Sectors
    BY DEF FsInv, TypeOK, OpenInodes, Closed
  <2>2. s \in OpenInodes \/ s \in ListedInodes
    BY <1>1 DEF Inodes
  <2> QED
    BY <1>1, <1>2, <1>3, <1>6, <2>1, <2>2 DEF FsDetail, UnlistedRemoved
<1>8. ZeroedSoFar'
  BY <1>1, NoZeroing DEF Idle
<1> QED
  BY <1>5, <1>7, <1>8 DEF FsDetail

LEMMA CloseDetail ==
  ASSUME FsInv, FsDetail, NEW h \in Handles, Close(h)
  PROVE  FsDetail'
<1>1. PICK s : s = files[h].inode
  OBVIOUS
<1>2. /\ op = Idle /\ files[h] # Closed /\ s \in Sectors
      /\ UNCHANGED <<diskVars, free_map>>
      /\ files' = [files EXCEPT ![h] = Closed]
      /\ \A t \in Sectors \ {s} : inodes'[t] = inodes[t] /\ Openers(t)' = Openers(t)
      /\ h \in Openers(s) /\ Openers(s)' = Openers(s) \ {h}
      /\ LastOpener(s) <=> Openers(s)' = {}
      /\ LastOpener(s) => inodes'[s] = NotOpen
      /\ ~LastOpener(s) => /\ inodes'[s].removed = inodes[s].removed
                           /\ inodes'[s].deny_write_cnt =
                                IF files[h].deny_write THEN inodes[s].deny_write_cnt - 1
                                ELSE inodes[s].deny_write_cnt
      /\ op' = IF LastOpener(s) /\ inodes[s].removed
               THEN [at |-> "free", sector |-> s] ELSE Idle
  BY <1>1, CloseEffect
<1>3. \A g \in Handles : files'[g].deny_write <=> g # h /\ files[g].deny_write
  BY <1>2, ClosedFile DEF FsInv, TypeOK
<1>4. \A t \in Sectors \ {s} : Deniers(t)' = Deniers(t)
  <2>1. \A t \in Sectors \ {s} : h \notin Openers(t)
    BY <1>1 DEF Openers
  <2>2. \A t : Openers(t) \subseteq Handles
    BY DEF Openers
  <2> QED
    BY <1>2, <1>3, <2>1, <2>2 DEF Deniers
<1>5. Deniers(s)' = Deniers(s) \ {h}
  <2>1. Openers(s) \subseteq Handles
    BY DEF Openers
  <2> QED
    BY <1>2, <1>3, <2>1 DEF Deniers
<1>6. inodes'[s].deny_write_cnt = Cardinality(Deniers(s)')
  <2>1. inodes[s].deny_write_cnt = Cardinality(Deniers(s))
    BY <1>2 DEF FsDetail, DenyCounted
  <2>2. CASE LastOpener(s)
    <3>1. Deniers(s)' = {}
      BY <1>2, <2>2 DEF Deniers
    <3> QED
      BY <1>2, <2>2, <3>1, FS_EmptySet DEF NotOpen
  <2>3. CASE ~LastOpener(s) /\ files[h].deny_write
    <3>1. h \in Deniers(s)
      BY <1>2, <2>3 DEF Deniers
    <3>2. Cardinality(Deniers(s) \ {h}) = Cardinality(Deniers(s)) - 1
      BY <3>1, DeniersFinite, FS_RemoveElement
    <3> QED
      BY <1>2, <1>5, <2>1, <2>3, <3>2
  <2>4. CASE ~LastOpener(s) /\ ~files[h].deny_write
    <3>1. Deniers(s) \ {h} = Deniers(s)
      BY <2>4 DEF Deniers
    <3> QED
      BY <1>2, <1>5, <2>1, <2>4, <3>1
  <2> QED
    BY <2>2, <2>3, <2>4
<1>7. DenyCounted'
  BY <1>2, <1>4, <1>6 DEF FsDetail, DenyCounted
<1>8. UnlistedRemoved'
  <2>1. ListedInodes' = ListedInodes
    BY <1>2 DEF ListedInodes, diskVars
  <2>2. ASSUME NEW t \in OpenInodes', t \notin ListedInodes PROVE inodes'[t].removed
    <3>1. t \in Sectors /\ Openers(t)' # {}
      <4>1. FsInv'
        BY CloseKeeps
      <4> QED
        BY <4>1 DEF OpenInodes, Openers, FsInv, TypeOK, Closed, None
    <3>2. Openers(t) # {}
      BY <1>2, <3>1
    <3>3. t \in OpenInodes
      BY <3>1, <3>2, OpenInodesAre
    <3>4. inodes[t].removed
      BY <1>2, <2>2, <3>3 DEF FsDetail, UnlistedRemoved, Busy, Idle
    <3> QED
      BY <1>2, <3>1, <3>4
  <2> QED
    BY <2>1, <2>2 DEF UnlistedRemoved
<1>9. ZeroedSoFar'
  BY <1>2, NoZeroing DEF Idle
<1> QED
  BY <1>7, <1>8, <1>9 DEF FsDetail

LEMMA RemoveDetail ==
  ASSUME FsInv, FsDetail, NEW n \in Names, Remove(n)
  PROVE  FsDetail'
<1>1. PICK i \in Listed(n), s \in Sectors :
           /\ op = Idle /\ op' = [at |-> "remove", sector |-> s]
           /\ UNCHANGED <<disk_map, disk_inode, disk_data, free_map, files>>
           /\ ListedInodes' = ListedInodes \ {s}
           /\ \A t \in Sectors : /\ inodes'[t].removed = inodes[t].removed
                                 /\ inodes'[t].deny_write_cnt = inodes[t].deny_write_cnt
  BY RemoveEffect
<1>2. \A t : Deniers(t)' = Deniers(t)
  BY <1>1 DEF Deniers, Openers
<1>3. DenyCounted'
  BY <1>1, <1>2 DEF FsDetail, DenyCounted
<1>4. UnlistedRemoved'
  <2>1. \A t \in OpenInodes : t \in Sectors
    BY DEF FsInv, TypeOK, OpenInodes, Closed
  <2>2. OpenInodes' = OpenInodes
    BY <1>1 DEF OpenInodes
  <2>3. \A t : ~Busy("remove", t) /\ (Busy("remove", t)' <=> t = s)
    BY <1>1 DEF Busy, Idle
  <2> QED
    BY <1>1, <2>1, <2>2, <2>3 DEF FsDetail, UnlistedRemoved
<1>5. ZeroedSoFar'
  BY <1>1, NoZeroing
<1> QED
  BY <1>3, <1>4, <1>5 DEF FsDetail

LEMMA RemoveInodeDetail ==
  ASSUME FsInv, FsDetail, RemoveInode
  PROVE  FsDetail'
<1>1. PICK s : s = op.sector
  OBVIOUS
<1>2. /\ op.at = "remove" /\ s \in Sectors
      /\ UNCHANGED <<diskVars, free_map, files>>
      /\ \A t \in Sectors \ {s} : inodes'[t] = inodes[t]
      /\ LastOpener(s) <=> Openers(s) = {}
      /\ inodes'[s].deny_write_cnt = IF LastOpener(s) THEN 0 ELSE inodes[s].deny_write_cnt
      /\ ~LastOpener(s) => inodes'[s].removed
      /\ op' = IF LastOpener(s) THEN [at |-> "free", sector |-> s] ELSE Idle
  BY <1>1, RemoveInodeEffect
<1>3. \A t : Deniers(t)' = Deniers(t)
  BY <1>2 DEF Deniers, Openers
<1>4. Openers(s) = {} => Cardinality(Deniers(s)) = 0
  BY DeniersFinite DEF Deniers
<1>5. DenyCounted'
  BY <1>2, <1>3, <1>4 DEF FsDetail, DenyCounted
<1>6. UnlistedRemoved'
  <2>1. \A t \in OpenInodes : t \in Sectors /\ Openers(t) # {}
    BY DEF FsInv, TypeOK, OpenInodes, Openers, Closed, None
  <2>2. OpenInodes' = OpenInodes /\ ListedInodes' = ListedInodes
    BY <1>2 DEF OpenInodes, ListedInodes, diskVars
  <2>3. \A t : Busy("remove", t) => t = s
    BY <1>1 DEF Busy
  <2> QED
    BY <1>2, <2>1, <2>2, <2>3 DEF FsDetail, UnlistedRemoved
<1>7. ZeroedSoFar'
  BY <1>2, NoZeroing DEF Idle
<1> QED
  BY <1>5, <1>6, <1>7 DEF FsDetail

\* file_deny_write and file_allow_write keep the count.
LEMMA DenyDetail ==
  ASSUME FsInv, FsDetail, NEW h \in Handles, DenyWrite(h) \/ AllowWrite(h)
  PROVE  FsDetail' /\ OpenInodes' = OpenInodes
<1>1. PICK d \in BOOLEAN :
        /\ op = Idle /\ files[h] # Closed /\ files[h].deny_write = ~d
        /\ files' = [files EXCEPT ![h].deny_write = d]
        /\ inodes' = [inodes EXCEPT ![files[h].inode].deny_write_cnt =
                          IF d THEN @ + 1 ELSE @ - 1]
        /\ UNCHANGED <<diskVars, free_map, op>>
  <2>1. CASE DenyWrite(h)
    <3>1. files[h] \in [inode : Sectors, deny_write : BOOLEAN]
      BY <2>1, OpenFile DEF DenyWrite
    <3> QED
      BY <2>1, <3>1 DEF DenyWrite
  <2>2. CASE AllowWrite(h)
    <3>1. files[h] # Closed
      BY <2>2, ClosedFile DEF AllowWrite
    <3>2. files[h] \in [inode : Sectors, deny_write : BOOLEAN]
      BY <3>1, OpenFile
    <3> QED
      BY <2>2, <3>1, <3>2 DEF AllowWrite
  <2> QED
    BY <2>1, <2>2
<1>2. PICK s : s = files[h].inode
  OBVIOUS
<1>3. s \in Sectors /\ h \in Openers(s)
      /\ files[h] \in [inode : Sectors, deny_write : BOOLEAN]
  BY <1>1, <1>2, OpenFile
<1>4. \A g \in Handles : /\ files'[g].inode = files[g].inode
                         /\ g # h => files'[g] = files[g]
  BY <1>1, <1>3 DEF FsInv, TypeOK
<1>5. files'[h].deny_write = d
  BY <1>1, <1>3 DEF FsInv, TypeOK
<1>6. \A t \in Sectors : /\ inodes'[t].removed = inodes[t].removed
                         /\ t # s => inodes'[t] = inodes[t]
  BY <1>1, <1>2 DEF FsInv, TypeOK
<1>7. inodes'[s].deny_write_cnt = IF d THEN inodes[s].deny_write_cnt + 1
                                  ELSE inodes[s].deny_write_cnt - 1
  BY <1>1, <1>2, <1>3 DEF FsInv, TypeOK
<1>8. \A t : Openers(t)' = Openers(t)
  BY <1>4 DEF Openers
<1>9. \A t \in Sectors \ {s} : Deniers(t)' = Deniers(t)
  <2>1. \A t \in Sectors \ {s} : h \notin Openers(t)
    BY <1>2 DEF Openers
  <2>2. \A t : Openers(t) \subseteq Handles
    BY DEF Openers
  <2> QED
    BY <1>4, <1>8, <2>1, <2>2 DEF Deniers
<1>10. inodes'[s].deny_write_cnt = Cardinality(Deniers(s)')
  <2>1. inodes[s].deny_write_cnt = Cardinality(Deniers(s))
    BY <1>3 DEF FsDetail, DenyCounted
  <2>2. Openers(s) \subseteq Handles
    BY DEF Openers
  <2>3. CASE d
    <3>1. Deniers(s)' = Deniers(s) \cup {h} /\ h \notin Deniers(s)
      BY <1>1, <1>3, <1>4, <1>5, <1>8, <2>2, <2>3 DEF Deniers
    <3> QED
      BY <1>7, <2>1, <2>3, <3>1, DeniersFinite, FS_AddElement
  <2>4. CASE ~d
    <3>1. Deniers(s)' = Deniers(s) \ {h} /\ h \in Deniers(s)
      BY <1>1, <1>3, <1>4, <1>5, <1>8, <2>2, <2>4 DEF Deniers
    <3> QED
      BY <1>7, <2>1, <2>4, <3>1, DeniersFinite, FS_RemoveElement
  <2> QED
    BY <2>3, <2>4
<1>11. DenyCounted'
  BY <1>6, <1>9, <1>10 DEF FsDetail, DenyCounted
<1>12. OpenInodes' = OpenInodes
  BY <1>4 DEF OpenInodes
<1>13. UnlistedRemoved'
  <2>1. \A t \in OpenInodes : t \in Sectors
    BY DEF FsInv, TypeOK, OpenInodes, Closed
  <2>2. ListedInodes' = ListedInodes
    BY <1>1 DEF ListedInodes, diskVars
  <2> QED
    BY <1>1, <1>6, <1>12, <2>1, <2>2 DEF FsDetail, UnlistedRemoved, Busy, Idle
<1>14. ZeroedSoFar'
  BY <1>1, NoZeroing DEF Idle
<1> QED
  BY <1>11, <1>12, <1>13, <1>14 DEF FsDetail

LEMMA RebootDetail == ASSUME FsInv, FsDetail, Reboot PROVE FsDetail'
<1>1. \A s \in Sectors : Deniers(s)' = {} /\ inodes'[s].deny_write_cnt = 0
  BY ClosedFile DEF Reboot, Deniers, Openers, NotOpen
<1>2. DenyCounted'
  BY <1>1, FS_EmptySet DEF DenyCounted
<1>3. OpenInodes' = {}
  BY ClosedFile DEF Reboot, OpenInodes
<1>4. UnlistedRemoved' /\ ZeroedSoFar'
  BY <1>3, NoZeroing DEF Reboot, UnlistedRemoved, Idle
<1> QED
  BY <1>2, <1>4 DEF FsDetail

LEMMA NextDetail == FsInv /\ FsDetail /\ [Next]_vars => FsDetail'
<1> SUFFICES ASSUME FsInv, FsDetail, [Next]_vars PROVE FsDetail'
  OBVIOUS
<1>1. CASE CreateStep \/ \E n \in Names, len \in Lengths : Create(n, len)
  BY <1>1, CreateDetail
<1>2. CASE RemoveInode \/ \E n \in Names : Remove(n)
  BY <1>2, RemoveInodeDetail, RemoveDetail
<1>3. CASE FreeInode \/ FreeData
  <2>1. op.at # "remove" /\ op'.at \in {"free_data", "idle"}
        /\ UNCHANGED <<inodes, files, disk_dir>>
    BY <1>3 DEF FreeInode, FreeData, Idle
  <2> QED
    BY <2>1, DetailSameDir, NoZeroing DEF FsDetail
<1>4. ASSUME NEW h \in Handles, Write(h) PROVE FsDetail'
  <2>1. op.at = "idle" /\ op'.at = "idle" /\ UNCHANGED <<inodes, files, disk_dir>>
    BY <1>4 DEF Write, Idle, memVars
  <2> QED
    BY <2>1, DetailSameDir, NoZeroing DEF FsDetail
<1>5. ASSUME NEW h \in Handles,
             \/ Close(h) \/ DenyWrite(h) \/ AllowWrite(h)
             \/ \E n \in Names : Open(h, n)
             \/ \E g \in Handles : Reopen(h, g)
      PROVE  FsDetail'
  BY <1>5, CloseDetail, DenyDetail, OpenDetail
<1>6. CASE Reboot
  BY <1>6, RebootDetail
<1>7. CASE UNCHANGED vars
  <2>1. /\ UNCHANGED <<inodes, files, disk_dir, disk_inode, disk_data, op>>
    BY <1>7 DEF vars, diskVars, memVars
  <2>2. \A s : Deniers(s)' = Deniers(s) /\ Busy("remove", s)' = Busy("remove", s)
    BY <2>1 DEF Deniers, Openers, Busy
  <2>3. OpenInodes' = OpenInodes /\ ListedInodes' = ListedInodes
    BY <2>1 DEF OpenInodes, ListedInodes
  <2>4. ZeroedSoFar'
    BY <2>1 DEF FsDetail, ZeroedSoFar, DataOf, Run
  <2> QED
    BY <2>1, <2>2, <2>3, <2>4 DEF FsDetail, DenyCounted, UnlistedRemoved
<1> QED
  BY <1>1, <1>2, <1>3, <1>4, <1>5, <1>6, <1>7 DEF Next

LEMMA InitDetail == Init => FsDetail
<1> SUFFICES ASSUME Init PROVE FsDetail
  OBVIOUS
<1>1. \A s \in Sectors : Deniers(s) = {} /\ inodes[s].deny_write_cnt = 0
  BY ClosedFile DEF Init, Deniers, Openers, NotOpen
<1>2. OpenInodes = {}
  BY ClosedFile DEF Init, OpenInodes
<1>3. op.at = "idle"
  BY DEF Init, Idle
<1> QED
  BY <1>1, <1>2, <1>3, FS_EmptySet
  DEF FsDetail, DenyCounted, UnlistedRemoved, ZeroedSoFar

LEMMA DetailInvariant == Spec => []FsDetail
<1> QED
  BY InitDetail, NextDetail, FsInvariant, PTL DEF Spec

-----------------------------------------------------------------------------
(* The refinement of FsAbs.                                                *)

AbsStep == Fs!AbsNext \/ UNCHANGED Fs!absVars

\* The value of the refinement mapping.
LEMMA NamedIs ==
  ASSUME FsInv, NEW n \in Names
  PROVE  /\ \A i \in Listed(n) : NamedFile(n) = disk_dir[i].sector
         /\ Listed(n) = {} => NamedFile(n) = None
<1>1. ASSUME NEW i \in Listed(n) PROVE NamedFile(n) = disk_dir[i].sector
  <2>1. \A j \in Listed(n) : j = i
    BY ListedFile DEF FsInv, ListedOnce, Listed
  <2> QED
    BY <2>1 DEF NamedFile
<1>2. Listed(n) = {} => NamedFile(n) = None
  BY DEF NamedFile
<1> QED
  BY <1>1, <1>2

\* A name whose entry is as it was denotes what it did.
LEMMA NamedSame ==
  ASSUME FsInv, NEW n \in Names, Listed(n)' = Listed(n),
         \A i \in Listed(n) : disk_dir'[i] = disk_dir[i]
  PROVE  NamedFile(n)' = NamedFile(n)
<1>1. CASE Listed(n) = {}
  BY <1>1 DEF NamedFile
<1>2. CASE Listed(n) # {}
  <2>1. PICK i \in Listed(n)' : NamedFile(n)' = disk_dir'[i].sector
    BY <1>2 DEF NamedFile
  <2> QED
    BY <2>1, NamedIs
<1> QED
  BY <1>1, <1>2

LEMMA NamedListed ==
  ASSUME FsInv, NEW n \in Names
  PROVE  NamedFile(n) # None =>
           \E i \in Listed(n) : NamedFile(n) = disk_dir[i].sector
BY NamedIs

\* What is listed has a name.
LEMMA ListedNamed ==
  ASSUME FsInv, NEW s \in ListedInodes
  PROVE  \E n \in Names : NamedFile(n) = s
<1>1. PICK i \in Slots : disk_dir[i].sector = s
  BY DEF ListedInodes
<1>2. disk_dir[i].name \in Names
  BY <1>1 DEF ListedInodes, FsInv, TypeOK, Entries, NoEntry
<1>3. i \in Listed(disk_dir[i].name)
  BY <1>1 DEF Listed
<1> QED
  BY <1>1, <1>2, <1>3, NamedIs

\* The files of FsAbs are those that are listed or open.
LEMMA ExistsIs ==
  ASSUME FsInv, NEW s \in Sectors
  PROVE  Fs!Exists(s) <=> s \in Inodes
<1>1. ASSUME NEW n \in Names, NamedFile(n) = s PROVE s \in Inodes
  <2>1. PICK i \in Listed(n) : NamedFile(n) = disk_dir[i].sector
    BY <1>1, NamedListed, NoneIsNoSector
  <2> QED
    BY <1>1, <2>1, ListedFile
<1>2. s \in OpenInodes <=> \E h \in Handles : files[h].inode = s
  BY NoneIsNoSector DEF OpenInodes
<1> QED
  BY <1>1, <1>2, ListedNamed DEF Fs!Exists, Inodes

\* The contents of a file that is not written to.
LEMMA ContentsKept ==
  ASSUME NEW s \in Inodes, s \in Inodes',
         disk_inode'[s] = disk_inode[s],
         disk_inode[s].start \in Nat, disk_inode[s].length \in Nat,
         \A t \in DataOf(disk_inode[s]) : disk_data'[t] = disk_data[t]
  PROVE  Contents(s)' = Contents(s)
<1>1. \A i \in 1 .. disk_inode[s].length :
         disk_inode[s].start + i - 1 \in DataOf(disk_inode[s])
  BY DEF DataOf, Run
<1> QED
  BY <1>1 DEF Contents

\* Files that no longer exist are forgotten; the others are as they were.
LEMMA Forgets ==
  ASSUME FsInv, FsInv', UNCHANGED <<disk_inode, disk_data>>, Inodes' \subseteq Inodes
  PROVE  Fs!Forget
<1>1. ASSUME NEW s \in Sectors
      PROVE  Contents(s)' = IF s \in Inodes' THEN Contents(s) ELSE <<>>
  BY DEF Contents
<1>2. ASSUME NEW s \in Sectors PROVE Fs!Exists(s)' <=> s \in Inodes'
  <2>1. ASSUME NEW n \in Names, NamedFile(n)' = s PROVE s \in Inodes'
    <3>1. PICK i \in Listed(n)' : NamedFile(n)' = disk_dir'[i].sector
      BY <2>1, NoneIsNoSector DEF NamedFile
    <3> QED
      BY <2>1, <3>1, NoneIsNoSector DEF Listed, Inodes, ListedInodes
  <2>2. ASSUME s \in ListedInodes' PROVE \E n \in Names : NamedFile(n)' = s
    <3>1. PICK i \in Slots : disk_dir'[i].sector = s
      BY <2>2 DEF ListedInodes
    <3>2. PICK n \in Names : n = disk_dir'[i].name
      BY <3>1, NoneIsNoSector DEF FsInv, TypeOK, Entries, NoEntry
    <3>3. i \in Listed(n)'
      BY <3>2 DEF Listed
    <3>4. \A j \in Listed(n)' : j = i
      BY <3>1, <3>2, NoneIsNoSector DEF FsInv, ListedOnce, Listed, NoEntry
    <3> QED
      BY <3>1, <3>3, <3>4 DEF NamedFile
  <2>3. s \in OpenInodes' <=> \E h \in Handles : files'[h].inode = s
    BY NoneIsNoSector DEF OpenInodes
  <2> QED
    BY <2>1, <2>2, <2>3 DEF Fs!Exists, Inodes
<1> QED
  BY <1>1, <1>2 DEF Fs!Forget

\* A step that changes neither names nor handles nor what is in a file.
LEMMA SameView ==
  ASSUME FsInv, UNCHANGED <<disk_dir, files>>,
         \A s \in Inodes : /\ disk_inode'[s] = disk_inode[s]
                           /\ \A t \in DataOf(disk_inode[s]) :
                                 disk_data'[t] = disk_data[t]
  PROVE  AbsStep
<1>1. \A n : NamedFile(n)' = NamedFile(n)
  BY DEF NamedFile, Listed
<1>2. Inodes' = Inodes
  BY DEF Inodes, ListedInodes, OpenInodes
<1>3. \A s \in Sectors : Contents(s)' = Contents(s)
  <2>1. ASSUME NEW s \in Sectors, s \in Inodes PROVE Contents(s)' = Contents(s)
    <3>1. disk_inode[s].start \in Nat /\ disk_inode[s].length \in Nat
      BY DEF FsInv, TypeOK
    <3> QED
      BY <1>2, <2>1, <3>1, ContentsKept
  <2>2. ASSUME NEW s \in Sectors, s \notin Inodes PROVE Contents(s)' = Contents(s)
    BY <1>2, <2>2 DEF Contents
  <2> QED
    BY <2>1, <2>2
<1>4. UNCHANGED Fs!fsVars
  BY <1>1, <1>3 DEF Fs!fsVars
<1>5. (op # Idle)' \in BOOLEAN
  OBVIOUS
<1> QED
  BY <1>4, <1>5 DEF AbsStep, Fs!AbsNext

\* The directory does not change: names denote what they did.
LEMMA SameNames ==
  ASSUME UNCHANGED disk_dir
  PROVE  [n \in Names |-> NamedFile(n)]' = [n \in Names |-> NamedFile(n)]
BY DEF NamedFile, Listed

\* Of filesys_create only dir_add is seen; the sectors written before are in no
\* file.
LEMMA CreateStutters ==
  ASSUME FsInv, FsDetail,
         \/ \E n \in Names, len \in Lengths : Create(n, len)
         \/ CreateData \/ CreateNoRoom \/ CreateWrite \/ CreateZero
         \/ CreateExists \/ CreateUndo \/ FreeInode \/ FreeData
  PROVE  AbsStep
<1>1. CASE CreateWrite
  <2>1. /\ op.at = "write"
        /\ disk_inode' = [disk_inode EXCEPT ![op.sector] =
                              [start |-> op.start, length |-> op.length]]
        /\ UNCHANGED <<disk_dir, files, disk_data>>
    BY <1>1 DEF CreateWrite, memVars
  <2>2. op.sector \in Holds
    BY <2>1 DEF Holds
  <2>3. op.sector \notin Inodes
    BY <2>1, <2>2 DEF FsInv, HoldsApart, SectorsOf, Busy
  <2>4. \A s \in Inodes : disk_inode'[s] = disk_inode[s]
    BY <2>1, <2>3 DEF FsInv, TypeOK
  <2> QED
    BY <2>1, <2>4, SameView
<1>2. CASE CreateZero
  <2>1. PICK s \in op.todo : disk_data' = [disk_data EXCEPT ![s] = Zero]
    BY <1>2 DEF CreateZero
  <2>2. op.at = "zero" /\ UNCHANGED <<disk_dir, files, disk_inode>>
    BY <1>2 DEF CreateZero, memVars
  <2>3. s \in Holds
    BY <2>1, <2>2 DEF FsDetail, ZeroedSoFar, Holds, SectorsOf
  <2>4. \A r \in Inodes : s \notin DataOf(disk_inode[r])
    BY <2>2, <2>3 DEF FsInv, HoldsApart, SectorsOf, Busy
  <2>5. \A r \in Inodes : \A t \in DataOf(disk_inode[r]) :
           disk_data'[t] = disk_data[t]
    BY <2>1, <2>4 DEF FsInv, TypeOK
  <2> QED
    BY <2>2, <2>5, SameView
<1>3. CASE \/ \E n \in Names, len \in Lengths : Create(n, len)
           \/ CreateData \/ CreateNoRoom \/ CreateExists \/ CreateUndo
           \/ FreeInode \/ FreeData
  <2>1. UNCHANGED <<disk_dir, files, disk_inode, disk_data>>
    BY <1>3 DEF Create, CreateData, CreateNoRoom, CreateExists, CreateUndo,
                FreeInode, FreeData, diskVars, memVars
  <2> QED
    BY <2>1, SameView
<1> QED
  BY <1>1, <1>2, <1>3

\* dir_add is the step at which a file comes to be, of zeros.
LEMMA CreateAddMaps == ASSUME FsInv, FsDetail, CreateAdd PROVE AbsStep
<1>1. PICK i \in Listed(None) :
         disk_dir' = [disk_dir EXCEPT ![i] = [name |-> op.name,
                                              sector |-> op.sector]]
  BY DEF CreateAdd
<1>2. /\ op.at = "zero" /\ op.todo = {} /\ Listed(op.name) = {}
      /\ UNCHANGED <<disk_inode, disk_data, files>>
  BY DEF CreateAdd, memVars
<1>3. PICK n \in Names, s \in Sectors : n = op.name /\ s = op.sector
  BY <1>2, CallFields DEF FsInv, TypeOK, Idle
<1>4. i \in Slots /\ disk_dir[i] = NoEntry
  BY <1>1, FsConstants DEF Listed, FsInv, TypeOK, Entries, NoEntry, None
<1>5. \A j \in Slots : disk_dir'[j] = IF j = i THEN [name |-> n, sector |-> s]
                                     ELSE disk_dir[j]
  BY <1>1, <1>3, <1>4 DEF FsInv, TypeOK
<1>6. s \notin Inodes
  <2>1. s \in Holds
    BY <1>2, <1>3 DEF Holds, SectorsOf
  <2> QED
    BY <1>2, <2>1 DEF FsInv, HoldsApart, SectorsOf, Busy
<1>7. Listed(n)' = {i}
  BY <1>2, <1>3, <1>4, <1>5 DEF Listed
<1>8. \A m \in Names \ {n} : Listed(m)' = Listed(m) /\ i \notin Listed(m)
  <2>1. NoEntry.name = None /\ None \notin Names
    BY FsConstants DEF NoEntry, None
  <2> QED
    BY <1>3, <1>4, <1>5, <2>1 DEF Listed
<1>9. NamedFile(n)' = s /\ NamedFile(n) = None
  BY <1>2, <1>3, <1>5, <1>7 DEF NamedFile, Listed
<1>10. \A m \in Names \ {n} : NamedFile(m)' = NamedFile(m)
  <2> SUFFICES ASSUME NEW m \in Names \ {n} PROVE NamedFile(m)' = NamedFile(m)
    OBVIOUS
  <2>1. \A j \in Listed(m) : disk_dir'[j] = disk_dir[j]
    BY <1>5, <1>8 DEF Listed
  <2> QED
    BY <1>8, <2>1, NamedSame
<1>11. Inodes' = Inodes \cup {s}
  <2>1. ListedInodes' = ListedInodes \cup {s}
    BY <1>3, <1>4, <1>5, NoneIsNoSector DEF ListedInodes, NoEntry
  <2>2. OpenInodes' = OpenInodes
    BY <1>2 DEF OpenInodes
  <2> QED
    BY <2>1, <2>2 DEF Inodes
<1>12. PICK len \in Lengths : len = disk_inode[s].length
  BY <1>2, <1>3 DEF FsDetail, ZeroedSoFar
<1>13. Contents(s)' = [k \in 1 .. len |-> Zero]
  <2>1. disk_inode[s].start \in Nat /\ len \in Nat
    BY <1>12, FsConstants DEF FsInv, TypeOK
  <2>2. \A t \in DataOf(disk_inode[s]) : disk_data[t] = Zero
    BY <1>2, <1>3 DEF FsDetail, ZeroedSoFar
  <2>3. \A k \in 1 .. len : disk_inode[s].start + k - 1 \in DataOf(disk_inode[s])
    BY <1>12, <2>1 DEF DataOf, Run
  <2>4. \A k \in 1 .. len : disk_data[disk_inode[s].start + k - 1] = Zero
    BY <2>2, <2>3
  <2>5. Contents(s)' = [k \in 1 .. disk_inode[s].length |->
                          disk_data[disk_inode[s].start + k - 1]]
    BY <1>2, <1>11 DEF Contents
  <2> QED
    BY <1>12, <2>4, <2>5
<1>14. \A t \in Sectors \ {s} : Contents(t)' = Contents(t)
  BY <1>2, <1>11 DEF Contents
<1>15. Fs!Create(n)
  <2>1. ~Fs!Exists(s)
    BY <1>6, ExistsIs
  <2>2. [m \in Names |-> NamedFile(m)]' =
          [[m \in Names |-> NamedFile(m)] EXCEPT ![n] = s]
    BY <1>9, <1>10
  <2>3. [t \in Sectors |-> Contents(t)]' =
          [[t \in Sectors |-> Contents(t)] EXCEPT ![s] = [k \in 1 .. len |-> Zero]]
    BY <1>13, <1>14
  <2> QED
    BY <1>2, <1>9, <2>1, <2>2, <2>3 DEF Fs!Create
<1>16. (op # Idle)' \in BOOLEAN
  OBVIOUS
<1> QED
  BY <1>15, <1>16 DEF AbsStep, Fs!AbsNext

LEMMA OpenMaps ==
  ASSUME FsInv, NEW h \in Handles,
         \/ \E n \in Names : Open(h, n)
         \/ \E g \in Handles : Reopen(h, g)
  PROVE  AbsStep
<1>1. PICK s \in Sectors :
           /\ s \in Inodes /\ op = Idle /\ files[h] = Closed
           /\ inodes' = Opened(s)
           /\ files' = [files EXCEPT ![h] = [inode |-> s, deny_write |-> FALSE]]
           /\ OpenInodes' = OpenInodes \cup {s}
           /\ UNCHANGED <<diskVars, free_map, op>>
  BY OpenEffect
<1>2. \A g \in Handles : files'[g] = IF g = h THEN [inode |-> s, deny_write |-> FALSE]
                                     ELSE files[g]
  BY <1>1 DEF FsInv, TypeOK
<1>3. Inodes' = Inodes
  BY <1>1 DEF Inodes, ListedInodes, diskVars
<1>4. \A t : Contents(t)' = Contents(t)
  BY <1>1, <1>3 DEF Contents, diskVars
<1>5. Fs!Open(h)
  <2>1. [g \in Handles |-> files[g].inode]' =
          [[g \in Handles |-> files[g].inode] EXCEPT ![h] = s]
    <3>1. \A g \in Handles : files'[g].inode = IF g = h THEN s ELSE files[g].inode
      BY <1>2
    <3> QED
      BY <3>1
  <2>2. {g \in Handles : files[g].deny_write}' = {g \in Handles : files[g].deny_write}
    BY <1>1, <1>2, ClosedFile
  <2>3. [n \in Names |-> NamedFile(n)]' = [n \in Names |-> NamedFile(n)]
    BY <1>1, SameNames DEF diskVars
  <2>4. Fs!Exists(s)
    BY <1>1, ExistsIs
  <2> QED
    BY <1>1, <1>4, <2>1, <2>2, <2>3, <2>4, ClosedFile DEF Fs!Open
<1>6. (op # Idle)' \in BOOLEAN
  OBVIOUS
<1> QED
  BY <1>5, <1>6 DEF AbsStep, Fs!AbsNext

LEMMA CloseMaps == ASSUME FsInv, NEW h \in Handles, Close(h) PROVE AbsStep
<1>1. PICK s : s = files[h].inode
  OBVIOUS
<1>2. /\ files[h] # Closed /\ s \in Sectors
      /\ UNCHANGED <<diskVars, free_map>>
      /\ files' = [files EXCEPT ![h] = Closed]
  BY <1>1, CloseEffect
<1>3. \A g \in Handles : files'[g] = IF g = h THEN Closed ELSE files[g]
  BY <1>2 DEF FsInv, TypeOK
<1>4. Inodes' \subseteq Inodes
  <2>1. OpenInodes' \subseteq OpenInodes
    BY <1>3, ClosedFile DEF OpenInodes
  <2> QED
    BY <1>2, <2>1 DEF Inodes, ListedInodes, diskVars
<1>5. Fs!Forget
  BY <1>2, <1>4, CloseKeeps, Forgets DEF diskVars
<1>6. Fs!Close(h)
  <2>1. [g \in Handles |-> files[g].inode]' =
          [[g \in Handles |-> files[g].inode] EXCEPT ![h] = None]
    BY <1>3, ClosedFile
  <2>2. {g \in Handles : files[g].deny_write}' =
          {g \in Handles : files[g].deny_write} \ {h}
    BY <1>3, ClosedFile
  <2>3. [n \in Names |-> NamedFile(n)]' = [n \in Names |-> NamedFile(n)]
    BY <1>2, SameNames DEF diskVars
  <2> QED
    BY <1>1, <1>2, <1>5, <2>1, <2>2, <2>3, NoneIsNoSector DEF Fs!Close
<1>7. (op # Idle)' \in BOOLEAN
  OBVIOUS
<1> QED
  BY <1>6, <1>7 DEF AbsStep, Fs!AbsNext

\* The entry is erased: the file is forgotten unless somebody has it open.
LEMMA RemoveMaps == ASSUME FsInv, NEW n \in Names, Remove(n) PROVE AbsStep
<1>1. PICK i \in Listed(n), s \in Sectors :
           /\ s = disk_dir[i].sector
           /\ UNCHANGED <<disk_map, disk_inode, disk_data, free_map, files>>
           /\ i \in Slots /\ disk_dir' = [disk_dir EXCEPT ![i] = NoEntry]
           /\ ListedInodes' = ListedInodes \ {s}
  BY RemoveEffect
<1>2. \A j \in Slots : disk_dir'[j] = IF j = i THEN NoEntry ELSE disk_dir[j]
  BY <1>1 DEF FsInv, TypeOK
<1>3. NoEntry.name = None /\ None \notin Names
  BY FsConstants DEF NoEntry, None
<1>4. \A j \in Listed(n) : j = i
  BY ListedFile DEF FsInv, ListedOnce, Listed
<1>5. Listed(n)' = {}
  BY <1>2, <1>3, <1>4 DEF Listed
<1>6. \A m \in Names \ {n} : Listed(m)' = Listed(m) /\ i \notin Listed(m)
  BY <1>1, <1>2, <1>3 DEF Listed
<1>7. NamedFile(n) = s /\ NamedFile(n)' = None
  BY <1>1, <1>5, NamedIs DEF NamedFile
<1>8. \A m \in Names \ {n} : NamedFile(m)' = NamedFile(m)
  <2> SUFFICES ASSUME NEW m \in Names \ {n} PROVE NamedFile(m)' = NamedFile(m)
    OBVIOUS
  <2>1. \A j \in Listed(m) : disk_dir'[j] = disk_dir[j]
    BY <1>2, <1>6 DEF Listed
  <2> QED
    BY <1>6, <2>1, NamedSame
<1>9. Inodes' \subseteq Inodes
  BY <1>1 DEF Inodes, OpenInodes
<1>10. Fs!Forget
  BY <1>1, <1>9, RemoveKeeps, Forgets
<1>11. Fs!Remove(n)
  <2>1. [m \in Names |-> NamedFile(m)]' =
          [[m \in Names |-> NamedFile(m)] EXCEPT ![n] = None]
    BY <1>7, <1>8
  <2> QED
    BY <1>1, <1>7, <1>10, <2>1, NoneIsNoSector DEF Fs!Remove
<1>12. (op # Idle)' \in BOOLEAN
  OBVIOUS
<1> QED
  BY <1>11, <1>12 DEF AbsStep, Fs!AbsNext

\* D is C with one value of the part at t replaced.
WrittenAt(C, D, t) == \E j \in DOMAIN C[t], w \in Values : D = [C EXCEPT ![t][j] = w]

\* An update of C at s and k is an update at whatever equals s.
LEMMA NestedExcept ==
  ASSUME NEW C, NEW D, NEW s, NEW t, NEW k, NEW v \in Values, t = s,
         k \in DOMAIN C[s], D = [C EXCEPT ![s][k] = v]
  PROVE  WrittenAt(C, D, t)
BY DEF WrittenAt

\* A write changes one sector of the file, because no other file has it, and
\* none if anybody denies writes, because they are counted.
LEMMA WriteMaps == ASSUME FsInv, FsDetail, NEW h \in Handles, Write(h) PROVE AbsStep
<1>1. PICK s : s = files[h].inode
  OBVIOUS
<1>2. PICK t \in DataOf(disk_inode[s]), v \in Values :
         disk_data' = [disk_data EXCEPT ![t] = v]
  BY <1>1 DEF Write
<1>3. /\ op = Idle /\ op' = Idle /\ files[h] # Closed
      /\ inodes[s].deny_write_cnt = 0
      /\ UNCHANGED <<disk_dir, disk_inode, files>>
  BY <1>1 DEF Write, memVars
<1>4. s \in Sectors /\ s \in Inodes /\ s # None
  BY <1>1, <1>3, OpenFile
<1>5. disk_inode[s].start \in Nat /\ disk_inode[s].length \in Nat
  BY <1>4 DEF FsInv, TypeOK
<1>6. PICK k \in 1 .. disk_inode[s].length : t = disk_inode[s].start + k - 1
  <2>1. t - disk_inode[s].start + 1 \in 1 .. disk_inode[s].length
        /\ t = disk_inode[s].start + (t - disk_inode[s].start + 1) - 1
    BY <1>2, <1>5 DEF DataOf, Run
  <2> QED
    BY <2>1
<1>7. t \in Sectors
  BY <1>2, <1>4 DEF FsInv, FilesApart, SectorsOf, TypeOK
<1>8. \A r \in Sectors : disk_data'[r] = IF r = t THEN v ELSE disk_data[r]
  BY <1>2, <1>7 DEF FsInv, TypeOK
<1>9. Inodes' = Inodes
  BY <1>3 DEF Inodes, ListedInodes, OpenInodes
<1>10. \A r \in Inodes : DataOf(disk_inode[r]) \subseteq Sectors
  BY DEF FsInv, FilesApart, SectorsOf, TypeOK
<1>11. \A r \in Sectors \ {s} : Contents(r)' = Contents(r)
  <2> SUFFICES ASSUME NEW r \in Sectors \ {s} PROVE Contents(r)' = Contents(r)
    OBVIOUS
  <2>1. CASE r \in Inodes
    <3>1. t \notin DataOf(disk_inode[r])
      BY <1>2, <1>4, <2>1 DEF FsInv, FilesApart, SectorsOf
    <3>2. \A q \in DataOf(disk_inode[r]) : disk_data'[q] = disk_data[q]
      BY <1>8, <1>10, <2>1, <3>1
    <3>3. disk_inode[r].start \in Nat /\ disk_inode[r].length \in Nat
      BY DEF FsInv, TypeOK
    <3> QED
      BY <1>3, <1>9, <2>1, <3>2, <3>3, ContentsKept
  <2>2. CASE r \notin Inodes
    BY <1>9, <2>2 DEF Contents
  <2> QED
    BY <2>1, <2>2
<1>12. Contents(s) = [j \in 1 .. disk_inode[s].length |->
                        disk_data[disk_inode[s].start + j - 1]]
       /\ Contents(s)' = [j \in 1 .. disk_inode[s].length |->
                        disk_data'[disk_inode[s].start + j - 1]]
  BY <1>3, <1>4, <1>9 DEF Contents
<1>13. Contents(s)' = [Contents(s) EXCEPT ![k] = v]
  <2>1. \A j \in 1 .. disk_inode[s].length :
           disk_inode[s].start + j - 1 \in DataOf(disk_inode[s])
    BY <1>5 DEF DataOf, Run
  <2>2. \A j \in 1 .. disk_inode[s].length :
           disk_data'[disk_inode[s].start + j - 1] =
             IF j = k THEN v ELSE disk_data[disk_inode[s].start + j - 1]
    BY <1>4, <1>5, <1>6, <1>8, <1>10, <2>1
  <2> QED
    BY <1>12, <2>2
<1>14. \A g \in Handles : files[g].deny_write => files[g].inode # s
  <2>1. Deniers(s) = {}
    BY <1>3, <1>4, DeniersFinite DEF FsDetail, DenyCounted
  <2> QED
    BY <2>1 DEF Deniers, Openers
<1>15. Fs!Write(h)
  <2>1. k \in DOMAIN Contents(s)
    BY <1>12
  <2>2. [r \in Sectors |-> Contents(r)]' =
          [[r \in Sectors |-> Contents(r)] EXCEPT ![s][k] = v]
    BY <1>4, <1>11, <1>13
  <2>3. [n \in Names |-> NamedFile(n)]' = [n \in Names |-> NamedFile(n)]
    BY <1>3, SameNames
  <2>4. [r \in Sectors |-> Contents(r)][s] = Contents(s)
    BY <1>4
  <2>5. [g \in Handles |-> files[g].inode][h] = s
    BY <1>1
  <2>6. \A g \in {f \in Handles : files[f].deny_write} :
           [f \in Handles |-> files[f].inode][g] # s
    BY <1>14
  <2>7. /\ [g \in Handles |-> files[g].inode]' = [g \in Handles |-> files[g].inode]
        /\ {g \in Handles : files[g].deny_write}' = {g \in Handles : files[g].deny_write}
    BY <1>3
  <2>8. \E j \in DOMAIN [r \in Sectors |-> Contents(r)][[g \in Handles |-> files[g].inode][h]],
           w \in Values :
          [r \in Sectors |-> Contents(r)]' =
            [[r \in Sectors |-> Contents(r)]
                EXCEPT ![[g \in Handles |-> files[g].inode][h]][j] = w]
    <3>1. PICK C : C = [r \in Sectors |-> Contents(r)]
      OBVIOUS
    <3>2. PICK D : D = [r \in Sectors |-> Contents(r)]'
      OBVIOUS
    <3>3. PICK o : o = [g \in Handles |-> files[g].inode][h]
      OBVIOUS
    <3>4. WrittenAt(C, D, o)
      <4>1. o = s /\ k \in DOMAIN C[s]
        BY <2>1, <2>4, <2>5, <3>1, <3>3
      <4>2. D = [C EXCEPT ![s][k] = v]
        BY <2>2, <3>1, <3>2
      <4> QED
        BY ONLY <1>2, <4>1, <4>2, NestedExcept
    <3>5. WrittenAt([r \in Sectors |-> Contents(r)], [r \in Sectors |-> Contents(r)]',
                    [g \in Handles |-> files[g].inode][h])
      BY ONLY <3>1, <3>2, <3>3, <3>4
    <3> QED
      BY <3>5 DEF WrittenAt
  <2>9. \A g \in {f \in Handles : files[f].deny_write} :
           [f \in Handles |-> files[f].inode][g] # [f \in Handles |-> files[f].inode][h]
    BY <2>5, <2>6
  <2>10. [f \in Handles |-> files[f].inode][h] # None
    BY <1>4, <2>5
  <2> QED
    BY <1>3, <2>3, <2>7, <2>8, <2>9, <2>10 DEF Fs!Write
<1>16. (op # Idle)' \in BOOLEAN
  OBVIOUS
<1> QED
  BY <1>15, <1>16 DEF AbsStep, Fs!AbsNext

LEMMA DenyMaps ==
  ASSUME FsInv, NEW h \in Handles, DenyWrite(h) \/ AllowWrite(h)
  PROVE  AbsStep
<1>1. PICK d \in BOOLEAN :
        /\ files' = [files EXCEPT ![h].deny_write = d] /\ files[h] # Closed
        /\ UNCHANGED <<diskVars, free_map, op>>
  BY ClosedFile DEF DenyWrite, AllowWrite
<1>2. files[h] \in [inode : Sectors, deny_write : BOOLEAN] /\ files[h].inode # None
  BY <1>1, OpenFile
<1>3. \A g \in Handles : /\ files'[g].inode = files[g].inode
                         /\ files'[g].deny_write = IF g = h THEN d
                                                   ELSE files[g].deny_write
  BY <1>1, <1>2 DEF FsInv, TypeOK
<1>4. Inodes' = Inodes
  BY <1>1, <1>3 DEF Inodes, ListedInodes, OpenInodes, diskVars
<1>5. \A s : Contents(s)' = Contents(s)
  BY <1>1, <1>4 DEF Contents, diskVars
<1>6. Fs!Deny(h)
  <2>1. {g \in Handles : files[g].deny_write}' =
          IF d THEN {g \in Handles : files[g].deny_write} \cup {h}
          ELSE {g \in Handles : files[g].deny_write} \ {h}
    BY <1>3
  <2>2. [n \in Names |-> NamedFile(n)]' = [n \in Names |-> NamedFile(n)]
    BY <1>1, SameNames DEF diskVars
  <2>3. [g \in Handles |-> files[g].inode]' = [g \in Handles |-> files[g].inode]
    BY <1>3
  <2> QED
    BY <1>2, <1>5, <2>1, <2>2, <2>3 DEF Fs!Deny
<1>7. (op # Idle)' \in BOOLEAN
  OBVIOUS
<1> QED
  BY <1>6, <1>7 DEF AbsStep, Fs!AbsNext

LEMMA RebootMaps == ASSUME FsInv, Reboot PROVE AbsStep
<1>1. /\ files' = [h \in Handles |-> Closed] /\ UNCHANGED diskVars
  BY DEF Reboot
<1>2. Inodes' \subseteq Inodes
  BY <1>1, ClosedFile DEF Inodes, ListedInodes, OpenInodes, diskVars
<1>3. Fs!Forget
  BY <1>1, <1>2, RebootKeeps, Forgets DEF diskVars
<1>4. Fs!Crash
  <2>1. [g \in Handles |-> files[g].inode]' = [g \in Handles |-> None]
    BY <1>1, ClosedFile
  <2>2. {g \in Handles : files[g].deny_write}' = {}
    BY <1>1, ClosedFile
  <2>3. [n \in Names |-> NamedFile(n)]' = [n \in Names |-> NamedFile(n)]
    BY <1>1, SameNames DEF diskVars
  <2> QED
    BY <1>3, <2>1, <2>2, <2>3 DEF Fs!Crash
<1>5. (op # Idle)' \in BOOLEAN
  OBVIOUS
<1> QED
  BY <1>4, <1>5 DEF AbsStep, Fs!AbsNext

\* RefinesFs: names, handles and contents are what the callers of the file
\* system expect, also when a name is removed and used again, a sector freed and
\* given to another file, and when the power fails in the middle of a call.
THEOREM FsRefines == Spec => RefinesFs
<1>1. Init => Fs!AbsInit
  <2> SUFFICES ASSUME Init PROVE Fs!AbsInit
    OBVIOUS
  <2>1. Inodes = {}
    BY ClosedFile DEF Init, Inodes, ListedInodes, OpenInodes, NoEntry
  <2>2. \A n \in Names : NamedFile(n) = None
    <3>1. \A n \in Names : Listed(n) = {}
      BY FsConstants DEF Init, Listed, NoEntry, None
    <3> QED
      BY <3>1 DEF NamedFile
  <2> QED
    BY <2>1, <2>2, ClosedFile DEF Init, Fs!AbsInit, Contents
<1>2. FsInv /\ FsDetail /\ [Next]_vars => AbsStep
  <2> SUFFICES ASSUME FsInv, FsDetail, [Next]_vars PROVE AbsStep
    OBVIOUS
  <2>1. CASE \/ \E n \in Names, len \in Lengths : Create(n, len)
             \/ CreateStep \/ FreeInode \/ FreeData
    BY <2>1, CreateStutters, CreateAddMaps DEF CreateStep
  <2>2. CASE RemoveInode \/ UNCHANGED vars
    <3>1. UNCHANGED <<disk_dir, files, disk_inode, disk_data>>
      BY <2>2 DEF RemoveInode, vars, diskVars, memVars
    <3> QED
      BY <3>1, SameView
  <2>3. ASSUME NEW n \in Names, Remove(n) PROVE AbsStep
    BY <2>3, RemoveMaps
  <2>4. ASSUME NEW h \in Handles,
               \/ Close(h) \/ Write(h) \/ DenyWrite(h) \/ AllowWrite(h)
               \/ \E n \in Names : Open(h, n)
               \/ \E g \in Handles : Reopen(h, g)
        PROVE  AbsStep
    BY <2>4, CloseMaps, WriteMaps, DenyMaps, OpenMaps
  <2>5. CASE Reboot
    BY <2>5, RebootMaps
  <2> QED
    BY <2>1, <2>2, <2>3, <2>4, <2>5 DEF Next
<1>3. FsInv /\ FsDetail /\ [Next]_vars => [Fs!AbsNext]_(Fs!absVars)
  BY <1>2 DEF AbsStep
<1> QED
  BY <1>1, <1>3, FsInvariant, DetailInvariant, PTL DEF Spec, RefinesFs, Fs!AbsSpec

-----------------------------------------------------------------------------
(* Which sectors are lost.                                                 *)

InFile(x) == \E s \in Inodes : x \in SectorsOf(s)
Keeps == Lost' = Lost

LEMMA LostIs == \A x : x \in Lost <=> x \in free_map /\ x \notin Holds /\ ~InFile(x)
BY DEF Lost, InFile

\* A sector stays lost, or not, if what marks it and who has it do not change.
LEMMA KeepsLost ==
  ASSUME \A x : (x \in free_map /\ x \notin Holds /\ ~InFile(x))
                  <=> (x \in free_map' /\ x \notin Holds' /\ ~InFile(x)')
  PROVE  Keeps
<1>1. \A x : x \in Lost' <=> x \in free_map' /\ x \notin Holds' /\ ~InFile(x)'
  BY DEF Lost, InFile
<1> QED
  BY <1>1, LostIs DEF Keeps

\* The files have the sectors they had.
LEMMA SameInFile ==
  ASSUME Inodes' = Inodes, \A s \in Inodes : SectorsOf(s)' = SectorsOf(s)
  PROVE  \A x : InFile(x)' <=> InFile(x)
BY DEF InFile

LEMMA SectorsKept ==
  ASSUME UNCHANGED disk_inode
  PROVE  \A s : SectorsOf(s)' = SectorsOf(s)
BY DEF SectorsOf, DataOf, Run

LEMMA IdleHolds == op = Idle => Holds = {}
BY DEF Holds, Idle

\* The sectors that a create takes are free; they were marked by nobody.
LEMMA TakesFree ==
  ASSUME NEW R, NEW Q, Holds = Q, Holds' = Q \cup R, R \cap free_map = {},
         free_map' = free_map \cup R, \A x : InFile(x)' <=> InFile(x)
  PROVE  Keeps
BY KeepsLost

\* The sectors that a call gives back were its own, and are marked no more.
LEMMA GivesBack ==
  ASSUME NEW R, NEW Q, Holds = Q \cup R, Holds' = Q,
         free_map' = free_map \ R, \A x : InFile(x)' <=> InFile(x)
  PROVE  Keeps
BY KeepsLost

\* The call under way holds what it held.
LEMMA HoldsOn ==
  ASSUME Holds' = Holds, UNCHANGED free_map, \A x : InFile(x)' <=> InFile(x)
  PROVE  Keeps
BY KeepsLost

\* A file goes from the call under way to the files, or back.
LEMMA HandsOver ==
  ASSUME UNCHANGED free_map,
         \A x : (x \in Holds \/ InFile(x)) <=> (x \in Holds' \/ InFile(x)')
  PROVE  Keeps
BY KeepsLost

LEMMA CreateKeepsLost ==
  ASSUME FsInv, NEW n \in Names, NEW len \in Lengths, Create(n, len)
  PROVE  Keeps
<1>1. PICK s \in Sectors :
         /\ FirstFit(s, 1) /\ Allocate({s})
         /\ op' = [at |-> "inode", name |-> n, sector |-> s, length |-> len]
  BY DEF Create
<1>2. op = Idle /\ UNCHANGED <<disk_dir, disk_inode, disk_data, inodes, files>>
  BY DEF Create
<1>3. Holds = {} /\ Holds' = {} \cup {s}
  BY <1>1, <1>2, IdleHolds DEF Holds
<1>4. s \notin free_map
  <2>1. s \in Run(s, 1)
    BY DEF Run, Sectors
  <2> QED
    BY <1>1, <2>1 DEF FirstFit, IsFree
<1>5. free_map' = free_map \cup {s}
  BY <1>1 DEF Allocate
<1>6. Inodes' = Inodes
  BY <1>2 DEF Inodes, ListedInodes, OpenInodes
<1>7. \A x : InFile(x)' <=> InFile(x)
  BY <1>2, <1>6, SectorsKept, SameInFile
<1> QED
  BY <1>3, <1>4, <1>5, <1>7, TakesFree

LEMMA CreateDataKeepsLost == ASSUME FsInv, CreateData PROVE Keeps
<1>1. PICK start \in Sectors \cup {None} :
         /\ FirstFit(start, op.length) /\ Allocate(Run(start, op.length))
         /\ op' = [at |-> "write", name |-> op.name, sector |-> op.sector,
                   start |-> start, length |-> op.length]
  BY DEF CreateData
<1>2. op.at = "inode" /\ UNCHANGED <<disk_dir, disk_inode, disk_data, inodes, files>>
  BY DEF CreateData
<1>3. Holds = {op.sector} /\ Holds' = {op.sector} \cup Run(start, op.length)
  BY <1>1, <1>2 DEF Holds, Run
<1>4. Run(start, op.length) \cap free_map = {}
  <2>1. CASE op.length = 0
    BY <1>1, <2>1 DEF FirstFit, Run, None
  <2>2. CASE op.length # 0
    BY <1>1, <2>2 DEF FirstFit, IsFree
  <2> QED
    BY <2>1, <2>2
<1>5. free_map' = free_map \cup Run(start, op.length)
  BY <1>1 DEF Allocate
<1>6. Inodes' = Inodes
  BY <1>2 DEF Inodes, ListedInodes, OpenInodes
<1>7. \A x : InFile(x)' <=> InFile(x)
  BY <1>2, <1>6, SectorsKept, SameInFile
<1> QED
  BY <1>3, <1>4, <1>5, <1>7, TakesFree

\* The inode that is written is that of no file yet.
LEMMA CreateWriteKeepsLost == ASSUME FsInv, CreateWrite PROVE Keeps
<1>1. /\ op.at = "write"
      /\ disk_inode' = [disk_inode EXCEPT ![op.sector] =
                            [start |-> op.start, length |-> op.length]]
      /\ op' = [at |-> "zero", name |-> op.name, sector |-> op.sector,
                todo |-> Run(op.start, op.length)]
      /\ UNCHANGED <<disk_map, disk_dir, disk_data, memVars>>
  BY DEF CreateWrite, ToZero
<1>2. Holds = {op.sector} \cup Run(op.start, op.length)
  BY <1>1 DEF Holds
<1>3. op.sector \in Sectors
  BY <1>1, CallFields DEF FsInv, TypeOK, Idle
<1>4. op.sector \notin Inodes
  BY <1>1, <1>2 DEF FsInv, HoldsApart, Busy, SectorsOf
<1>5. \A s \in Inodes : disk_inode'[s] = disk_inode[s]
  BY <1>1, <1>4 DEF FsInv, TypeOK, FilesApart, SectorsOf
<1>6. Inodes' = Inodes
  BY <1>1 DEF Inodes, ListedInodes, OpenInodes, memVars
<1>7. \A x : InFile(x)' <=> InFile(x)
  <2>1. \A s \in Inodes : SectorsOf(s)' = SectorsOf(s)
    BY <1>5 DEF SectorsOf, DataOf, Run
  <2> QED
    BY <1>6, <2>1, SameInFile
<1>8. Holds' = Holds
  <2>1. disk_inode'[op.sector] = [start |-> op.start, length |-> op.length]
    BY <1>1, <1>3 DEF FsInv, TypeOK
  <2>2. Holds' = {op.sector} \cup Run(op.start, op.length)
    BY <1>1, <2>1 DEF Holds, SectorsOf, DataOf, Run
  <2> QED
    BY <1>2, <2>2
<1> QED
  BY <1>1, <1>7, <1>8, HoldsOn DEF memVars

\* The steps of a create that neither take nor give.
LEMMA CreateQuietKeepsLost ==
  ASSUME FsInv, CreateNoRoom \/ CreateZero
  PROVE  Keeps
<1>1. UNCHANGED <<disk_dir, disk_inode, free_map, inodes, files>>
  BY DEF CreateNoRoom, CreateZero, diskVars, memVars
<1>2. Holds' = Holds
  <2>1. CASE CreateNoRoom
    BY <2>1 DEF CreateNoRoom, Holds
  <2>2. CASE CreateZero
    <3>1. op.at = "zero" /\ op'.at = "zero" /\ op'.sector = op.sector
      <4>1. op \in [at : {"zero"}, name : Names, sector : Sectors, todo : SUBSET Sectors]
        BY <2>2, CallFields DEF CreateZero, FsInv, TypeOK
      <4> QED
        BY <2>2, <4>1 DEF CreateZero
    <3> QED
      BY <1>1, <3>1, SectorsKept DEF Holds
  <2> QED
    BY <2>1, <2>2
<1>3. Inodes' = Inodes
  BY <1>1 DEF Inodes, ListedInodes, OpenInodes
<1>4. \A x : InFile(x)' <=> InFile(x)
  BY <1>1, <1>3, SectorsKept, SameInFile
<1> QED
  BY <1>1, <1>2, <1>4, HoldsOn

\* The call hands the new file to the directory.
LEMMA CreateAddKeepsLost == ASSUME FsInv, CreateAdd PROVE Keeps
<1>1. PICK i \in Listed(None) :
         disk_dir' = [disk_dir EXCEPT ![i] = [name |-> op.name,
                                              sector |-> op.sector]]
  BY DEF CreateAdd
<1>2. /\ op.at = "zero" /\ op' = Idle
      /\ UNCHANGED <<disk_inode, free_map, inodes, files>>
  BY DEF CreateAdd, memVars
<1>3. PICK s \in Sectors : s = op.sector
  BY <1>2, CallFields DEF FsInv, TypeOK, Idle
<1>4. i \in Slots /\ disk_dir[i] = NoEntry
  BY <1>1, FsConstants DEF Listed, FsInv, TypeOK, Entries, NoEntry, None
<1>5. \A j \in Slots : disk_dir'[j].sector = IF j = i THEN s ELSE disk_dir[j].sector
  BY <1>1, <1>3, <1>4 DEF FsInv, TypeOK
<1>6. Inodes' = Inodes \cup {s}
  BY <1>2, <1>3, <1>4, <1>5, NoneIsNoSector
  DEF Inodes, ListedInodes, OpenInodes, NoEntry
<1>7. Holds = SectorsOf(s) /\ Holds' = {}
  BY <1>2, <1>3, IdleHoldsNothing DEF Holds
<1>8. \A x : InFile(x)' <=> InFile(x) \/ x \in SectorsOf(s)
  BY <1>2, <1>6, SectorsKept DEF InFile
<1> QED
  BY <1>2, <1>7, <1>8, HandsOver

\* What a call gives back: the sector of an inode, or the data of a removed file.
LEMMA ReleaseKeepsLost ==
  ASSUME FsInv, CreateUndo \/ FreeInode \/ FreeData
  PROVE  Keeps
<1>1. UNCHANGED <<disk_dir, disk_inode, disk_data, inodes, files>>
  BY DEF CreateUndo, FreeInode, FreeData
<1>2. Inodes' = Inodes
  BY <1>1 DEF Inodes, ListedInodes, OpenInodes
<1>3. \A x : InFile(x)' <=> InFile(x)
  BY <1>1, <1>2, SectorsKept, SameInFile
<1>4. CASE CreateUndo
  <2>1. Holds = {} \cup {op.sector} /\ Holds' = {} /\ free_map' = free_map \ {op.sector}
    BY <1>4, IdleHoldsNothing DEF CreateUndo, Release, Holds
  <2> QED
    BY <1>3, <2>1, GivesBack
<1>5. CASE FreeInode
  <2>1. /\ op.at = "free" /\ op' = [at |-> "free_data", sector |-> op.sector]
        /\ free_map' = free_map \ {op.sector}
    BY <1>5 DEF FreeInode, Release
  <2>2. Holds = DataOf(disk_inode[op.sector]) \cup {op.sector}
    BY <2>1 DEF Holds, SectorsOf
  <2>3. Holds' = DataOf(disk_inode[op.sector])
    BY <1>1, <2>1 DEF Holds, DataOf, Run
  <2> QED
    BY <1>3, <2>1, <2>2, <2>3, GivesBack
<1>6. CASE FreeData
  <2>1. /\ op.at = "free_data" /\ op' = Idle
        /\ free_map' = free_map \ DataOf(disk_inode[op.sector])
    BY <1>6 DEF FreeData, FreedData, Release
  <2>2. Holds = {} \cup DataOf(disk_inode[op.sector]) /\ Holds' = {}
    BY <2>1, IdleHoldsNothing DEF Holds
  <2> QED
    BY <1>3, <2>1, <2>2, GivesBack
<1> QED
  BY <1>4, <1>5, <1>6

-----------------------------------------------------------------------------
\* Opening a file, writing it and denying writes change no sector's owner.
LEMMA OpenKeepsLost ==
  ASSUME FsInv, NEW h \in Handles,
         \/ \E n \in Names : Open(h, n)
         \/ \E g \in Handles : Reopen(h, g)
  PROVE  Keeps
<1>1. PICK s \in Sectors :
           /\ s \in Inodes /\ op = Idle
           /\ OpenInodes' = OpenInodes \cup {s}
           /\ UNCHANGED <<diskVars, free_map, op>>
  BY OpenEffect
<1>2. Inodes' = Inodes
  BY <1>1 DEF Inodes, ListedInodes, diskVars
<1>3. Holds = {} /\ Holds' = {}
  BY <1>1, IdleHolds, IdleHoldsNothing
<1>4. \A x : InFile(x)' <=> InFile(x)
  BY <1>1, <1>2, SectorsKept, SameInFile DEF diskVars
<1> QED
  BY <1>1, <1>3, <1>4, HoldsOn

LEMMA WriteKeepsLost ==
  ASSUME FsInv, NEW h \in Handles, Write(h) \/ DenyWrite(h) \/ AllowWrite(h)
  PROVE  Keeps
<1>1. op = Idle /\ UNCHANGED <<disk_dir, disk_inode, free_map, op>>
  BY DEF Write, DenyWrite, AllowWrite, diskVars, memVars
<1>2. \A g \in Handles : files'[g].inode = files[g].inode
  <2>1. PICK d : files' = files \/ files' = [files EXCEPT ![h].deny_write = d]
    BY DEF Write, DenyWrite, AllowWrite, memVars
  <2> QED
    BY <2>1, ClosedFile DEF FsInv, TypeOK, Closed
<1>3. Inodes' = Inodes
  BY <1>1, <1>2 DEF Inodes, ListedInodes, OpenInodes
<1>4. Holds = {} /\ Holds' = {}
  BY <1>1, IdleHolds, IdleHoldsNothing
<1>5. \A x : InFile(x)' <=> InFile(x)
  BY <1>1, <1>3, SectorsKept, SameInFile
<1> QED
  BY <1>1, <1>4, <1>5, HoldsOn

\* The last closer of a removed file holds it; any other file that is closed for
\* the last time is listed.
LEMMA CloseKeepsLost ==
  ASSUME FsInv, FsDetail, NEW h \in Handles, Close(h)
  PROVE  Keeps
<1>1. PICK s : s = files[h].inode
  OBVIOUS
<1>2. /\ op = Idle /\ files[h] # Closed /\ s \in Sectors /\ s \in Inodes
      /\ UNCHANGED <<diskVars, free_map>>
      /\ files' = [files EXCEPT ![h] = Closed]
      /\ h \in Openers(s)
      /\ op' = IF LastOpener(s) /\ inodes[s].removed
               THEN [at |-> "free", sector |-> s] ELSE Idle
  BY <1>1, CloseEffect
<1>3. LastOpener(s) <=> Openers(s)' = {}
  BY <1>1, CloseEffect
<1>4. \A g \in Handles : files'[g].inode = IF g = h THEN None ELSE files[g].inode
  BY <1>2, ClosedFile DEF FsInv, TypeOK
<1>5. \A t \in Sectors \ {s} : t \in OpenInodes' <=> t \in OpenInodes
  BY <1>1, <1>4, NoneIsNoSector DEF OpenInodes
<1>6. s \in OpenInodes /\ (s \in OpenInodes' <=> ~LastOpener(s))
  BY <1>1, <1>2, <1>3, OpenFile, NoneIsNoSector DEF OpenInodes, Openers, None
<1>7. OpenInodes \subseteq Sectors /\ OpenInodes' \subseteq Sectors
  <2>1. FsInv'
    BY CloseKeeps
  <2> QED
    BY <2>1 DEF FsInv, TypeOK, OpenInodes, Closed
<1>8. ListedInodes' = ListedInodes
  BY <1>2 DEF ListedInodes, diskVars
<1>9. \A t : SectorsOf(t)' = SectorsOf(t)
  BY <1>2, SectorsKept DEF diskVars
<1>10. Holds = {}
  BY <1>2, IdleHolds
<1>11. CASE LastOpener(s) /\ inodes[s].removed
  <2>1. s \notin ListedInodes
    BY <1>2, <1>11 DEF FsInv, RemovedUnlisted
  <2>2. Inodes' = Inodes \ {s}
    BY <1>5, <1>6, <1>7, <1>8, <1>11, <2>1 DEF Inodes
  <2>3. Holds' = SectorsOf(s)
    BY <1>2, <1>9, <1>11 DEF Holds
  <2>4. \A x : InFile(x) <=> InFile(x)' \/ x \in SectorsOf(s)
    BY <1>2, <1>9, <2>2 DEF InFile
  <2> QED
    BY <1>2, <1>10, <2>3, <2>4, HandsOver
<1>12. CASE ~(LastOpener(s) /\ inodes[s].removed)
  <2>1. LastOpener(s) => s \in ListedInodes
    BY <1>2, <1>6, <1>12 DEF FsDetail, UnlistedRemoved, Busy, Idle
  <2>2. Inodes' = Inodes
    BY <1>5, <1>6, <1>7, <1>8, <2>1 DEF Inodes
  <2>3. Holds' = {}
    BY <1>2, <1>12, IdleHoldsNothing
  <2> QED
    BY <1>2, <1>9, <1>10, <2>2, <2>3, SameInFile, HoldsOn
<1> QED
  BY <1>11, <1>12

\* filesys_remove holds the file whose entry it has erased, ...
LEMMA RemoveKeepsLost ==
  ASSUME FsInv, NEW n \in Names, Remove(n)
  PROVE  Keeps
<1>1. PICK i \in Listed(n), s \in Sectors :
           /\ s \in Inodes
           /\ op = Idle /\ op' = [at |-> "remove", sector |-> s]
           /\ UNCHANGED <<disk_inode, free_map, files>>
           /\ ListedInodes' = ListedInodes \ {s}
  BY RemoveEffect
<1>2. OpenInodes' = OpenInodes
  BY <1>1 DEF OpenInodes
<1>3. \A t : SectorsOf(t)' = SectorsOf(t)
  BY <1>1, SectorsKept
<1>4. Holds = {} /\ Holds' = SectorsOf(s)
  BY <1>1, <1>3, IdleHolds DEF Holds
<1>5. \A x : InFile(x) \/ x \in SectorsOf(s) <=> InFile(x)' \/ x \in SectorsOf(s)
  BY <1>1, <1>2, <1>3 DEF InFile, Inodes
<1>6. \A x : x \in SectorsOf(s) => InFile(x)
  BY <1>1 DEF InFile
<1> QED
  BY <1>1, <1>4, <1>5, <1>6, HandsOver

\* ... until it frees it, or leaves it to those who have it open.
LEMMA RemoveInodeKeepsLost == ASSUME FsInv, RemoveInode PROVE Keeps
<1>1. PICK s : s = op.sector
  OBVIOUS
<1>2. /\ op.at = "remove" /\ s \in Sectors
      /\ UNCHANGED <<diskVars, free_map, files>>
      /\ LastOpener(s) <=> Openers(s) = {}
      /\ op' = IF LastOpener(s) THEN [at |-> "free", sector |-> s] ELSE Idle
  BY <1>1, RemoveInodeEffect
<1>3. Inodes' = Inodes
  BY <1>2 DEF Inodes, ListedInodes, OpenInodes, diskVars
<1>4. \A t : SectorsOf(t)' = SectorsOf(t)
  BY <1>2, SectorsKept DEF diskVars
<1>5. \A x : InFile(x)' <=> InFile(x)
  BY <1>3, <1>4, SameInFile
<1>6. Holds = SectorsOf(s)
  BY <1>1, <1>2 DEF Holds
<1>7. CASE LastOpener(s)
  <2>1. Holds' = SectorsOf(s)
    BY <1>2, <1>4, <1>7 DEF Holds
  <2> QED
    BY <1>2, <1>5, <1>6, <2>1, HoldsOn
<1>8. CASE ~LastOpener(s)
  <2>1. s \in Inodes
    BY <1>2, <1>8, OpenInodesAre DEF Inodes
  <2>2. Holds' = {}
    BY <1>2, <1>8, IdleHoldsNothing
  <2>3. \A x \in SectorsOf(s) : InFile(x)
    BY <2>1 DEF InFile
  <2> QED
    BY <1>2, <1>5, <1>6, <2>2, <2>3, HandsOver
<1> QED
  BY <1>7, <1>8

-----------------------------------------------------------------------------
\* Where sectors can be lost: a create that fails late, and a loss of power.
\* Neither finds one that was lost.
LEMMA FailureLoses ==
  ASSUME FsInv, CreateExists \/ Reboot
  PROVE  Lost \subseteq Lost'
<1>1. free_map' = free_map /\ UNCHANGED <<disk_dir, disk_inode>>
  BY DEF CreateExists, Reboot, FsInv, MapSaved, diskVars, memVars
<1>2. Inodes' \subseteq Inodes
  <2>1. OpenInodes' \subseteq OpenInodes
    BY ClosedFile DEF CreateExists, Reboot, OpenInodes, memVars
  <2> QED
    BY <1>1, <2>1 DEF Inodes, ListedInodes
<1>3. Holds' \subseteq Holds
  <2>1. CASE CreateExists
    BY <2>1 DEF CreateExists, Holds, SectorsOf
  <2>2. CASE Reboot
    BY <2>2, IdleHoldsNothing DEF Reboot
  <2> QED
    BY <2>1, <2>2
<1>4. \A x : InFile(x)' => InFile(x)
  BY <1>1, <1>2, SectorsKept DEF InFile
<1>5. \A x : x \in Lost' <=> x \in free_map' /\ x \notin Holds' /\ ~InFile(x)'
  BY DEF Lost, InFile
<1> QED
  BY <1>1, <1>3, <1>4, <1>5, LostIs

\* LostOnlyByFailure: a sector that is marked and belongs to nobody got lost in
\* a create that failed after its data had been allocated, or with the power.
THEOREM LostOnlyInFailures == Spec => LostOnlyByFailure
<1> DEFINE Step == /\ Lost \subseteq Lost'
                   /\ Lost' # Lost => CreateExists \/ Reboot
<1>1. FsInv /\ FsDetail /\ [Next]_vars => [Step]_vars
  <2> SUFFICES ASSUME FsInv, FsDetail, Next PROVE Step
    OBVIOUS
  <2>1. CASE CreateExists \/ Reboot
    BY <2>1, FailureLoses
  <2>2. ASSUME ~(CreateExists \/ Reboot) PROVE Keeps
    <3>1. CASE \/ \E n \in Names, len \in Lengths : Create(n, len)
               \/ CreateStep
      BY <2>2, <3>1, CreateKeepsLost, CreateDataKeepsLost, CreateQuietKeepsLost,
         CreateWriteKeepsLost, CreateAddKeepsLost, ReleaseKeepsLost DEF CreateStep
    <3>2. CASE \/ \E n \in Names : Remove(n)
               \/ RemoveInode \/ FreeInode \/ FreeData
      BY <3>2, RemoveKeepsLost, RemoveInodeKeepsLost, ReleaseKeepsLost
    <3>3. ASSUME NEW h \in Handles,
                 \/ Close(h) \/ Write(h) \/ DenyWrite(h) \/ AllowWrite(h)
                 \/ \E n \in Names : Open(h, n)
                 \/ \E g \in Handles : Reopen(h, g)
          PROVE  Keeps
      BY <3>3, CloseKeepsLost, WriteKeepsLost, OpenKeepsLost
    <3> QED
      BY <2>2, <3>1, <3>2, <3>3 DEF Next
  <2> QED
    BY <2>1, <2>2 DEF Keeps
<1> QED
  BY <1>1, FsInvariant, DetailInvariant, PTL DEF Spec, LostOnlyByFailure
=============================================================================
