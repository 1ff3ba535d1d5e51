------------------------------ MODULE PintosFs ------------------------------
(***************************************************************************)
(* The Pintos file system: filesys.c, directory.c, inode.c, free-map.c and *)
(* file.c.  One root directory, files of a fixed length, each an inode     *)
(* sector and a run of data sectors, and a bitmap of the sectors in use,   *)
(* kept in memory and written to the disk whenever it changes.             *)
(*                                                                         *)
(* The file system has no lock of its own: its callers make one call at a  *)
(* time.  But the power may fail between any two block writes, so a call   *)
(* that writes several blocks takes several steps; op is the call under    *)
(* way.  What a block write does to a single sector is atomic.             *)
(***************************************************************************)
EXTENDS Integers, FiniteSets, Sequences

CONSTANTS
    Names,          \* file names
    InvalidNames,   \* the names that are empty or longer than NAME_MAX
    Handles,        \* struct file
    Lengths,        \* lengths of files, in sectors
    Values,         \* what a sector of a file can contain
    Zero,           \* a sector of zeros
    FirstSector,    \* the sectors before hold the free map and the root directory
    LastSector,
    DIR_SLOTS       \* entries of the root directory (16)

ASSUME FsConstants == /\ FirstSector \in Nat \ {0}
                      /\ LastSector \in Nat
                      /\ DIR_SLOTS \in Nat
                      /\ Lengths \subseteq Nat
                      /\ Zero \in Values
                      /\ 0 \notin Names
                      /\ InvalidNames \subseteq Names
                      /\ IsFiniteSet(Handles)

Sectors == FirstSector .. LastSector
Slots == 1 .. DIR_SLOTS

\* No sector: a free slot of the directory, a closed handle, no inode.
None == 0

VARIABLES
    disk_map,       \* the free map file: sectors marked as used
    disk_dir,       \* the root directory: slot -> [name, sector]
    disk_inode,     \* struct inode_disk of each inode sector: [start, length]
    disk_data,      \* what each data sector contains
    free_map,       \* the free map in memory: sectors marked as used
    inodes,         \* open_inodes: sector -> struct inode
    files,          \* struct file: [inode, deny_write]
    op              \* the call under way

diskVars == <<disk_map, disk_dir, disk_inode, disk_data>>
memVars == <<free_map, inodes, files>>
vars == <<diskVars, memVars, op>>

NoEntry == [name |-> None, sector |-> None]
Entries == [name : Names, sector : Sectors] \cup {NoEntry}

\* The sectors of a file of this length that begins at start.
Run(start, length) == start .. start + length - 1
DataOf(d) == Run(d.start, d.length)

NotOpen == [open_cnt |-> 0, removed |-> FALSE, deny_write_cnt |-> 0]
Closed == [inode |-> None, deny_write |-> FALSE]

Idle == [at |-> "idle"]
Busy(at, sector) == op.at = at /\ op.sector = sector

Init == /\ disk_map = {} /\ free_map = {}
        /\ disk_dir = [i \in Slots |-> NoEntry]
        /\ disk_inode = [s \in Sectors |-> [start |-> None, length |-> 0]]
        /\ disk_data = [s \in Sectors |-> Zero]
        /\ inodes = [s \in Sectors |-> NotOpen]
        /\ files = [h \in Handles |-> Closed]
        /\ op = Idle

Listed(n) == {i \in Slots : disk_dir[i].name = n}
-----------------------------------------------------------------------------
\* Plausible slips, for the sensitivity checks.
ReleaseAtOnce(s) == TRUE
AllocateUnsaved(run) == free_map' = free_map \cup run /\ UNCHANGED disk_map
ZeroShort(start, length) == Run(start, length - 1)
FreedShort(s) == Run(disk_inode[s].start, disk_inode[s].length - 1)
-----------------------------------------------------------------------------
\* bitmap_scan: the run of cnt sectors from start on is free.
IsFree(start, cnt) == Run(start, cnt) \subseteq Sectors \ free_map

\* bitmap_scan_and_flip takes the first such run; of no sectors, that at 0.
FirstFit(start, cnt) ==
    IF cnt = 0 THEN start = None
    ELSE /\ start \in Sectors
         /\ IsFree(start, cnt)
         /\ \A s \in Sectors : s < start => ~IsFree(s, cnt)

NoRoom(cnt) == cnt > 0 /\ \A s \in Sectors : ~IsFree(s, cnt)

\* free_map_allocate, free_map_release: the map changes, and is written.
Allocate(run) == free_map' = free_map \cup run /\ disk_map' = free_map'
Release(run) == free_map' = free_map \ run /\ disk_map' = free_map'

\* filesys_create: a sector for the inode.  Without one the call fails.
Create(n, len) ==
    /\ op = Idle
    /\ \E s \in Sectors :
          /\ FirstFit(s, 1)
          /\ Allocate({s})
          /\ op' = [at |-> "inode", name |-> n, sector |-> s, length |-> len]
    /\ UNCHANGED <<disk_dir, disk_inode, disk_data, inodes, files>>

\* inode_create: sectors for the data.
CreateData ==
    /\ op.at = "inode"
    /\ \E start \in Sectors \cup {None} :
          /\ FirstFit(start, op.length)
          /\ Allocate(Run(start, op.length))
          /\ op' = [at |-> "write", name |-> op.name, sector |-> op.sector,
                    start |-> start, length |-> op.length]
    /\ UNCHANGED <<disk_dir, disk_inode, disk_data, inodes, files>>

\* inode_create returns false: the disk is full.
CreateNoRoom ==
    /\ op.at = "inode"
    /\ NoRoom(op.length)
    /\ op' = [at |-> "undo", sector |-> op.sector]
    /\ UNCHANGED <<diskVars, memVars>>

\* The sectors that inode_create fills with zeros.
ToZero(start, length) == Run(start, length)

\* inode_create writes the inode, then zeros its sectors one by one.
CreateWrite ==
    /\ op.at = "write"
    /\ disk_inode' = [disk_inode EXCEPT ![op.sector] =
                          [start |-> op.start, length |-> op.length]]
    /\ op' = [at |-> "zero", name |-> op.name, sector |-> op.sector,
              todo |-> ToZero(op.start, op.length)]
    /\ UNCHANGED <<disk_map, disk_dir, disk_data, memVars>>

CreateZero ==
    /\ op.at = "zero"
    /\ \E s \in op.todo :
          /\ \A t \in op.todo : s <= t
          /\ disk_data' = [disk_data EXCEPT ![s] = Zero]
          /\ op' = [op EXCEPT !.todo = @ \ {s}]
    /\ UNCHANGED <<disk_map, disk_dir, disk_inode, memVars>>

\* "Check NAME for validity."
ValidName(n) == n \notin InvalidNames

\* dir_add: the first free slot gets the entry.
CreateAdd ==
    /\ op.at = "zero" /\ op.todo = {}
    /\ ValidName(op.name)
    /\ Listed(op.name) = {}
    /\ \E i \in Listed(None) :
          /\ \A j \in Listed(None) : i <= j
          /\ disk_dir' = [disk_dir EXCEPT ![i] = [name |-> op.name,
                                                  sector |-> op.sector]]
    /\ op' = Idle
    /\ UNCHANGED <<disk_map, disk_inode, disk_data, memVars>>

\* dir_add fails: the name is empty or too long, or it exists, or no slot is
\* free.
CreateExists ==
    /\ op.at = "zero" /\ op.todo = {}
    /\ ~ValidName(op.name) \/ Listed(op.name) # {} \/ Listed(None) = {}
    /\ op' = [at |-> "undo", sector |-> op.sector]
    /\ UNCHANGED <<diskVars, memVars>>

\* filesys_create gives back the inode's sector, and nothing else.
CreateUndo ==
    /\ op.at = "undo"
    /\ Release({op.sector})
    /\ op' = Idle
    /\ UNCHANGED <<disk_dir, disk_inode, disk_data, inodes, files>>

-----------------------------------------------------------------------------
\* inode_open, inode_reopen: one more opener.
Opened(s) == [inodes EXCEPT ![s].open_cnt = @ + 1]

\* filesys_open and file_open.
Open(h, n) ==
    /\ op = Idle /\ files[h] = Closed
    /\ \E i \in Listed(n) :
          /\ inodes' = Opened(disk_dir[i].sector)
          /\ files' = [files EXCEPT ![h] = [inode |-> disk_dir[i].sector,
                                            deny_write |-> FALSE]]
    /\ UNCHANGED <<diskVars, free_map, op>>

\* file_reopen
Reopen(h, g) ==
    /\ op = Idle /\ files[h] = Closed /\ files[g] # Closed
    /\ inodes' = Opened(files[g].inode)
    /\ files' = [files EXCEPT ![h] = [inode |-> files[g].inode,
                                      deny_write |-> FALSE]]
    /\ UNCHANGED <<diskVars, free_map, op>>

\* Nobody else has the inode open.
LastOpener(s) == inodes[s].open_cnt = 1

\* inode_close of s, whose inode is i by then: the last opener of a removed
\* file goes on to free its sectors.
CloseInode(s, i) ==
    /\ inodes' = [inodes EXCEPT ![s] = IF LastOpener(s) THEN NotOpen
                                       ELSE [i EXCEPT !.open_cnt = @ - 1]]
    /\ op' = IF LastOpener(s) /\ i.removed
             THEN [at |-> "free", sector |-> s] ELSE Idle

\* file_close, with its file_allow_write.
Close(h) ==
    /\ op = Idle /\ files[h] # Closed
    /\ LET s == files[h].inode
       IN  CloseInode(s, IF files[h].deny_write
                         THEN [inodes[s] EXCEPT !.deny_write_cnt = @ - 1]
                         ELSE inodes[s])
    /\ files' = [files EXCEPT ![h] = Closed]
    /\ UNCHANGED <<diskVars, free_map>>

\* The data sectors that go with the inode in sector s.
FreedData(s) == DataOf(disk_inode[s])

\* inode_close frees a removed inode's own sector, then its data.
FreeInode ==
    /\ op.at = "free"
    /\ Release({op.sector})
    /\ op' = [at |-> "free_data", sector |-> op.sector]
    /\ UNCHANGED <<disk_dir, disk_inode, disk_data, inodes, files>>

FreeData ==
    /\ op.at = "free_data"
    /\ Release(FreedData(op.sector))
    /\ op' = Idle
    /\ UNCHANGED <<disk_dir, disk_inode, disk_data, inodes, files>>

\* filesys_remove: dir_remove opens the inode and erases the entry, ...
Remove(n) ==
    /\ op = Idle
    /\ \E i \in Listed(n) :
          /\ inodes' = Opened(disk_dir[i].sector)
          /\ disk_dir' = [disk_dir EXCEPT ![i] = NoEntry]
          /\ op' = [at |-> "remove", sector |-> disk_dir[i].sector]
    /\ UNCHANGED <<disk_map, disk_inode, disk_data, free_map, files>>

\* ... then marks the inode and closes it.
RemoveInode ==
    /\ op.at = "remove"
    /\ CloseInode(op.sector, [inodes[op.sector] EXCEPT !.removed = TRUE])
    /\ UNCHANGED <<diskVars, free_map, files>>

-----------------------------------------------------------------------------
\* file_write, of one sector; it writes nothing while writes are denied.
Write(h) ==
    /\ op = Idle /\ files[h] # Closed
    /\ inodes[files[h].inode].deny_write_cnt = 0
    /\ \E s \in DataOf(disk_inode[files[h].inode]), v \in Values :
          disk_data' = [disk_data EXCEPT ![s] = v]
    /\ UNCHANGED <<disk_map, disk_dir, disk_inode, memVars, op>>

\* file_deny_write
DenyWrite(h) ==
    /\ op = Idle /\ files[h] # Closed
    /\ ~files[h].deny_write
    /\ files' = [files EXCEPT ![h].deny_write = TRUE]
    /\ inodes' = [inodes EXCEPT ![files[h].inode].deny_write_cnt = @ + 1]
    /\ UNCHANGED <<diskVars, free_map, op>>

\* file_allow_write
AllowWrite(h) ==
    /\ op = Idle
    /\ files[h].deny_write
    /\ files' = [files EXCEPT ![h].deny_write = FALSE]
    /\ inodes' = [inodes EXCEPT ![files[h].inode].deny_write_cnt = @ - 1]
    /\ UNCHANGED <<diskVars, free_map, op>>

\* The machine stops, at any point, and starts again: filesys_init,
\* free_map_open.
Reboot ==
    /\ free_map' = disk_map
    /\ inodes' = [s \in Sectors |-> NotOpen]
    /\ files' = [h \in Handles |-> Closed]
    /\ op' = Idle
    /\ UNCHANGED diskVars

CreateStep == \/ CreateData \/ CreateNoRoom \/ CreateWrite \/ CreateZero
              \/ CreateAdd \/ CreateExists \/ CreateUndo

Next == \/ \E n \in Names : Remove(n) \/ \E len \in Lengths : Create(n, len)
        \/ CreateStep
        \/ RemoveInode \/ FreeInode \/ FreeData
        \/ \E h \in Handles : \/ Close(h) \/ Write(h)
                              \/ DenyWrite(h) \/ AllowWrite(h)
                              \/ \E n \in Names : Open(h, n)
                              \/ \E g \in Handles : Reopen(h, g)
        \/ Reboot

Spec == Init /\ [][Next]_vars
-----------------------------------------------------------------------------
\* The inode sectors of the files that exist: listed, or open.
ListedInodes == {disk_dir[i].sector : i \in Slots} \ {None}
OpenInodes == {files[h].inode : h \in Handles} \ {None}
Inodes == ListedInodes \cup OpenInodes

\* All the sectors of the file whose inode is in sector s.
SectorsOf(s) == {s} \cup DataOf(disk_inode[s])

\* Whenever the power fails, the disk is sound: the sectors of every file that
\* the directory lists are marked in the free map on the disk, and no two
\* listed files share a sector.
DiskSound ==
    /\ \A s \in ListedInodes : SectorsOf(s) \subseteq disk_map
    /\ \A i, j \in Slots : i # j /\ disk_dir[i] # NoEntry =>
          /\ disk_dir[i].name # disk_dir[j].name
          /\ disk_dir[j] # NoEntry =>
                SectorsOf(disk_dir[i].sector)
                    \cap SectorsOf(disk_dir[j].sector) = {}

\* A removed file keeps its sectors until it is closed by the last who has it
\* open: nobody is given them in the meantime.
OpenSound ==
    \A s \in OpenInodes :
        /\ SectorsOf(s) \subseteq free_map
        /\ \A t \in Inodes \ {s} : SectorsOf(s) \cap SectorsOf(t) = {}

\* The sectors that the call under way has got hold of.
Holds == CASE op.at \in {"inode", "undo"} -> {op.sector}
           [] op.at = "write" -> {op.sector} \cup Run(op.start, op.length)
           [] op.at \in {"zero", "remove", "free"} -> SectorsOf(op.sector)
           [] op.at = "free_data" -> DataOf(disk_inode[op.sector])
           [] OTHER -> {}

\* The calls under way.
Calls == {Idle}
         \cup [at : {"inode"}, name : Names, sector : Sectors, length : Nat]
         \cup [at : {"write"}, name : Names, sector : Sectors, start : Nat,
               length : Nat]
         \cup [at : {"zero"}, name : Names, sector : Sectors,
               todo : SUBSET Sectors]
         \cup [at : {"undo", "remove", "free", "free_data"}, sector : Sectors]

TypeOK ==
    /\ free_map \subseteq Sectors
    /\ disk_dir \in [Slots -> Entries]
    /\ disk_inode \in [Sectors -> [start : Nat, length : Nat]]
    /\ disk_data \in [Sectors -> Values]
    /\ inodes \in [Sectors -> [open_cnt : Nat, removed : BOOLEAN,
                               deny_write_cnt : Int]]
    /\ files \in [Handles -> [inode : Sectors, deny_write : BOOLEAN] \cup {Closed}]
    /\ op \in Calls

\* The free map is on the disk as it is in memory.
MapSaved == disk_map = free_map

\* No name and no inode is listed twice.
ListedOnce == \A i, j \in Slots : i # j /\ disk_dir[i] # NoEntry =>
                  /\ disk_dir[i].name # disk_dir[j].name
                  /\ disk_dir[i].sector # disk_dir[j].sector

\* open_cnt counts the handles, and dir_remove while it has the inode open.
Openers(s) == {h \in Handles : files[h].inode = s}
OpenersCounted ==
    \A s \in Sectors :
        /\ inodes[s].open_cnt = Cardinality(Openers(s))
                                + IF Busy("remove", s) THEN 1 ELSE 0
        /\ inodes[s].open_cnt = 0 => ~inodes[s].removed

\* A removed file is not listed.
RemovedUnlisted ==
    \A s \in Sectors :
        inodes[s].removed \/ Busy("remove", s) => s \notin ListedInodes

\* The sectors of every file are marked, and no sector belongs to two files.
FilesApart ==
    \A s \in Inodes :
        /\ SectorsOf(s) \subseteq free_map
        /\ \A t \in Inodes \ {s} : SectorsOf(s) \cap SectorsOf(t) = {}

\* What the call under way holds is marked, until it frees it, and in no file
\* but the one that it removes.
HoldsApart ==
    /\ op.at # "free_data" => Holds \subseteq free_map
    /\ \A s \in Inodes : Busy("remove", s) \/ Holds \cap SectorsOf(s) = {}

\* The inductive strengthening of DiskSound and OpenSound.
FsInv == /\ TypeOK /\ MapSaved /\ ListedOnce /\ OpenersCounted
         /\ RemovedUnlisted /\ FilesApart /\ HoldsApart

\* Who denies writes is counted in the inode.
Deniers(s) == {h \in Openers(s) : files[h].deny_write}
DenyCounted == \A s \in Sectors :
                   inodes[s].deny_write_cnt = Cardinality(Deniers(s))

\* A file that is open and not listed has been removed, or is being: its last
\* closer frees it.
UnlistedRemoved == \A s \in OpenInodes \ ListedInodes :
                       inodes[s].removed \/ Busy("remove", s)

\* A file that is being created has a length it was asked to have, and what is
\* not to be zeroed any more is zero.
ZeroedSoFar ==
    /\ op.at \in {"inode", "write"} => op.length \in Lengths
    /\ op.at = "zero" =>
          /\ disk_inode[op.sector].length \in Lengths
          /\ op.todo \subseteq DataOf(disk_inode[op.sector])
          /\ \A s \in DataOf(disk_inode[op.sector]) :
                 s \in op.todo \/ disk_data[s] = Zero

\* What the refinement needs besides.
FsDetail == DenyCounted /\ UnlistedRemoved /\ ZeroedSoFar

\* The file that a name denotes, and what a file contains, as the callers see it.
NamedFile(n) == IF Listed(n) = {} THEN None
                ELSE disk_dir[CHOOSE i \in Listed(n) : TRUE].sector
Contents(s) == IF s \in Inodes
               THEN [i \in 1 .. disk_inode[s].length |->
                        disk_data[disk_inode[s].start + i - 1]]
               ELSE <<>>

Fs == INSTANCE FsAbs
        WITH Ids <- Sectors,
             named <- [n \in Names |-> NamedFile(n)],
             opened <- [h \in Handles |-> files[h].inode],
             denying <- {h \in Handles : files[h].deny_write},
             calling <- op # Idle,
             content <- [s \in Sectors |-> Contents(s)]
\* The files behave as their callers expect, however names are removed and
\* reused, sectors freed and given to others, and wherever the power fails.
RefinesFs == Fs!AbsSpec

\* Sectors that are marked but belong to no file and no call under way.
Lost == free_map \ (Holds \cup UNION {SectorsOf(s) : s \in Inodes})

\* Sectors are lost only where a create fails late, its data already
\* allocated, and where the power fails; nothing that is lost is found again.
LostOnlyByFailure ==
    [][/\ Lost \subseteq Lost'
       /\ Lost' # Lost => CreateExists \/ Reboot]_vars
=============================================================================
