-------------------------------- MODULE Emufs --------------------------------
(***************************************************************************)
(* lab10's emulated file system, emufs-ops.c on top of emufs-disk.c: one   *)
(* mounted device with its superblock, inodes and data blocks on the disk,  *)
(* and the open handles in memory.  The program is sequential and an        *)
(* operation is one step; one that returns -1 and has changed nothing is a  *)
(* stuttering step.  What a free inode or block holds is not read before it *)
(* is written, and the model forgets it.                                    *)
(*                                                                         *)
(* The operations do not check all that they rely on, and the client does:  *)
(* LeadsTo, SparesRoot and HandlesClosed below are what EmNext assumes of it, *)
(* as the lab's test cases keep it.  Handles it uses are open.              *)
(***************************************************************************)
EXTENDS Integers, FiniteSets, Sequences, SequencesExt, FiniteSetsExt, Functions

CONSTANTS
  MAX_INODES, MAX_BLOCKS,
  BLOCKSIZE,                  \* bytes in a block
  MAX_FILE_SIZE,              \* blocks of a file and entities of a directory, 4 in the code
  DirHandles, FileHandles,    \* indices of dir[] and files[]
  Names, Bytes,
  Paths,                      \* paths the client uses: [abs, parts]
  Sizes                       \* sizes of reads and writes, and distances of seeks

Inodes == 0..(MAX_INODES - 1)
DataBlocks == 3..(MAX_BLOCKS - 1)
Positions == 0..(MAX_FILE_SIZE * BLOCKSIZE - 1)
Junk == 0   \* a byte nobody has written: it may be any

ASSUME EmufsAssumption ==
  /\ MAX_INODES \in Nat \ {0}
  /\ MAX_BLOCKS \in Nat \ 0..2
  /\ BLOCKSIZE \in Nat \ {0}
  /\ MAX_FILE_SIZE \in Nat \ {0}
  /\ DirHandles \subseteq Nat /\ FileHandles \subseteq Nat
  /\ Junk \notin Bytes
  /\ Paths \subseteq [abs : BOOLEAN, parts : Seq(Names \cup {".", ".."})]
  /\ Sizes \subseteq Nat \ {0}

VARIABLES
  mounted,
  inode_bitmap, used_inodes, block_bitmap, used_blocks,   \* the superblock
  inodes,     \* the metadata blocks; mappings[0], ..., up to its length in use
  data,       \* data[b][i]: byte i of block b
  dir, files, \* the handles: 0 .. of closed ones is -1
  full,       \* some write has found the disk full
  written     \* written[i][k]: what the client last wrote at position k of file i

superblock == <<inode_bitmap, used_inodes, block_bitmap, used_blocks>>
emVars == <<mounted, superblock, inodes, data, dir, files, full, written>>

Closed == -1
NoFile == [inode |-> Closed, offset |-> 0]

Type == {"file", "dir"}

NoInode == [name |-> "", type |-> "file", parent |-> -1, findable |-> TRUE, mappings |-> <<>>]
Root == [name |-> "/", type |-> "dir", parent |-> -1, findable |-> TRUE, mappings |-> <<>>]
Blank == [k \in 0..(BLOCKSIZE - 1) |-> Junk]
Nothing == [k \in Positions |-> Junk]

EmTypeOK ==
  /\ mounted \in BOOLEAN
  /\ inode_bitmap \subseteq Inodes /\ used_inodes \in 1..MAX_INODES
  /\ block_bitmap \subseteq DataBlocks /\ used_blocks \in 3..MAX_BLOCKS
  /\ inodes \in [Inodes -> [name : Names \cup {"", "/"}, type : Type, parent : Inodes \cup {-1},
                           findable : BOOLEAN, mappings : Seq(Inodes \cup DataBlocks)]]
  /\ \A i \in Inodes :
       /\ Len(inodes[i].mappings) <= MAX_FILE_SIZE
       /\ Range(inodes[i].mappings) \subseteq
            (IF inodes[i].type = "dir" THEN Inodes ELSE DataBlocks)
  /\ data \in [DataBlocks -> [0..(BLOCKSIZE - 1) -> Bytes \cup {Junk}]]
  /\ dir \in [DirHandles -> Inodes \cup {Closed}]
  /\ files \in [FileHandles -> [inode : Inodes \cup {Closed}, offset : Nat]]
  /\ full \in BOOLEAN
  /\ written \in [Inodes -> [Positions -> Bytes \cup {Junk}]]

(* opendevice() and create_file_system() on a new disk. *)
EmInit ==
  /\ mounted = TRUE
  /\ inode_bitmap = {0} /\ used_inodes = 1
  /\ block_bitmap = {} /\ used_blocks = 3
  /\ inodes = [i \in Inodes |-> IF i = 0 THEN Root ELSE NoInode]
  /\ data = [b \in DataBlocks |-> Blank]
  /\ dir = [h \in DirHandles |-> Closed]
  /\ files = [h \in FileHandles |-> NoFile]
  /\ full = FALSE
  /\ written = [i \in Inodes |-> Nothing]

-----------------------------------------------------------------------------
(* Looking things up. *)

Size(i) == IF inodes[i].type = "dir" THEN Len(inodes[i].mappings)
           ELSE Len(inodes[i].mappings) * BLOCKSIZE

(* The first entity of that name in directory i; memcmp() also compares what *)
(* stands in the inode's name behind its end.                               *)
Lookup(i, name) ==
  LET m == inodes[i].mappings
      found == {k \in DOMAIN m : inodes[m[k]].name = name /\ inodes[m[k]].findable}
  IN  IF found = {} THEN -1 ELSE m[Min(found)]

(* One component of a path, from inode i. *)
PathStep(i, part) ==
  IF i = -1 \/ inodes[i].type = "file" THEN -1
  ELSE IF part = "." THEN i
  ELSE IF part = ".." THEN inodes[i].parent
  ELSE Lookup(i, part)

return_inode(i, path) ==
  LET walk[n \in 0..Len(path.parts)] ==
        IF n = 0 THEN IF path.abs THEN 0 ELSE i
        ELSE PathStep(walk[n - 1], path.parts[n])
  IN  walk[Len(path.parts)]

(* The entities delete_entity() deletes: i and all that is below it. *)
Below(i) ==
  LET below[n \in 0..MAX_INODES] ==
        IF n = 0 THEN {i}
        ELSE below[n - 1] \cup UNION {Range(inodes[j].mappings) :
                                        j \in {k \in below[n - 1] : inodes[k].type = "dir"}}
  IN  below[MAX_INODES]

(* What the client wrote to the files of D, and the contents of the blocks B. *)
Forget(D, B) ==
  /\ written' = [i \in Inodes |-> IF i \in D THEN Nothing ELSE written[i]]
  /\ data' = [b \in DataBlocks |-> IF b \in B THEN Blank ELSE data[b]]

FirstFree(S) == CHOOSE x \in S : \A y \in S : x <= y

-----------------------------------------------------------------------------
(* The device *)

CloseDevice ==
  /\ mounted
  /\ mounted' = FALSE
  /\ dir' = [h \in DirHandles |-> Closed]
  /\ files' = [h \in FileHandles |-> NoFile]
  /\ UNCHANGED <<superblock, inodes, data, full, written>>

OpenDevice ==
  /\ ~mounted
  /\ mounted' = TRUE
  /\ UNCHANGED <<superblock, inodes, data, dir, files, full, written>>

(* create_file_system() *)
CreateFileSystem ==
  /\ mounted
  /\ inode_bitmap' = {0} /\ used_inodes' = 1
  /\ block_bitmap' = {} /\ used_blocks' = 3
  /\ Forget(Inodes, DataBlocks)
  /\ inodes' = [i \in Inodes |-> IF i = 0 THEN Root ELSE NoInode]
  /\ full' = FALSE
  /\ UNCHANGED <<mounted, dir, files>>

-----------------------------------------------------------------------------
(* Directories *)

OpenRoot ==
  LET free == {h \in DirHandles : dir[h] = Closed} IN
  /\ mounted
  /\ free # {}
  /\ dir' = [dir EXCEPT ![FirstFree(free)] = 0]
  /\ UNCHANGED <<mounted, superblock, inodes, data, files, full, written>>

ChangeDir(h, path) ==
  LET i == return_inode(dir[h], path) IN
  /\ dir[h] # Closed
  /\ i # -1
  /\ dir' = [dir EXCEPT ![h] = i]
  /\ UNCHANGED <<mounted, superblock, inodes, data, files, full, written>>

CloseDir(h) ==
  /\ dir[h] # Closed
  /\ dir' = [dir EXCEPT ![h] = Closed]
  /\ UNCHANGED <<mounted, superblock, inodes, data, files, full, written>>

(* The inode comes from malloc(): what follows the name in its 8 bytes is    *)
(* not initialised, and memcmp() in return_inode() may never find it.        *)
NewInode(i, p, name, type) ==
  /\ inode_bitmap' = inode_bitmap \cup {i}
  /\ used_inodes' = used_inodes + 1
  /\ \E clean \in BOOLEAN :
       inodes' = [inodes EXCEPT
         ![p].mappings = Append(@, i),
         ![i] = [name |-> name, type |-> type, parent |-> p, findable |-> clean, mappings |-> <<>>]]
  /\ UNCHANGED <<mounted, block_bitmap, used_blocks, data, dir, files, full, written>>

(* Faulty variant: a full directory takes one more.                          *)
CreateCrowded(h, name, type) ==
  LET p == dir[h]
      free == Inodes \ inode_bitmap IN
  /\ p # Closed
  /\ \A c \in Range(inodes[p].mappings) : ~(inodes[c].type = type /\ inodes[c].name = name)
  /\ free # {}
  /\ NewInode(FirstFree(free), p, name, type)

(* emufs_create() *)
Create(h, name, type) ==
  LET p == dir[h]
      free == Inodes \ inode_bitmap IN
  /\ p # Closed
  /\ Len(inodes[p].mappings) < MAX_FILE_SIZE
  /\ \A c \in Range(inodes[p].mappings) : ~(inodes[c].type = type /\ inodes[c].name = name)
  /\ free # {}
  /\ NewInode(FirstFree(free), p, name, type)

-----------------------------------------------------------------------------
(* Deletion.  D is what is deleted, i its topmost entity. *)

BlocksOf(D) == UNION {Range(inodes[j].mappings) : j \in {k \in D : inodes[k].type = "file"}}

(* Faulty variants: the blocks stay allocated; the handles of files stay     *)
(* open; the parent keeps the entry.                                         *)
FreeNoBlocks(D) == UNCHANGED <<block_bitmap, used_blocks>>

FreeBlocks(D) ==
  /\ block_bitmap' = block_bitmap \ BlocksOf(D)
  /\ used_blocks' = used_blocks - Cardinality(block_bitmap \cap BlocksOf(D))

FreeInodes(D) ==
  /\ inode_bitmap' = inode_bitmap \ D
  /\ used_inodes' = used_inodes - Cardinality(inode_bitmap \cap D)

CloseHandlesDirs(D) ==
  /\ dir' = [h \in DirHandles |-> IF dir[h] \in D THEN Closed ELSE dir[h]]
  /\ UNCHANGED files

CloseHandles(D) ==
  /\ dir' = [h \in DirHandles |-> IF dir[h] \in D THEN Closed ELSE dir[h]]
  /\ files' = [h \in FileHandles |-> IF files[h].inode \in D THEN NoFile ELSE files[h]]

KeepEntry(p, i, D) ==
  inodes' = [j \in Inodes |-> IF j \in D THEN NoInode ELSE inodes[j]]

RemoveEntry(p, i, D) ==
  inodes' = [j \in Inodes |->
    IF j \in D THEN NoInode
    ELSE IF j = p THEN [inodes[p] EXCEPT !.mappings = RemoveAt(@, CHOOSE k \in DOMAIN @ : @[k] = i)]
    ELSE inodes[j]]

(* emufs_delete() with delete_entity() *)
Delete(h, path) ==
  LET i == return_inode(dir[h], path) IN
  /\ dir[h] # Closed
  /\ i # -1
  /\ LET D == Below(i) IN
     /\ FreeInodes(D)
     /\ FreeBlocks(D)
     /\ CloseHandles(D)
     /\ RemoveEntry(inodes[i].parent, i, D)
     /\ Forget(D, BlocksOf(D))
  /\ UNCHANGED <<mounted, full>>

-----------------------------------------------------------------------------
(* Files *)

OpenFile(h, path) ==
  LET i == return_inode(dir[h], path)
      free == {f \in FileHandles : files[f] = NoFile} IN
  /\ dir[h] # Closed
  /\ free # {}
  /\ i # -1
  /\ files' = [files EXCEPT ![FirstFree(free)] = [inode |-> i, offset |-> 0]]
  /\ UNCHANGED <<mounted, superblock, inodes, data, dir, full, written>>

CloseFile(f) ==
  /\ files[f] # NoFile
  /\ files' = [files EXCEPT ![f] = NoFile]
  /\ UNCHANGED <<mounted, superblock, inodes, data, dir, full, written>>

Seek(f, offset) ==
  /\ files[f] # NoFile
  /\ offset >= 0
  /\ offset < Size(files[f].inode)
  /\ files' = [files EXCEPT ![f].offset = offset]
  /\ UNCHANGED <<mounted, superblock, inodes, data, dir, full, written>>

Read(f, size) ==
  /\ files[f] # NoFile
  /\ files[f].offset + size <= Size(files[f].inode)
  /\ files' = [files EXCEPT ![f].offset = @ + size]
  /\ UNCHANGED <<mounted, superblock, inodes, data, dir, full, written>>

(* The blocks a write up to position `end' makes the file longer by. *)
Missing(i, end) ==
  LET have == Len(inodes[i].mappings)
      want == (end + BLOCKSIZE - 1) \div BLOCKSIZE
  IN  IF want > have THEN want - have ELSE 0

(* The free blocks in the order alloc_datablock() finds them in: the n-th has *)
(* n - 1 before it.                                                          *)
FreeBlockSeq ==
  LET free == DataBlocks \ block_bitmap
  IN  [n \in 1..Cardinality(free) |->
         CHOOSE b \in free : Cardinality({c \in free : c < b}) = n - 1]

(* Byte k of file i, as its blocks hold it. *)
ByteOf(i, k) ==
  LET m == inodes[i].mappings IN
  IF k < Len(m) * BLOCKSIZE THEN data[m[k \div BLOCKSIZE + 1]][k % BLOCKSIZE] ELSE Junk

(* All blocks of the file, with mappings m, are written back: the old bytes, *)
(* the new ones, and in a new block whatever stands in the buffer.  Faulty   *)
(* variant: the old blocks have not been read into the buffer.               *)
WriteBlocksUnread(i, m, from, end, byte) ==
  data' = [b \in DataBlocks |-> [k \in 0..(BLOCKSIZE - 1) |->
    IF b \notin Range(m) THEN data[b][k]
    ELSE LET pos == ((CHOOSE n \in DOMAIN m : m[n] = b) - 1) * BLOCKSIZE + k
         IN  IF pos >= from /\ pos < end THEN byte ELSE Junk]]

WriteBlocks(i, m, from, end, byte) ==
  data' = [b \in DataBlocks |-> [k \in 0..(BLOCKSIZE - 1) |->
    IF b \notin Range(m) THEN data[b][k]
    ELSE LET pos == ((CHOOSE n \in DOMAIN m : m[n] = b) - 1) * BLOCKSIZE + k
         IN  IF pos >= from /\ pos < end THEN byte ELSE ByteOf(i, pos)]]

Write(f, size, byte) ==
  LET i == files[f].inode
      from == files[f].offset
      end == from + size
      new == SubSeq(FreeBlockSeq, 1, Missing(i, end))
      m == inodes[i].mappings \o new IN
  /\ files[f] # NoFile
  /\ end <= MAX_FILE_SIZE * BLOCKSIZE
  /\ Missing(i, end) <= Len(FreeBlockSeq)
  /\ block_bitmap' = block_bitmap \cup Range(new)
  /\ used_blocks' = used_blocks + Len(new)
  /\ inodes' = [inodes EXCEPT ![i].mappings = m]
  /\ WriteBlocks(i, m, from, end, byte)
  /\ files' = [files EXCEPT ![f].offset = end]
  /\ written' = [written EXCEPT ![i] =
                   [k \in Positions |-> IF k >= from /\ k < end THEN byte ELSE @[k]]]
  /\ UNCHANGED <<mounted, inode_bitmap, used_inodes, dir, full>>

(* The disk is full: emufs_write() returns -1, and the blocks it has got      *)
(* until then are allocated and belong to no file.                           *)
WriteFull(f, size) ==
  LET i == files[f].inode
      end == files[f].offset + size IN
  /\ files[f] # NoFile
  /\ end <= MAX_FILE_SIZE * BLOCKSIZE
  /\ Missing(i, end) > Len(FreeBlockSeq)
  /\ block_bitmap' = DataBlocks
  /\ used_blocks' = used_blocks + Len(FreeBlockSeq)
  /\ full' = TRUE
  /\ UNCHANGED <<mounted, inode_bitmap, used_inodes, inodes, data, dir, files, written>>

-----------------------------------------------------------------------------
(* What the client sees to, for the operations do not: no handle is open     *)
(* when the file system is made; change_dir() gets a path to a directory and *)
(* open_file() one to a file; emufs_delete() does not get the root.          *)
HandlesClosed == (\A h \in DirHandles : dir[h] = Closed) /\ (\A h \in FileHandles : files[h] = NoFile)

LeadsTo(h, path, type) ==
  LET i == return_inode(dir[h], path) IN i # -1 => inodes[i].type = type

SparesRoot(h, path) == return_inode(dir[h], path) # 0

EmNext ==
  \/ CloseDevice \/ OpenDevice \/ OpenRoot
  \/ HandlesClosed /\ CreateFileSystem
  \/ \E h \in DirHandles :
       \/ CloseDir(h)
       \/ \E path \in Paths : LeadsTo(h, path, "dir") /\ ChangeDir(h, path)
       \/ \E path \in Paths : SparesRoot(h, path) /\ Delete(h, path)
       \/ \E path \in Paths : LeadsTo(h, path, "file") /\ OpenFile(h, path)
       \/ \E name \in Names, type \in Type : Create(h, name, type)
  \/ \E f \in FileHandles :
       \/ CloseFile(f)
       \/ \E n \in Sizes : Seek(f, files[f].offset - n) \/ Seek(f, files[f].offset + n)
       \/ \E size \in Sizes : Read(f, size) \/ WriteFull(f, size)
       \/ \E size \in Sizes, byte \in Bytes : Write(f, size, byte)

EmSpec == EmInit /\ [][EmNext]_emVars

-----------------------------------------------------------------------------
Allocated(type) == {i \in inode_bitmap : inodes[i].type = type}

(* The counters of the superblock, which fsdump() prints, agree with its     *)
(* bitmaps, after a recursive deletion and a write that failed too.          *)
Counters ==
  /\ used_inodes = Cardinality(inode_bitmap)
  /\ used_blocks = 3 + Cardinality(block_bitmap)

(* The allocated inodes are a tree: all of them and nothing else can be      *)
(* reached from the root, each is entered once, in its parent, and no two    *)
(* entities of a directory have one name and one type.                      *)
Tree ==
  /\ Below(0) = inode_bitmap
  /\ \A p \in Allocated("dir") : IsInjective(inodes[p].mappings)
  /\ \A i \in inode_bitmap \ {0} : \A p \in Allocated("dir") :
       i \in Range(inodes[p].mappings) <=> p = inodes[i].parent
  /\ \A p \in Allocated("dir") : \A c, d \in Range(inodes[p].mappings) :
       inodes[c].name = inodes[d].name /\ inodes[c].type = inodes[d].type => c = d

(* A block belongs to one place of one file and is allocated; and no block   *)
(* is allocated that belongs to none, until a write has found the disk full.  *)
BlocksOwned ==
  /\ \A i \in Allocated("file") : IsInjective(inodes[i].mappings)
  /\ \A i, j \in Allocated("file") :
       i # j => Range(inodes[i].mappings) \cap Range(inodes[j].mappings) = {}
  /\ BlocksOf(inode_bitmap) \subseteq block_bitmap
  /\ ~full => block_bitmap = BlocksOf(inode_bitmap)

(* What the bitmaps say is what the files have and the superblock counts.    *)
Allocation == Counters /\ BlocksOwned

(* An open handle leads to an allocated inode of its kind, and a file's      *)
(* offset lies in the file: no handle survives the deletion of what it       *)
(* stands for, however far below the deleted directory.                      *)
HandlesValid ==
  /\ \A h \in DirHandles : dir[h] # Closed => dir[h] \in Allocated("dir")
  /\ \A f \in FileHandles : files[f] # NoFile =>
       /\ files[f].inode \in Allocated("file")
       /\ files[f].offset <= Size(files[f].inode)

(* A file holds what was last written to it, at every position, whatever was *)
(* written elsewhere, created, extended or deleted since.                    *)
FilesKeepWrites ==
  \A i \in Allocated("file") : \A k \in Positions :
    written[i][k] # Junk => ByteOf(i, k) = written[i][k]

(* The root is the entry of no directory and has no parent. *)
Rooted ==
  /\ 0 \in Allocated("dir") /\ inodes[0].parent = -1
  /\ \A p \in Allocated("dir") : 0 \notin Range(inodes[p].mappings)

(* Nobody has written to an inode that is free. *)
Unwritten == \A i \in Inodes \ inode_bitmap : written[i] = Nothing

(* The inductive invariant. *)
EmInv ==
  /\ EmTypeOK /\ Rooted /\ Unwritten
  /\ Allocation /\ Tree /\ HandlesValid /\ FilesKeepWrites
=============================================================================
