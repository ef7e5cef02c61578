-------------------------------- MODULE Rfs --------------------------------
(***************************************************************************)
(* The memory file system, drvrfs.c.  Block 1 is a map of used blocks,     *)
(* block 2 the root directory, the others hold one file each.  An          *)
(* operation works on private copies: get_bitmapblk and                    *)
(* get_rootdirfile_blk read a block into a buffer, del_bitmapblk and       *)
(* del_rootdirfile_blk write it back, even when it was only looked at.     *)
(* Nothing is locked (rde_lock and rsb_lock are never taken) and the       *)
(* kernel is preemptible, so every copy of a block is a step of its own.   *)
(* The superblock is read and written back too, but never changes after    *)
(* format.  A buffer is always found (krlnew does not run out).            *)
(***************************************************************************)
EXTENDS Integers, Sequences, FiniteSets, FiniteSetsExt

CONSTANTS
    Procs,       \* threads that call the driver
    Hands,       \* handles of one thread
    Names,       \* file names that pass rfs_ret_fname
    Vals,        \* what one write appends
    BlockCount,  \* ret_rfsdevmaxblknr (1024 in the code)
    SLOTS,       \* directory entries in a block (28 in the code)
    CAP,         \* writes that fit into the block of a file
    NONE

ASSUME RfsAssumption ==
    /\ BlockCount \in Nat /\ BlockCount > 3
    /\ SLOTS \in Nat \ {0} /\ CAP \in Nat
    /\ NONE \notin Names \cup Seq(Vals)
    /\ NONE \notin [name : Names, blk : Nat, text : Seq(Vals)]
    /\ NONE \notin [name : Names, text : Seq(Vals)]

\* The blocks rfs_new_blk can find: create_bitmap marks 0 and 1,
\* create_rootdir takes 2.
Blocks == 3 .. BlockCount - 1

VARIABLES
    bitmap,      \* block 1: the used blocks
    root,        \* block 2: the directory entries up to fmd_curfinwbkoff
    data,        \* the text in each block, NONE while it was never a file's
    buf,         \* on_finode of each handle: what rfs_openfileblk returned
    loc,         \* each thread's place in an operation and its copies
    made,        \* names that rfs_new_file made and nobody deletes
    torn         \* whether a file was ever deleted while it was open

vars == <<bitmap, root, data, buf, loc, made, torn>>

Entry == [type : {"FIL", "DEL"}, name : Names \cup {NONE}, blk : Blocks \cup {0}]

Idle == [pc |-> "idle"]

\* The directory dir is to be written back, after n was made, after g was
\* deleted or after neither.
Back(n, g, dir) == [pc |-> "back", name |-> n, gone |-> g, dir |-> dir]

\* The first entry of type RDR_FIL_TYPE with the name, or 0.
FindFile(dir, n) ==
    LET found == {i \in DOMAIN dir : dir[i].type = "FIL" /\ dir[i].name = n}
    IN  IF found = {} THEN 0 ELSE Min(found)

Init ==
    /\ bitmap = {}
    /\ root = << >>
    /\ data = [b \in Blocks |-> NONE]
    /\ buf = [p \in Procs |-> [h \in Hands |-> NONE]]
    /\ loc = [p \in Procs |-> Idle]
    /\ made = {}
    /\ torn = FALSE

Deleting(n) == \E p \in Procs : "gone" \in DOMAIN loc[p] /\ loc[p].gone = n
At(p, pc) == loc[p].pc = pc
IsIdle(p) == loc[p].pc \in {"idle", "openerr"}

-----------------------------------------------------------------------------
(* rfs_new_file                                                            *)

\* rfs_chkfileisindev reads the directory.
rfs_new_file(p, n) ==
    /\ IsIdle(p)
    /\ loc' = [loc EXCEPT ![p] = [pc |-> "chk", name |-> n, dir |-> root]]
    /\ UNCHANGED <<bitmap, root, data, buf, made, torn>>

\* It writes it back; a name that is there ends the operation.
rfs_chkfileisindev(p) ==
    /\ At(p, "chk")
    /\ root' = loc[p].dir
    /\ loc' = [loc EXCEPT ![p] =
                 IF FindFile(loc[p].dir, loc[p].name) # 0 THEN Idle
                 ELSE [pc |-> "new", name |-> loc[p].name]]
    /\ UNCHANGED <<bitmap, data, buf, made, torn>>

\* rfs_new_blk reads the map.
get_bitmapblk(p) ==
    /\ At(p, "new")
    /\ loc' = [loc EXCEPT ![p] = [pc |-> "newblk", name |-> loc[p].name,
                                  map |-> bitmap]]
    /\ UNCHANGED <<bitmap, root, data, buf, made, torn>>

\* It marks the first free block and writes the map back.
rfs_new_blk(p) ==
    LET free == Blocks \ loc[p].map
    IN  /\ At(p, "newblk")
        /\ bitmap' = IF free = {} THEN loc[p].map
                     ELSE loc[p].map \cup {Min(free)}
        /\ loc' = [loc EXCEPT ![p] =
                     IF free = {} THEN Idle
                     ELSE [pc |-> "newdir", name |-> loc[p].name,
                           blk |-> Min(free)]]
        /\ UNCHANGED <<root, data, buf, made, torn>>

\* Mutant: fmd_curfinwbkoff is not advanced.
AppendInPlace(dir, e) ==
    IF dir = << >> THEN <<e>> ELSE [dir EXCEPT ![Len(dir)] = e]

AppendEntry(dir, e) == Append(dir, e)

HasRoom(dir) == Len(dir) < SLOTS

\* rfs_new_dirfileblk reads the directory and puts the entry into its copy,
\* unless it is full.
rfs_new_dirfileblk(p) ==
    LET e == [type |-> "FIL", name |-> loc[p].name, blk |-> loc[p].blk]
    IN  /\ At(p, "newdir")
        /\ loc' = [loc EXCEPT ![p] =
                     IF HasRoom(root)
                     THEN [pc |-> "newdata", name |-> loc[p].name,
                           blk |-> loc[p].blk, dir |-> AppendEntry(root, e)]
                     ELSE Back(NONE, NONE, root)]
        /\ UNCHANGED <<bitmap, root, data, buf, made, torn>>

\* The head of the empty file is written to its block.
WriteNewHead(p) ==
    /\ At(p, "newdata")
    /\ data' = [data EXCEPT ![loc[p].blk] = << >>]
    /\ loc' = [loc EXCEPT ![p] = Back(loc[p].name, NONE, loc[p].dir)]
    /\ UNCHANGED <<bitmap, root, buf, made, torn>>

\* del_rootdirfile_blk at the end of an operation; a new file is made now.
del_rootdirfile_blk(p) ==
    /\ At(p, "back")
    /\ root' = loc[p].dir
    /\ made' = IF loc[p].name = NONE \/ Deleting(loc[p].name) THEN made
               ELSE made \cup {loc[p].name}
    /\ loc' = [loc EXCEPT ![p] = Idle]
    /\ UNCHANGED <<bitmap, data, buf, torn>>

-----------------------------------------------------------------------------
(* rfs_del_file                                                            *)

\* del_dirfileblk_core reads the directory.
rfs_del_file(p, n) ==
    LET i == FindFile(root, n)
    IN  /\ IsIdle(p)
        /\ torn' = (torn \/ \E q \in Procs, h \in Hands :
                                buf[q][h] # NONE /\ buf[q][h].name = n)
        /\ loc' = [loc EXCEPT ![p] =
                     IF i = 0 THEN Back(NONE, n, root)
                     ELSE [pc |-> "del", gone |-> n, dir |-> root, slot |-> i]]
        /\ made' = made \ {n}
        /\ UNCHANGED <<bitmap, root, data, buf>>

\* rfs_del_blk reads the map ...
DelGetBitmap(p) ==
    /\ At(p, "del")
    /\ loc' = [loc EXCEPT ![p] = [pc |-> "delblk", gone |-> loc[p].gone,
                   dir |-> loc[p].dir, slot |-> loc[p].slot, map |-> bitmap]]
    /\ UNCHANGED <<bitmap, root, data, buf, made, torn>>

\* Mutant: the block stays marked.
DelBlkMarked(p) ==
    /\ At(p, "delblk")
    /\ bitmap' = loc[p].map
    /\ loc' = [loc EXCEPT ![p] =
                 Back(NONE, loc[p].gone,
                      [loc[p].dir EXCEPT ![loc[p].slot] =
                         [type |-> "DEL", name |-> NONE, blk |-> 0]])]
    /\ UNCHANGED <<root, data, buf, made, torn>>

\* ... and writes it back without the block; the entry is deleted in the copy
\* of the directory.
rfs_del_blk(p) ==
    /\ At(p, "delblk")
    /\ bitmap' = loc[p].map \ {loc[p].dir[loc[p].slot].blk}
    /\ loc' = [loc EXCEPT ![p] =
                 Back(NONE, loc[p].gone,
                      [loc[p].dir EXCEPT ![loc[p].slot] =
                         [type |-> "DEL", name |-> NONE, blk |-> 0]])]
    /\ UNCHANGED <<root, data, buf, made, torn>>

-----------------------------------------------------------------------------
(* rfs_open_file, rfs_write_file, rfs_close_file (rfs_read_file only reads  *)
(* the handle's own buffer).                                                *)

\* rfs_openfileblk reads the directory.
rfs_open_file(p, n, h) ==
    /\ IsIdle(p)
    /\ buf[p][h] = NONE
    /\ loc' = [loc EXCEPT ![p] = [pc |-> "open", name |-> n, hand |-> h,
                                  dir |-> root, known |-> n \in made]]
    /\ UNCHANGED <<bitmap, root, data, buf, made, torn>>

\* It copies the file's block, if there is one that was ever a file's.
OpenRead(p) ==
    LET i == FindFile(loc[p].dir, loc[p].name)
        b == loc[p].dir[i].blk
    IN  /\ At(p, "open")
        /\ IF i # 0 /\ data[b] # NONE
             THEN /\ buf' = [buf EXCEPT ![p][loc[p].hand] =
                               [name |-> loc[p].name, blk |-> b,
                                text |-> data[b]]]
                  /\ loc' = [loc EXCEPT ![p] = Back(NONE, NONE, loc[p].dir)]
             ELSE /\ loc' = [loc EXCEPT ![p].pc = "nofile"]
                  /\ UNCHANGED buf
        /\ UNCHANGED <<bitmap, root, data, made, torn>>

\* It writes the directory back and returns NULL.
OpenFails(p) ==
    /\ At(p, "nofile")
    /\ root' = loc[p].dir
    /\ loc' = [loc EXCEPT ![p] = [pc |-> "openerr",
                   name |-> IF loc[p].known THEN loc[p].name ELSE NONE]]
    /\ UNCHANGED <<bitmap, data, buf, made, torn>>

rfs_writefileblk(p, h, v) ==
    /\ IsIdle(p)
    /\ buf[p][h] # NONE
    /\ Len(buf[p][h].text) < CAP
    /\ buf' = [buf EXCEPT ![p][h].text = Append(@, v)]
    /\ data' = [data EXCEPT ![buf[p][h].blk] = buf'[p][h].text]
    /\ UNCHANGED <<bitmap, root, loc, made, torn>>

\* Mutant: nothing is written back.
CloseUnsaved(p, h) ==
    /\ IsIdle(p)
    /\ buf[p][h] # NONE
    /\ buf' = [buf EXCEPT ![p][h] = NONE]
    /\ UNCHANGED <<data, bitmap, root, loc, made, torn>>

\* The handle's copy goes back whole, whatever the block is by now.
rfs_closefileblk(p, h) ==
    /\ IsIdle(p)
    /\ buf[p][h] # NONE
    /\ data' = [data EXCEPT ![buf[p][h].blk] = buf[p][h].text]
    /\ buf' = [buf EXCEPT ![p][h] = NONE]
    /\ UNCHANGED <<bitmap, root, loc, made, torn>>

Next ==
    \E p \in Procs :
      \/ \E n \in Names : rfs_new_file(p, n) \/ rfs_del_file(p, n)
      \/ rfs_chkfileisindev(p) \/ get_bitmapblk(p) \/ rfs_new_blk(p)
      \/ rfs_new_dirfileblk(p) \/ WriteNewHead(p) \/ del_rootdirfile_blk(p)
      \/ DelGetBitmap(p) \/ rfs_del_blk(p)
      \/ \E n \in Names, h \in Hands : rfs_open_file(p, n, h)
      \/ OpenRead(p) \/ OpenFails(p)
      \/ \E h \in Hands : \/ \E v \in Vals : rfs_writefileblk(p, h, v)
                          \/ rfs_closefileblk(p, h)

Spec == Init /\ [][Next]_vars

-----------------------------------------------------------------------------
(* Properties.                                                             *)

Live == {i \in DOMAIN root : root[i].type = "FIL"}

\* Directory and map agree: every file has a block of its own and a name of
\* its own; between operations its block is marked, and, as long as the
\* directory is not full (rfs_new_dirfileblk then keeps the block it took),
\* no other block is.  The directory never passes the end of its block.
DirectoryExact ==
    /\ Len(root) <= SLOTS
    /\ \A i, j \in Live :
         i # j => root[i].name # root[j].name /\ root[i].blk # root[j].blk
    /\ \A i \in Live : data[root[i].blk] # NONE
    /\ (\A p \in Procs : IsIdle(p)) =>
         /\ {root[i].blk : i \in Live} \subseteq bitmap
         /\ Len(root) < SLOTS => bitmap = {root[i].blk : i \in Live}

\* What test_fsys dies for: a file that was made before the open began, and
\* that nobody deletes, can be opened.
NewFileOpens == \A p \in Procs : At(p, "openerr") => loc[p].name \notin made

\* The file system as its user sees it: the text under each name, and what
\* each handle has open.
Contents == [n \in Names |-> LET i == FindFile(root, n)
                             IN  IF i = 0 THEN NONE ELSE data[root[i].blk]]

Opened == [x \in Procs \X Hands |->
             LET b == buf[x[1]][x[2]]
             IN  IF b = NONE THEN NONE ELSE [name |-> b.name, text |-> b.text]]

Store == INSTANCE FileStore WITH
    Hands <- Procs \X Hands, files <- Contents, open <- Opened

\* Map, directory and blocks together implement named files: what a handle
\* reads is what the last write or close under that name left, across
\* deletion, reuse of blocks and a full directory, until a file is deleted
\* while it is open: rfs_closefileblk then writes to a block that may be
\* another file's.
ImplementsFileStore == Store!Init /\ [][Store!Next \/ torn']_(Store!vars)
=============================================================================
