------------------------------ MODULE MemoryFs ------------------------------
(***************************************************************************)
(* The in-memory filesystem server (os/ot/user/fs/impl-memory.cpp) and its *)
(* clients.  A request is one step, the server's handler.  A path is the   *)
(* sequence of its components; it is long when it was spelled with more    *)
(* than MAX_PATH_LENGTH characters, by further slashes for instance.       *)
(***************************************************************************)
EXTENDS Integers, SequencesExt

CONSTANTS
  MAX_OPEN_HANDLES,  \* entries of the handle table
  Names,             \* names of files and directories
  MaxDepth,          \* bound on the components of a path
  Spellings,         \* subset of {"short", "long"}
  FlagSets,          \* flags that clients open with, of "CREATE" and "TRUNCATE"
  Cells,             \* contents of a unit of data
  MaxSize,           \* bound on the units of a file
  MaxInodes,         \* bound on next_inode_num
  MaxHandleId        \* bound on next_handle_id

ASSUME MemoryFsAssumption ==
  /\ MAX_OPEN_HANDLES \in Nat \ {0}
  /\ MaxDepth \in Nat /\ MaxSize \in Nat /\ MaxInodes \in Nat /\ MaxHandleId \in Nat
  /\ "" \notin Names
  /\ Spellings \subseteq {"short", "long"}
  /\ FlagSets \subseteq SUBSET {"CREATE", "TRUNCATE"}

VARIABLES
  inodes,          \* every inode ever made, by number
  handles,         \* the handle table
  next_handle_id,
  held,            \* the handles clients have open, with the inode each opened
  closed           \* the handles clients have closed

memoryFsVars == <<inodes, handles, next_handle_id, held, closed>>

RootInode == 0
NotFound == -1
Deleted == ""
Components == BoundedSeq(Names, MaxDepth)
Paths == [parts : Components, spelling : Spellings]
Ids == 1 .. MaxHandleId
InodeNums == 0 .. MaxInodes

INode == [type : {"FILE", "DIRECTORY"}, name : Names \cup {Deleted}, parent_inode : InodeNums,
          data : Seq(Cells \cup {0}), children : Seq(InodeNums)]
FileHandle == [handle_id : Ids, inode_num : InodeNums, is_open : BOOLEAN]

MemoryFsTypeOK ==
  /\ DOMAIN inodes \subseteq InodeNums
  /\ \A n \in DOMAIN inodes : inodes[n] \in INode /\ Len(inodes[n].data) <= MaxSize
  /\ handles \in Seq(FileHandle)
  /\ next_handle_id \in 1 .. MaxHandleId + 1
  /\ held \subseteq Ids \X InodeNums
  /\ closed \subseteq Ids

-----------------------------------------------------------------------------
(* Inodes and paths *)

next_inode_num == Cardinality(DOMAIN inodes)
IsDirectory(n) == inodes[n].type = "DIRECTORY"

NewInode(type, name, parent) ==
  [type |-> type, name |-> name, parent_inode |-> parent, data |-> <<>>, children |-> <<>>]

\* The first child of that name.
ChildOf(n, name) ==
  LET matches == {i \in DOMAIN inodes[n].children : inodes[inodes[n].children[i]].name = name}
  IN IF n = NotFound \/ ~IsDirectory(n) \/ matches = {} THEN NotFound
     ELSE inodes[n].children[Min(matches)]

Walk(parts) ==
  LET reached[i \in 0 .. Len(parts)] ==
        IF i = 0 THEN RootInode ELSE ChildOf(reached[i - 1], parts[i])
  IN reached[Len(parts)]
resolve_path(path) == IF path.spelling = "long" THEN NotFound ELSE Walk(path.parts)

\* The directory a new file or directory goes to, or NotFound.  Its path is put together
\* anew from the components.
Parent(parts) ==
  LET n == IF parts = <<>> THEN NotFound ELSE Walk(Front(parts))
  IN IF n # NotFound /\ IsDirectory(n) THEN n ELSE NotFound

Added(type, parts) ==
  LET new == next_inode_num
      linked == [inodes EXCEPT ![Parent(parts)].children = Append(@, new)]
  IN [n \in DOMAIN inodes \cup {new} |->
        IF n = new THEN NewInode(type, Last(parts), Parent(parts)) ELSE linked[n]]

\* Take n off its parent's children.  The inode itself stays, without name and data.
ChildrenWithout(children, n) == RemoveFirstMatch(children, LAMBDA m : m = n)
Removed(n) ==
  LET unlinked == [inodes EXCEPT ![inodes[n].parent_inode].children = ChildrenWithout(@, n)]
  IN [unlinked EXCEPT ![n].name = Deleted, ![n].data = <<>>]

-----------------------------------------------------------------------------
(* Handles *)

find_handle(id) == {i \in DOMAIN handles : handles[i].handle_id = id /\ handles[i].is_open}
ClosedSlots == {i \in DOMAIN handles : ~handles[i].is_open}
TableFull == ClosedSlots = {} /\ Len(handles) >= MAX_OPEN_HANDLES

Handle(id, n) == [handle_id |-> id, inode_num |-> n, is_open |-> TRUE]

\* Mutant: a closed slot keeps its id when it is used again.
allocate_handleSameId(n) ==
  LET slot == Min(ClosedSlots)
      id == IF ClosedSlots = {} THEN next_handle_id ELSE handles[slot].handle_id
  IN /\ ~TableFull
     /\ next_handle_id <= MaxHandleId
     /\ handles' = IF ClosedSlots = {} THEN Append(handles, Handle(id, n))
                   ELSE [handles EXCEPT ![slot] = Handle(id, n)]
     /\ next_handle_id' = next_handle_id + 1
     /\ held' = held \cup {<<id, n>>}
     /\ UNCHANGED closed

\* The first closed slot, or a new one; the id is new in any case.
allocate_handle(n) ==
  LET slot == Min(ClosedSlots)
      id == next_handle_id
  IN /\ ~TableFull
     /\ id <= MaxHandleId
     /\ handles' = IF ClosedSlots = {} THEN Append(handles, Handle(id, n))
                   ELSE [handles EXCEPT ![slot] = Handle(id, n)]
     /\ next_handle_id' = id + 1
     /\ held' = held \cup {<<id, n>>}
     /\ UNCHANGED closed

\* FILESYSTEM__TOO_MANY_OPEN_FILES: the file has been created or truncated all the same.
TooManyOpenFiles == TableFull /\ UNCHANGED <<handles, next_handle_id, held, closed>>

-----------------------------------------------------------------------------
(* The handlers *)

OpenExisting(path, flags) ==
  LET n == resolve_path(path) IN
  /\ n # NotFound
  /\ inodes' = IF "TRUNCATE" \in flags /\ ~IsDirectory(n)
               THEN [inodes EXCEPT ![n].data = <<>>] ELSE inodes
  /\ allocate_handle(n) \/ TooManyOpenFiles

OpenCreates(path, flags) ==
  /\ resolve_path(path) = NotFound
  /\ "CREATE" \in flags
  /\ Parent(path.parts) # NotFound
  /\ next_inode_num <= MaxInodes
  /\ inodes' = Added("FILE", path.parts)
  /\ allocate_handle(next_inode_num) \/ TooManyOpenFiles

\* FILE_NOT_FOUND or PARENT_NOT_FOUND.
OpenFails(path, flags) ==
  /\ resolve_path(path) = NotFound
  /\ "CREATE" \notin flags \/ Parent(path.parts) = NotFound
  /\ UNCHANGED memoryFsVars

Open(path, flags) ==
  \/ OpenExisting(path, flags)
  \/ OpenCreates(path, flags)
  \/ OpenFails(path, flags)

\* resize and overwrite: gaps read as 0.
Spliced(data, offset, cell) ==
  [i \in 1 .. (IF Len(data) > offset THEN Len(data) ELSE offset + 1) |->
     CASE i = offset + 1 -> cell
       [] i # offset + 1 /\ i <= Len(data) -> data[i]
       [] OTHER -> 0]

\* INVALID_HANDLE when the handle is not open, IO_ERROR when it is a directory's.
WriteFile(id, offset, cell) ==
  /\ \E i \in find_handle(id) :
       LET n == handles[i].inode_num IN
       /\ ~IsDirectory(n)
       /\ inodes' = [inodes EXCEPT ![n].data = Spliced(@, offset, cell)]
  /\ UNCHANGED <<handles, next_handle_id, held, closed>>

CloseSlot(id) ==
  /\ find_handle(id) # {}
  /\ handles' = [handles EXCEPT ![Min(find_handle(id))].is_open = FALSE]
  /\ UNCHANGED <<inodes, next_handle_id>>

Close(h) ==
  /\ CloseSlot(h[1])
  /\ held' = held \ {h}
  /\ closed' = closed \cup {h[1]}

\* A client closes a handle once more: INVALID_HANDLE, or whatever has the id now.
CloseAgain(id) ==
  /\ CloseSlot(id) \/ (find_handle(id) = {} /\ UNCHANGED <<inodes, handles, next_handle_id>>)
  /\ UNCHANGED <<held, closed>>

\* Mutant: does not look whether the path is taken.
CreateOver(type, path) ==
  /\ path.spelling # "long"
  /\ Parent(path.parts) # NotFound
  /\ next_inode_num <= MaxInodes
  /\ inodes' = Added(type, path.parts)
  /\ UNCHANGED <<handles, next_handle_id, held, closed>>
\* create_file and create_dir.
Create(type, path) ==
  /\ path.spelling # "long"
  /\ resolve_path(path) = NotFound
  /\ Parent(path.parts) # NotFound
  /\ next_inode_num <= MaxInodes
  /\ inodes' = Added(type, path.parts)
  /\ UNCHANGED <<handles, next_handle_id, held, closed>>

DeleteFile(path) ==
  /\ resolve_path(path) # NotFound
  /\ ~IsDirectory(resolve_path(path))
  /\ inodes' = Removed(resolve_path(path))
  /\ UNCHANGED <<handles, next_handle_id, held, closed>>

\* Mutant: deletes directories with what is in them.
DeleteDirFull(path) ==
  /\ resolve_path(path) # NotFound
  /\ IsDirectory(resolve_path(path))
  /\ inodes' = Removed(resolve_path(path))
  /\ UNCHANGED <<handles, next_handle_id, held, closed>>
\* The root, when empty, is "deleted" with success: it is nobody's child and stays.
DeleteDir(path) ==
  /\ resolve_path(path) # NotFound
  /\ IsDirectory(resolve_path(path))
  /\ inodes[resolve_path(path)].children = <<>>
  /\ inodes' = Removed(resolve_path(path))
  /\ UNCHANGED <<handles, next_handle_id, held, closed>>

\* The names handle_list_dir writes to the comm page.
list_dir(n) == [i \in DOMAIN inodes[n].children |-> inodes[inodes[n].children[i]].name]

MemoryFsInit ==
  /\ inodes = [n \in {RootInode} |-> NewInode("DIRECTORY", Deleted, RootInode)]
  /\ handles = <<>>
  /\ next_handle_id = 1
  /\ held = {}
  /\ closed = {}

MemoryFsNext ==
  \/ \E path \in Paths :
       \/ \E flags \in FlagSets : Open(path, flags)
       \/ \E type \in {"FILE", "DIRECTORY"} : Create(type, path)
       \/ DeleteFile(path)
       \/ DeleteDir(path)
  \/ \E h \in held :
       \/ Close(h)
       \/ \E offset \in 0 .. MaxSize - 1, cell \in Cells : WriteFile(h[1], offset, cell)
  \/ \E id \in closed : CloseAgain(id)

MemoryFsSpec == MemoryFsInit /\ [][MemoryFsNext]_memoryFsVars

-----------------------------------------------------------------------------
Children(n) == Range(inodes[n].children)

\* Every inode that was not deleted is listed once, by the directory it names as its
\* parent; a deleted one is listed nowhere and has no children, so nothing is stranded
\* under it (Added, Removed: handle_open, handle_create_*, handle_delete_*).
TreeSound ==
  \A n \in DOMAIN inodes \ {RootInode} :
    /\ \A d \in DOMAIN inodes :
         Cardinality({i \in DOMAIN inodes[d].children : inodes[d].children[i] = n})
           = IF d = inodes[n].parent_inode /\ inodes[n].name # Deleted THEN 1 ELSE 0
    /\ inodes[n].name # Deleted => IsDirectory(inodes[n].parent_inode)
    /\ inodes[n].name = Deleted => inodes[n].children = <<>>
    /\ ~IsDirectory(n) => inodes[n].children = <<>>

\* What list_dir shows is what paths find: each entry once, and none hidden behind
\* another of its name.
ListingAgrees ==
  \A parts \in Components :
    LET d == Walk(parts) IN
    d # NotFound /\ IsDirectory(d) =>
      \A i \in DOMAIN inodes[d].children :
        ChildOf(d, list_dir(d)[i]) = inodes[d].children[i]

\* Both, after any sequence of creations and deletions.
DirectoriesSound == TreeSound /\ ListingAgrees

\* A handle that a client holds is open and names the file the client opened, whatever
\* other clients opened and closed meanwhile, or closed twice; and no two have one
\* handle.  Closed slots are used again before the table grows, so that it never outgrows
\* its limit however many files are opened (allocate_handle, find_handle, handle_close).
HandlesNameTheirFile ==
  /\ Len(handles) <= MAX_OPEN_HANDLES
  /\ \A h \in held :
       /\ \E i \in find_handle(h[1]) : handles[i].inode_num = h[2]
       /\ \A g \in held \ {h} : g[1] # h[1]

\* The filesystem as its paths show it.
treeBar ==
  LET at == [parts \in Components |-> Walk(parts)]
  IN [parts \in {p \in Components : at[p] # NotFound} |->
       [type |-> inodes[at[parts]].type, data |-> inodes[at[parts]].data]]

T == INSTANCE Tree WITH Paths <- Components, tree <- treeBar

\* The server implements a tree of files and directories.  (T!Spec; where no variable of
\* the server changes the tree does not either, and the disjunct saves comparing it.)
ImplementsTree == T!Init /\ [][UNCHANGED memoryFsVars \/ T!Next]_treeBar
=============================================================================
