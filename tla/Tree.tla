-------------------------------- MODULE Tree --------------------------------
(***************************************************************************)
(* The tree of files, ext4_utils/make_ext4fs.c and contents.c:             *)
(* build_directory_structure reads a directory, make_directory gives it an *)
(* inode and lays out its entries without inodes, then every entry gets    *)
(* one, directories by recursion, and its number is stored through a       *)
(* pointer into the data that is queued already.                           *)
(*                                                                         *)
(* The calls are the steps, and the frames of the recursion a stack.  The  *)
(* inode allocator is Inodes, the layout of the directory at hand is       *)
(* Directory; the space for data may run out at any time.                  *)
(***************************************************************************)
EXTENDS Inodes, Directory

CONSTANTS
    SourceTrees,   \* the trees there may be to copy
    ReservedFiles, \* EXT4_RESIZE_INO and EXT4_JOURNAL_INO
    U16            \* the modulus of i_links_count, 2^16

\* A tree is a sequence of nodes: the root comes first, and parents before children;
\* kids are the entries of a directory in alphabetical order, as scandir gives them.
Nodes == [kind : {"dir", "file", "link", "other"}, parent : Nat, kids : Seq(Nat \ {0}),
          name : NameLens]

ASSUME TreesAreTrees ==
    /\ U16 \in Nat /\ U16 > 1
    /\ ReservedFiles \subseteq 1 .. FirstInodes /\ EXT4_ROOT_INO \notin ReservedFiles
    /\ \A t \in SourceTrees :
          /\ t \in Seq(Nodes) /\ Len(t) > 0 /\ t[1].kind = "dir"
          /\ \A n \in 2 .. Len(t) : t[n].parent \in 1 .. (n - 1) /\ t[t[n].parent].kind = "dir"
          /\ \A n \in 1 .. Len(t) :
                /\ {t[n].kids[k] : k \in DOMAIN t[n].kids} = {m \in 2 .. Len(t) : t[m].parent = n}
                /\ \A j, k \in DOMAIN t[n].kids : t[n].kids[j] = t[n].kids[k] => j = k

VARIABLES
    tree,   \* the tree to copy
    stack,  \* calls of build_directory_structure, the current one first
    child,  \* the inode of the entry at hand
    disk,   \* what the inodes hold
    at      \* the next call

treeVars == <<tree, stack, child, disk, at>>
vars == <<inodeVars, directoryVars, treeVars>>

Kids(n) == tree[n].kids

Subdirs(n) == Cardinality({m \in DOMAIN tree : m > 1 /\ tree[m].parent = n /\ tree[m].kind = "dir"})

\* dir_inode is 0 for the root; next is the index of the loop over the entries.
Frame(n, dir_inode) == [node |-> n, dir_inode |-> dir_inode, inode |-> 0, next |-> 1]

Top   == Head(stack)
Entry == Kids(Top.node)[Top.next]

Init ==
    /\ InodesInit /\ DirectoryInit
    /\ tree \in SourceTrees
    /\ stack = <<>> /\ child = 0 /\ disk = <<>>
    /\ at = "reserve"

\* The disk with one inode more.
WithInode(inode, data) ==
    [n \in DOMAIN disk \cup {inode} |-> IF n = inode THEN data ELSE disk[n]]

\* A call, from one place to the next.
Call(from, to) ==
    /\ at = from /\ at' = to
    /\ UNCHANGED tree

-----------------------------------------------------------------------------
(* make_ext4fs, before the tree                                            *)

reserve ==
    /\ at = "reserve"
    /\ reserve_first_inodes
    /\ at' = IF stage' = "exit" THEN "end" ELSE "reserved"
    /\ UNCHANGED <<directoryVars, tree, stack, child, disk>>

FileInode == [type |-> "file", links |-> 1, mode |-> 0, entries |-> <<>>]

\* The resize and the journal inode lie in the first group.
create_reserved ==
    /\ Call("reserved", "scan")
    /\ get_inode(1)
    /\ disk' = [n \in ReservedFiles |-> FileInode]
    /\ stack' = <<Frame(1, 0)>>
    /\ UNCHANGED <<directoryVars, child>>

-----------------------------------------------------------------------------
(* A directory                                                             *)

\* scandir, and lstat of every entry.
scan_directory ==
    /\ Call("scan", "dir_inode")
    /\ new_directory([k \in DOMAIN Kids(Top.node) |-> tree[Kids(Top.node)[k]].name])
    /\ UNCHANGED <<inodeVars, stack, child, disk>>

\* make_directory begins with dentry_size.
count_dentries ==
    /\ Call("dir_inode", "dir_inode")
    /\ count_entry
    /\ UNCHANGED <<inodeVars, stack, child, disk>>

\* The root has its number, and is its own "..".
root_inode ==
    /\ Call("dir_inode", "add_directory") /\ AllCounted
    /\ Top.dir_inode = 0
    /\ stack' = [stack EXCEPT ![1].inode = EXT4_ROOT_INO, ![1].dir_inode = EXT4_ROOT_INO]
    /\ UNCHANGED <<inodeVars, directoryVars, child, disk>>

new_dir_inode ==
    /\ Call("dir_inode", "add_directory") /\ AllCounted
    /\ Top.dir_inode # 0
    /\ \E bg \in Groups :
          /\ allocate_inode(bg)
          /\ stack' = [stack EXCEPT ![1].inode = NextInode(bg)]
    /\ UNCHANGED <<directoryVars, child, disk>>

\* MUTANT: the parent is counted.
count_directory_Parent ==
    /\ Call("add_directory", "get_dir_inode")
    /\ add_directory(Top.dir_inode)
    /\ UNCHANGED <<directoryVars, stack, child, disk>>

\* MUTANT: the root is not counted.
count_directory_NotRoot ==
    /\ Call("add_directory", "get_dir_inode")
    /\ IF Top.inode = EXT4_ROOT_INO THEN UNCHANGED inodeVars ELSE add_directory(Top.inode)
    /\ UNCHANGED <<directoryVars, stack, child, disk>>

count_directory ==
    /\ Call("add_directory", "get_dir_inode")
    /\ add_directory(Top.inode)
    /\ UNCHANGED <<directoryVars, stack, child, disk>>

get_dir_inode ==
    /\ Call("get_dir_inode", "dir_data")
    /\ get_inode(Top.inode)
    /\ UNCHANGED <<directoryVars, stack, child, disk>>

\* MUTANT: the entry in the parent is not counted.
links_NoParent(n) == (Subdirs(n) + 1) % U16

\* i_links_count: ".", the entry in the parent, and ".." of every child, in 16 bits.
links(n) == (Subdirs(n) + 2) % U16

\* The names of entries: of nodes, and two more.
Dot    == 0
DotDot == -1

DirEntry(name, inode, type) == [name |-> name, inode |-> inode, file_type |-> type]

\* The space is there: the inode, "." and "..".
dir_data ==
    /\ Call("dir_data", "entries")
    /\ make_directory
    /\ disk' = WithInode(Top.inode, [type |-> "dir", links |-> links(Top.node), mode |-> 0,
                                     entries |-> <<DirEntry(Dot, Top.inode, "dir"),
                                                   DirEntry(DotDot, Top.dir_inode, "dir")>>])
    /\ UNCHANGED <<inodeVars, stack, child>>

\* One turn of the loop; the inode of the entry is filled in later.
add_child_entry ==
    /\ at = "entries"
    /\ add_entry
    /\ disk' = [disk EXCEPT ![Top.inode].entries =
                    Append(@, DirEntry(Kids(Top.node)[i'], 0, tree[Kids(Top.node)[i']].kind))]
    /\ IF pc' = "internal_error" THEN at' = "end" /\ stage' = "exit" ELSE UNCHANGED <<at, stage>>
    /\ UNCHANGED <<bgs, given, dirs, desc, sb, tree, stack, child>>

end_directory ==
    /\ Call("entries", "fill")
    /\ add_last
    /\ UNCHANGED <<inodeVars, stack, child, disk>>

-----------------------------------------------------------------------------
(* Its entries                                                             *)

\* MUTANT: the directory becomes a child of its grandparent.
fill_directory_Grandparent ==
    /\ Call("fill", "scan")
    /\ Top.next <= Len(Kids(Top.node)) /\ tree[Entry].kind = "dir"
    /\ stack' = <<Frame(Entry, Top.dir_inode)>> \o stack
    /\ UNCHANGED <<inodeVars, directoryVars, child, disk>>

fill_directory ==
    /\ Call("fill", "scan")
    /\ Top.next <= Len(Kids(Top.node)) /\ tree[Entry].kind = "dir"
    /\ stack' = <<Frame(Entry, Top.inode)>> \o stack
    /\ UNCHANGED <<inodeVars, directoryVars, child, disk>>

\* make_file and make_link
fill_file ==
    /\ Call("fill", "get_child")
    /\ Top.next <= Len(Kids(Top.node)) /\ tree[Entry].kind \in {"file", "link"}
    /\ \E bg \in Groups : allocate_inode(bg) /\ child' = NextInode(bg)
    /\ UNCHANGED <<directoryVars, stack, disk>>

\* MUTANT: another inode is taken.
get_child_Again ==
    /\ Call("get_child", "child_data")
    /\ \E bg \in Groups : allocate_inode(bg) /\ child' = NextInode(bg)
    /\ UNCHANGED <<directoryVars, stack, disk>>

get_child ==
    /\ Call("get_child", "child_data")
    /\ get_inode(child)
    /\ UNCHANGED <<directoryVars, stack, child, disk>>

child_data ==
    /\ Call("child_data", "store")
    /\ disk' = WithInode(child, [FileInode EXCEPT !.type = tree[Entry].kind])
    /\ UNCHANGED <<inodeVars, directoryVars, stack, child>>

\* MUTANT: the number goes to the entry in front.
store_inode_OffByOne ==
    /\ Call("store", "fill")
    /\ get_inode(child)
    /\ disk' = [disk EXCEPT ![Top.inode].entries[Top.next + 1].inode = child,
                            ![child].mode = Entry]
    /\ stack' = [stack EXCEPT ![1].next = @ + 1]
    /\ UNCHANGED <<directoryVars, child>>

\* *dentries[i].inode, behind "." and "..", and inode_set_permissions.
store_inode ==
    /\ Call("store", "fill")
    /\ get_inode(child)
    /\ disk' = [disk EXCEPT ![Top.inode].entries[Top.next + 2].inode = child,
                            ![child].mode = Entry]
    /\ stack' = [stack EXCEPT ![1].next = @ + 1]
    /\ UNCHANGED <<directoryVars, child>>

\* The call returns the inode of the directory, to a caller that stores it.
return ==
    /\ at = "fill" /\ Top.next > Len(Kids(Top.node))
    /\ child' = Top.inode
    /\ stack' = Tail(stack)
    /\ at' = IF stack' = <<>> THEN "root_mode" ELSE "store"
    /\ UNCHANGED <<inodeVars, directoryVars, tree, disk>>

root_mode ==
    /\ Call("root_mode", "update")
    /\ get_inode(child)
    /\ disk' = [disk EXCEPT ![child].mode = 1]
    /\ UNCHANGED <<directoryVars, stack, child>>

update ==
    /\ Call("update", "end")
    /\ ext4_update_free
    /\ UNCHANGED <<directoryVars, stack, child, disk>>

-----------------------------------------------------------------------------
(* Errors                                                                  *)

no_inode_left ==
    /\ \/ at = "dir_inode" /\ AllCounted /\ Top.dir_inode # 0
       \/ at = "fill" /\ Top.next <= Len(Kids(Top.node)) /\ tree[Entry].kind \in {"file", "link"}
    /\ allocate_inode_fails
    /\ at' = "end"
    /\ UNCHANGED <<directoryVars, tree, stack, child, disk>>

\* The source cannot be read, there is no space, or an entry is of a kind that is
\* refused only when its turn comes.
call_fails ==
    /\ \/ at \in {"reserved", "scan", "dir_data", "child_data"}
       \/ at = "fill" /\ Top.next <= Len(Kids(Top.node)) /\ tree[Entry].kind = "other"
    /\ give_up
    /\ at' = "end"
    /\ UNCHANGED <<directoryVars, tree, stack, child, disk>>

Next ==
    \/ reserve
    \/ create_reserved
    \/ scan_directory
    \/ count_dentries
    \/ root_inode
    \/ new_dir_inode
    \/ count_directory
    \/ get_dir_inode
    \/ dir_data
    \/ add_child_entry
    \/ end_directory
    \/ fill_directory
    \/ fill_file
    \/ get_child
    \/ child_data
    \/ store_inode
    \/ return
    \/ root_mode
    \/ update
    \/ no_inode_left
    \/ call_fails

Spec == Init /\ [][Next]_vars

-----------------------------------------------------------------------------
(* Properties                                                              *)

\* The entries of the directory on the disk that inode n is.
EntriesOf(n) == {disk[n].entries[k] : k \in DOMAIN disk[n].entries}

\* The inode that node n has: the one its entry in its parent's directory names.
InodeOf ==
    LET f[n \in DOMAIN tree] ==
            IF n = 1 THEN EXT4_ROOT_INO
            ELSE (CHOOSE e \in EntriesOf(f[tree[n].parent]) : e.name = n).inode
    IN  f

Built == stage = "updated"

\* A tree that was built is the source: under each path, by the names in the
\* directories, lie the kind of file, the mode and the entries, in order, of the
\* source, ".." leads back, and the inode's table is queued
\* (make_ext4fs.c:158-183, contents.c:125-150, allocate.c:665).
TreeMirrored ==
    Built => \A n \in DOMAIN tree :
        LET d == disk[InodeOf[n]] IN
        /\ d.type = tree[n].kind /\ d.mode = n /\ bgs[GroupOf(InodeOf[n])].inode_table
        /\ tree[n].kind = "dir" =>
              d.entries = <<DirEntry(Dot, InodeOf[n], "dir"),
                            DirEntry(DotDot, InodeOf[IF n = 1 THEN 1 ELSE tree[n].parent], "dir")>>
                          \o [k \in DOMAIN Kids(n) |->
                                 DirEntry(Kids(n)[k], InodeOf[Kids(n)[k]], tree[Kids(n)[k]].kind)]

\* Every inode that is in use is reserved or in the tree: none is lost on the way
\* and none is in two places; and what the allocator counts as directories are the
\* directories of the tree (contents.c:97, 108, 168, 197).
NoOrphans ==
    Built =>
        /\ given = (1 .. FirstInodes) \cup {InodeOf[n] : n \in DOMAIN tree}
        /\ Cardinality({InodeOf[n] : n \in DOMAIN tree}) = Len(tree)
        /\ dirs = {InodeOf[n] : n \in {m \in DOMAIN tree : tree[m].kind = "dir"}}

\* The entries of the disk that name inode n.
LinksTo(n) == {p \in (DOMAIN disk) \X (1 .. (Len(tree) + 2)) :
                  /\ p[2] \in DOMAIN disk[p[1]].entries
                  /\ disk[p[1]].entries[p[2]].inode = n}

\* The links an inode counts are the entries that name it (contents.c:123, 184, 210),
\* as many as 16 bits can count: with 65534 directories in it, a directory has none.
LinkCounts ==
    Built => \A n \in DOMAIN disk \ ReservedFiles :
        disk[n].links = Cardinality(LinksTo(n)) % U16

\* What is on the disk is only added to: an inode is not made a second time, and the
\* number in an entry is stored once, never over another (make_ext4fs.c:172,
\* contents.c:145).
StoredOnce ==
    [][\A n \in DOMAIN disk :
          /\ n \in DOMAIN disk' /\ disk'[n].type = disk[n].type
          /\ \A k \in DOMAIN disk[n].entries :
                LET old == disk[n].entries[k]
                    new == disk'[n].entries[k]
                IN  /\ k \in DOMAIN disk'[n].entries
                    /\ \/ new = old
                       \/ old.inode = 0 /\ new = [old EXCEPT !.inode = new.inode]]_vars
==============================================================================
