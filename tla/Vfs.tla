-------------------------------- MODULE Vfs --------------------------------
(***************************************************************************)
(* The name space of the kernel: dentries, inodes, mounts, path resolution *)
(* (resolve, reduce, pathname_from) and the operations that change it      *)
(* (create, symlink, link, unlink, mount).  kernel/source/system/vfs.cpp   *)
(* and the two file systems under it, tmpfs and devtmpfs, whose operations *)
(* on names only hand out inodes and count links.                          *)
(*                                                                         *)
(* A call that fails changes nothing: the guards of an action are the      *)
(* conditions under which the function returns a value.  Calls are atomic, *)
(* because one thread at a time works on the name space: the task that     *)
(* unpacks the initramfs, later the only thread of the only process.       *)
(*                                                                         *)
(* lib::path normalises whatever it is made from, so ".." is left only at  *)
(* the front of a relative path, and "." and "" are the same empty path.   *)
(***************************************************************************)
EXTENDS Integers, FiniteSets, SequencesExt

CONSTANTS
  Names,         \* names of files
  SymloopMax,    \* vfs::symloop_max, the links one reduce() follows
  StackMax,      \* nested calls of resolve() and reduce() that fit the stack
  WalkMax,       \* steps of one walk that are computed
  LinkTargets,   \* bound: what symbolic links say
  MaxSegments,   \* bound: segments of a path
  MaxDentries,   \* bound: dentries ever made
  MaxMounts      \* bound: mounts

VARIABLE
  ns             \* the name space, a record of
                 \*   dentries: sequence of [name, parent, inode, symlinked_to]
                 \*   children: of each dentry, a function from names to dentries
                 \*   inodes:   sequence of [type, nlink]
                 \*   mounts:   sequence of [root, mounted_on]

vars == <<ns>>

DotDot == ".."
HiddenName == "this shouldn't be visible anywhere"
NoPath == [abs |-> FALSE, segs |-> <<>>]
Types == {"dir", "reg", "chr", "lnk"}

\* lib::path after normalise().
Paths ==
  LET Words(n) == UNION {[1..k -> Names] : k \in 0..n}
      Dots(k) == [i \in 1..k |-> DotDot]
  IN  {[abs |-> TRUE, segs |-> w] : w \in Words(MaxSegments)}
        \cup UNION {{[abs |-> FALSE, segs |-> Dots(k) \o w] : w \in Words(MaxSegments - k)} :
                       k \in 0..MaxSegments}

VfsAssumption ==
  /\ IsFiniteSet(Names) /\ {DotDot, "/", HiddenName} \cap Names = {}
  /\ {SymloopMax, StackMax, WalkMax, MaxSegments} \subseteq Nat \ {0}
  /\ MaxDentries \in Nat /\ MaxMounts \in Nat
  /\ LinkTargets \subseteq Paths

Dirname(p) == [p EXCEPT !.segs = Front(@)]
Basename(p) == Last(p.segs)

\* vfs::root, the dentry that names "/"; the roots of tmpfs and devtmpfs, which
\* carry a name that must never be seen.
Root == 1
TmpfsRoot == 2
DevtmpfsRoot == 3
RootPath == [mnt |-> 1, dentry |-> Root]

TypeOf(t, d) == t.inodes[t.dentries[d].inode].type

Init ==
  ns = [dentries |-> <<[name |-> "/", parent |-> Root, inode |-> 1, symlinked_to |-> NoPath],
                       [name |-> HiddenName, parent |-> 0, inode |-> 2, symlinked_to |-> NoPath],
                       [name |-> HiddenName, parent |-> 0, inode |-> 3, symlinked_to |-> NoPath]>>,
        children |-> [d \in 1..3 |-> << >>],
        inodes |-> [i \in 1..3 |-> [type |-> "dir", nlink |-> 1]],
        mounts |-> <<[root |-> TmpfsRoot, mounted_on |-> [mnt |-> 0, dentry |-> Root]]>>]

-----------------------------------------------------------------------------
(* Path resolution.  resolve() and reduce() call each other; a walk is the *)
(* stack of their frames, and the value that the last call returned.       *)

\* What is seen at a dentry of a mount: the root of the mount over it, again
\* and again.
Over(t, p) == {i \in DOMAIN t.mounts : t.mounts[i].mounted_on = p}
Above(t, p) ==
  IF Over(t, p) = {} THEN p
  ELSE [mnt |-> Min(Over(t, p)), dentry |-> t.mounts[Min(Over(t, p))].root]
OnTop(t, path) ==
  LET after[i \in 0..Len(t.mounts)] == IF i = 0 THEN path ELSE Above(t, after[i - 1])
  IN  after[Len(t.mounts)]

\* The lambda resolve_mounts: from the root of a mount to what it covers.
Below(t, p) == IF p.dentry = t.mounts[p.mnt].root THEN t.mounts[p.mnt].mounted_on ELSE p
ResolveMounts(t, path) ==
  LET after[i \in 0..Len(t.mounts)] == IF i = 0 THEN path ELSE Below(t, after[i - 1])
  IN  after[Len(t.mounts)]

\* A mutation: the mount stays the one above when the path crosses it.
BugParentOf(t, path) == ResolveMounts(t, [path EXCEPT !.dentry = t.dentries[ResolveMounts(t, path).dentry].parent])

ParentOf(t, path) ==
  LET p == ResolveMounts(t, path)
  IN  ResolveMounts(t, [p EXCEPT !.dentry = t.dentries[@].parent])

IsSymlink(t, path) ==
  TypeOf(t, path.dentry) = "lnk" /\ t.dentries[path.dentry].symlinked_to # NoPath

None == [err |-> "none"]
Fail(e) == [err |-> e]
Found(parent, target) == [err |-> "ok", parent |-> parent, target |-> target]

ResolveFrame(parent, p) ==
  [call |-> "resolve", cur |-> IF p.abs THEN RootPath ELSE parent, segs |-> p.segs]
ReduceFrame(parent, src) ==
  [call |-> "reduce", parent |-> parent, src |-> src, depth |-> SymloopMax]

\* What a step leaves in place of the frame on top, and what it returns.
Return(val) == [frames |-> <<>>, val |-> val]
GoOn(frame) == [frames |-> <<frame>>, val |-> None]
Call(f, frame) == [frames |-> <<f, frame>>, val |-> None]

\* resolve() goes into the directory it has found, after reduce() if it was a
\* symbolic link.
Enter(t, f, next) ==
  IF TypeOf(t, next.dentry) # "dir" THEN Return(Fail("not_a_dir"))
  ELSE GoOn([f EXCEPT !.cur = next, !.segs = Tail(@)])

\* One segment of resolve(); populate() finds nothing in either file system.
ResolveStep(t, f, val) ==
  LET segment == Head(f.segs)
      last == Len(f.segs) = 1
      up == ParentOf(t, f.cur)
      next == OnTop(t, [f.cur EXCEPT !.dentry = t.children[@][segment]])
  IN  CASE val.err = "ok" -> Enter(t, f, val.target)
        [] val.err \notin {"ok", "none"} -> Return(val)
        [] val = None /\ f.segs = <<>> -> Return(Found(f.cur, f.cur))
        [] val = None /\ f.segs # <<>> /\ segment = DotDot ->
             IF last THEN Return(Found(ParentOf(t, up), up))
             ELSE GoOn([f EXCEPT !.cur = up, !.segs = Tail(@)])
        [] val = None /\ f.segs # <<>> /\ segment # DotDot ->
             IF segment \notin DOMAIN t.children[f.cur.dentry] THEN Return(Fail("not_found"))
             ELSE IF last THEN Return(Found(f.cur, next))
             ELSE IF TypeOf(t, next.dentry) = "lnk" THEN Call(f, ReduceFrame(f.cur, next))
             ELSE Enter(t, f, next)

\* One round of the loop of reduce().
ReduceStep(t, f, val) ==
  CASE val = None /\ ~IsSymlink(t, f.src) -> Return(Found(f.parent, f.src))
    [] val = None /\ IsSymlink(t, f.src) ->
         IF f.depth = 0 THEN Return(Fail("symloop_max"))
         ELSE Call(f, ResolveFrame(f.parent, t.dentries[f.src.dentry].symlinked_to))
    [] val.err = "runaway" -> Return(val)
    [] val # None /\ val.err # "runaway" ->
         IF val.err # "ok" \/ val.target.dentry = f.src.dentry
         THEN Return(Fail("invalid_symlink"))
         ELSE GoOn([f EXCEPT !.parent = val.parent, !.src = val.target, !.depth = @ - 1])

FrameStep(t, f, val) == IF f.call = "resolve" THEN ResolveStep(t, f, val) ELSE ReduceStep(t, f, val)
WalkStep(t, w) ==
  IF w.stack = <<>> THEN w
  ELSE IF Len(w.stack) > StackMax THEN [stack |-> <<>>, val |-> Fail("runaway")]
  ELSE LET step == FrameStep(t, Last(w.stack), w.val)
       IN  [stack |-> Front(w.stack) \o step.frames, val |-> step.val]

Walk(t, frame) ==
  LET after[n \in 0..WalkMax] ==
        IF n = 0 THEN [stack |-> <<frame>>, val |-> None] ELSE WalkStep(t, after[n - 1])
      end == after[WalkMax]
  IN  IF end.stack = <<>> THEN end.val ELSE Fail("runaway")

Resolve(t, parent, p) == Walk(t, ResolveFrame(parent, p))
Reduce(t, parent, src) == Walk(t, ReduceFrame(parent, src))

\* One step of pathname_from() upwards, and the segments of the absolute name.
Upwards(t, path) ==
  IF path.dentry = t.mounts[path.mnt].root THEN t.mounts[path.mnt].mounted_on
  ELSE IF path.dentry = Root THEN path
  ELSE [path EXCEPT !.dentry = t.dentries[@].parent]
WayUp(t, path) ==
  LET up[n \in 0..(Len(t.dentries) + Len(t.mounts))] ==
        IF n = 0 THEN <<path>>
        ELSE IF Last(up[n - 1]) = RootPath THEN up[n - 1]
        ELSE Append(up[n - 1], Upwards(t, Last(up[n - 1])))
  IN  up[Len(t.dentries) + Len(t.mounts)]
PathnameFrom(t, path) ==
  LET named(p) == p # RootPath /\ p.dentry # t.mounts[p.mnt].root
      way == SelectSeq(WayUp(t, path), named)
  IN  Reverse([i \in DOMAIN way |-> t.dentries[way[i].dentry].name])

-----------------------------------------------------------------------------
(* Operations.                                                             *)

\* A mutation: a name that exists already may be created.
BugVacant(p) == Resolve(ns, RootPath, p).err # "runaway"

\* create, symlink and link begin alike: the name must not resolve, its
\* directory must.  It is not asked whether that is a directory.
Vacant(p) == Resolve(ns, RootPath, p).err \notin {"ok", "runaway"}
DirectoryOf(p) == Resolve(ns, RootPath, Dirname(p))
Creatable(p) ==
  /\ Len(ns.dentries) < MaxDentries
  /\ p.segs # <<>>
  /\ Vacant(p)
  /\ DirectoryOf(p).err = "ok"

With(f, k, v) == [x \in DOMAIN f \cup {k} |-> IF x = k THEN v ELSE f[x]]
Dentry(name, parent, ino, to) ==
  [name |-> name, parent |-> parent, inode |-> ino, symlinked_to |-> to]

\* A mutation: the entry is made in the parent of the directory.
BugInsert(p, ino, to, nodes) ==
  LET dir == DirectoryOf(p).parent.dentry
      d == Len(ns.dentries) + 1
  IN  [ns EXCEPT !.dentries = Append(@, Dentry(Basename(p), dir, ino, to)),
                 !.children = With(With(@, d, << >>), dir, With(@[dir], Basename(p), d)),
                 !.inodes = nodes]

\* A new dentry in its directory, under its name.
Insert(p, ino, to, nodes) ==
  LET dir == DirectoryOf(p).target.dentry
      d == Len(ns.dentries) + 1
  IN  [ns EXCEPT !.dentries = Append(@, Dentry(Basename(p), dir, ino, to)),
                 !.children = With(With(@, d, << >>), dir, With(@[dir], Basename(p), d)),
                 !.inodes = nodes]

NewInode(type) == Append(ns.inodes, [type |-> type, nlink |-> 1])

\* vfs::create and tmpfs create(); a device also needs the operations of its
\* driver, which are there for every device number that is used.
Create(p, type) ==
  /\ Creatable(p)
  /\ ns' = Insert(p, Len(ns.inodes) + 1, NoPath, NewInode(type))

\* vfs::symlink: src is the name of the link, target what it says.
Symlink(src, target) ==
  /\ Creatable(src)
  /\ ns' = Insert(src, Len(ns.inodes) + 1, target, NewInode("lnk"))

\* vfs::link: src is the new name of what target names.  The result of
\* reduce() for follow_links is stored and not used: only its failure counts,
\* and the new name of a symbolic link is no link that could be followed.
Link(src, target, follow_links) ==
  LET res == Resolve(ns, RootPath, target)
      ino == ns.dentries[res.target.dentry].inode
  IN  /\ Creatable(src)
      /\ res.err = "ok"
      /\ follow_links /\ TypeOf(ns, res.target.dentry) = "lnk"
           => Reduce(ns, res.parent, res.target).err = "ok"
      /\ TypeOf(ns, res.target.dentry) # "dir"
      /\ DirectoryOf(src).target.mnt = res.target.mnt
      /\ ns' = Insert(src, ino, NoPath, [ns.inodes EXCEPT ![ino].nlink = @ + 1])

\* A directory may go if it is not the root of a mount and is empty.
Unlinkable(path) ==
  TypeOf(ns, path.dentry) = "dir" =>
    /\ path.dentry # ns.mounts[path.mnt].root
    /\ ns.children[path.dentry] = << >>

Unlink(p) ==
  LET res == Resolve(ns, RootPath, p)
      ino == ns.dentries[res.target.dentry].inode
  IN  /\ p.segs # <<>>
      /\ res.err = "ok"
      /\ Unlinkable(res.target)
      /\ ns' = [ns EXCEPT !.inodes[ino].nlink = @ - 1,
                          !.children[res.parent.dentry] =
                             [n \in DOMAIN @ \ {Basename(p)} |-> @[n]]]

\* vfs::mount without a source device, which no caller gives.  Every mount of
\* devtmpfs shows the one tree; tmpfs makes a new one.
Mount(p, fstype) ==
  LET res == Resolve(ns, RootPath, p)
      d == Len(ns.dentries) + 1
      over(root) == Append(ns.mounts, [root |-> root, mounted_on |-> res.target])
  IN  /\ Len(ns.mounts) < MaxMounts
      /\ res.err = "ok"
      /\ TypeOf(ns, res.target.dentry) = "dir"
      /\ \/ /\ fstype = "devtmpfs"
            /\ ns' = [ns EXCEPT !.mounts = over(DevtmpfsRoot)]
         \/ /\ fstype = "tmpfs"
            /\ d <= MaxDentries
            /\ ns' = [dentries |-> Append(ns.dentries, Dentry(HiddenName, 0, Len(ns.inodes) + 1, NoPath)),
                      children |-> With(ns.children, d, << >>),
                      inodes |-> NewInode("dir"),
                      mounts |-> over(d)]

\* The callers name files from the root: the initramfs and the device nodes
\* by relative or absolute names, open() by a directory it has resolved.
AbsPaths == {p \in Paths : p.abs}

Next ==
  \/ \E p \in {q \in AbsPaths : Creatable(q)} :
       \/ \E type \in {"dir", "reg"} : Create(p, type)
       \/ \E target \in LinkTargets : Symlink(p, target)
       \/ \E target \in AbsPaths, follow_links \in BOOLEAN : Link(p, target, follow_links)
  \/ \E p \in AbsPaths : Unlink(p)
  \/ \E p \in AbsPaths, fstype \in {"tmpfs", "devtmpfs"} : Mount(p, fstype)

Spec == Init /\ [][Next]_vars

-----------------------------------------------------------------------------
(* Properties.                                                             *)

\* The walks that are looked at: absolute paths, and relative ones from every
\* directory that somebody may have opened.
Walks ==
  LET found == {q \in {Resolve(ns, RootPath, p) : p \in AbsPaths} :
                  q.err = "ok" /\ TypeOf(ns, q.target.dentry) = "dir"}
  IN  ({RootPath} \X AbsPaths) \cup ({q.target : q \in found} \X (Paths \ AbsPaths))

Listed(t, d) == \E dir \in DOMAIN t.children : d \in Range(t.children[dir])
LinksTo(i) == {d \in DOMAIN ns.dentries : Listed(ns, d) /\ ns.dentries[d].inode = i}
IsRoot(i) == \E d \in DOMAIN ns.dentries : ns.dentries[d].inode = i /\ ns.dentries[d].name \notin Names

TypeOK ==
  /\ \A d \in DOMAIN ns.dentries :
       /\ ns.dentries[d].name \in Names \cup {"/", HiddenName}
       /\ ns.dentries[d].parent \in DOMAIN ns.dentries \cup {0}
       /\ ns.dentries[d].inode \in DOMAIN ns.inodes
  /\ DOMAIN ns.children = DOMAIN ns.dentries
  /\ \A i \in DOMAIN ns.inodes : ns.inodes[i].type \in Types /\ ns.inodes[i].nlink \in Nat
  /\ \A i \in DOMAIN ns.mounts : ns.mounts[i].root \in DOMAIN ns.dentries

\* What is listed in a directory has that name and that parent, and as long as
\* nothing was put under a file that is no directory, the link count of an
\* inode is the number of names it has.  (create() and link() only ask whether
\* the directory part resolves, so without the condition a name can be made
\* that never resolves, made again, and its inode is lost.)
TreeSound ==
  /\ TypeOK
  /\ \A dir \in DOMAIN ns.children : \A n \in DOMAIN ns.children[dir] :
       LET d == ns.dentries[ns.children[dir][n]] IN d.name = n /\ d.parent = dir
  /\ (\A d \in DOMAIN ns.children : ns.children[d] # << >> => TypeOf(ns, d) = "dir") =>
       \A i \in DOMAIN ns.inodes :
         ns.inodes[i].nlink = Cardinality(LinksTo(i)) + (IF IsRoot(i) THEN 1 ELSE 0)

\* A path under a directory that is covered by a mount.
Covered(path) ==
  \E q \in Range(WayUp(ns, path)) \ {path, RootPath} :
    OnTop(ns, q) \notin Range(WayUp(ns, path))

\* pathname_from() of whatever resolve() returns ends at "/", never shows the
\* root of a mounted file system, and names the same place again.  The one
\* exception is what a mount covers: ".." from a directory in the root of a
\* mount leads to the directory under the mount, and on into what it hides.
PathnameTrue ==
  \A walk \in Walks :
    LET res == Resolve(ns, walk[1], walk[2])
        name == PathnameFrom(ns, res.target)
        again == Resolve(ns, RootPath, [abs |-> TRUE, segs |-> name])
    IN  res.err = "ok" =>
          /\ Last(WayUp(ns, res.target)) = RootPath
          /\ Range(name) \subseteq Names
          /\ res.target # RootPath /\ ~Covered(res.target) =>
               again.err = "ok" /\ again.target = OnTop(ns, res.target)

\* create(), symlink() and link() in a directory make exactly one name: it
\* resolves to what was made, and all that resolved before resolves as before,
\* from every directory and through every link and mount.
CreateAddsOne ==
  ns'.mounts = ns.mounts /\ Len(ns'.dentries) > Len(ns.dentries) =>
    /\ \A walk \in Walks :
         LET res == Resolve(ns, walk[1], walk[2])
         IN  res.err = "ok" => Resolve(ns', walk[1], walk[2]) = res
    /\ TypeOf(ns, Last(ns'.dentries).parent) = "dir" =>
         \E p \in AbsPaths : /\ Resolve(ns, RootPath, p).err # "ok"
                             /\ Resolve(ns', RootPath, p).err = "ok"
                             /\ Resolve(ns', RootPath, p).target.dentry = Len(ns'.dentries)

\* unlink() takes exactly one name: what resolved to it resolves no more, all
\* else resolves as before, from every directory and through every mount,
\* unless it went through the symbolic link that was removed, or through a
\* mount on the directory in another place where its file system is mounted.
UnlinkRemovesOne ==
  ns'.dentries = ns.dentries /\ ns'.children # ns.children =>
    LET gone == {d \in DOMAIN ns.dentries : Listed(ns, d) /\ ~Listed(ns', d)}
    IN  /\ Cardinality(gone) = 1
        /\ \A walk \in Walks :
             LET res == Resolve(ns, walk[1], walk[2])
                 now == Resolve(ns', walk[1], walk[2])
                 through == \A d \in gone :
                              \/ TypeOf(ns, d) = "lnk"
                              \/ \E m \in DOMAIN ns.mounts : ns.mounts[m].mounted_on.dentry = d
             IN  res.err = "ok" /\ walk[2].segs # <<>> =>
                   \/ res.target.dentry \notin gone /\ now = res
                   \/ (res.target.dentry \in gone \/ through) /\ now.err # "ok"

\* Every operation on the name space changes exactly the name it was given.
OperationsExact == [][CreateAddsOne /\ UnlinkRemovesOne]_vars
=============================================================================
