---------------------------- MODULE VirtualFiles ----------------------------
(***************************************************************************)
(* The virtual file system service: contexts that are opened by the first  *)
(* reference and closed by the last, volumes that come and go, and the     *)
(* file operations of clients that hold references while they work.        *)
(*                                                                         *)
(* The service's threads, one per call, take the contexts of a call one by *)
(* one, work on the files, source by source or chunk by chunk, and give    *)
(* the contexts back.  A tree maps the paths that exist below a root to a  *)
(* folder (0) or to the number of a file, whose chunks are in files; a     *)
(* root is a context's volume, or its mount point with nothing mounted.    *)
(* Links, times, attributes, hidden files and access rights of single      *)
(* files are left out.                                                     *)
(***************************************************************************)
EXTENDS VfsRequests, Naturals, FiniteSets, SequencesExt
CONSTANTS
    Clients,
    ContextNames,
    Removable,      \* those of them that are volumes
    Writable,       \* those that may be modified
    Calls,          \* what each client may call: see VfsRequests
    Data,           \* what a chunk of a file may be
    InitialTrees,   \* by name; files are numbered
    InitialFiles,
    MaxVfsCalls,    \* of each client
    MaxContexts     \* that are ever added
ASSUME VfsAssumption ==
    /\ Removable \cup Writable \subseteq ContextNames
    /\ \E n \in ContextNames : ContextNames \ Removable = {n}      \* one fixed context, the first object
    /\ MaxVfsCalls \in [Clients -> Nat] /\ MaxContexts \in Nat

\* Every file of a tree is there.
ASSUME TreesAssumption ==
    /\ InitialFiles \in Seq(Seq(Data))
    /\ \A n \in ContextNames : \A p \in DOMAIN InitialTrees[n] :
           InitialTrees[n][p] \in {0} \cup DOMAIN InitialFiles

VARIABLES
    contexts,       \* the provider's map: the number of the object of each name, 0 for none
    objects,        \* every context object there has been: its name and refcount
    inUse,          \* signal_context_in_use: the names it has cached
    mounted,        \* the volumes that are mounted
    trees, files,
    vfsCalls,       \* each client's call
    ejected         \* history: names whose volume has been removed
vfsVars == <<contexts, objects, inUse, mounted, trees, files, vfsCalls, ejected>>
fileVars == <<trees, files>>
contextVars == <<contexts, objects, inUse, mounted, ejected>>

NoObject == 0
Folder == 0
Root(name) == <<name, name \in mounted \/ name \notin Removable>>
Roots == ContextNames \X BOOLEAN
Idle == [pc |-> "idle", call |-> <<>>, request |-> <<>>, todo |-> <<>>, taking |-> NoObject, held |-> <<>>,
         next |-> 1, file |-> NoObject, root |-> <<>>, chunks |-> <<>>, ok |-> TRUE, alone |-> TRUE,
         result |-> "", opened |-> [n \in ContextNames |-> 0], count |-> 0]

VfsInit ==
    /\ contexts = [n \in ContextNames |-> IF n \in Removable THEN NoObject ELSE 1]
    /\ objects = <<[name |-> CHOOSE n \in ContextNames : n \notin Removable, refs |-> 0]>>
    /\ inUse = {} /\ mounted = {} /\ ejected = {}
    /\ trees = [r \in Roots |-> IF r[2] THEN InitialTrees[r[1]] ELSE [p \in {<<>>} |-> Folder]]
    /\ files = InitialFiles
    /\ vfsCalls = [c \in Clients |-> Idle]

-----------------------------------------------------------------------------
(* Contexts. *)

\* A volume is not unmounted while a file on it is open.
Busy(name) == \E c \in Clients : vfsCalls[c].file # NoObject /\ vfsCalls[c].root = <<name, TRUE>>

\* LocalContext::open(), RemovableContext::on_open(): mounting takes a volume that is there.
Opens(o) == LET n == objects[o].name IN n \in Removable \ mounted => contexts[n] # NoObject
Open(o) ==
    /\ mounted' = mounted \cup ({objects[o].name} \cap Removable)
    /\ inUse' = inUse \cup {objects[o].name}

\* close() swallows what on_close() throws, and announces the context as closed in any case.
Close(o) ==
    /\ mounted' = IF Busy(objects[o].name) THEN mounted ELSE mounted \ {objects[o].name}
    /\ inUse' = inUse \ {objects[o].name}

AddRef(o) ==
    /\ IF objects[o].refs = 0 THEN Open(o) ELSE UNCHANGED <<mounted, inUse>>
    /\ objects' = [objects EXCEPT ![o].refs = @ + 1]

\* Fault: whoever lets go closes.
DelRefClosing(o) ==
    IF objects[o].refs = 0 THEN UNCHANGED <<objects, mounted, inUse>>
    ELSE /\ objects' = [objects EXCEPT ![o].refs = @ - 1]
         /\ Close(o)

\* Fault: compares the count before it is decremented.
DelRefLate(o) ==
    IF objects[o].refs = 0 THEN Close(o) /\ UNCHANGED objects
    ELSE objects' = [objects EXCEPT ![o].refs = @ - 1] /\ UNCHANGED <<mounted, inUse>>

DelRef(o) ==
    IF objects[o].refs = 0 THEN UNCHANGED <<objects, mounted, inUse>>
    ELSE /\ objects' = [objects EXCEPT ![o].refs = @ - 1]
         /\ IF objects[o].refs = 1 THEN Close(o) ELSE UNCHANGED <<mounted, inUse>>

\* register_partition(): a new object under the name.
VolumeAdded(n) ==
    /\ n \in Removable /\ contexts[n] = NoObject /\ Len(objects) < MaxContexts
    /\ objects' = Append(objects, [name |-> n, refs |-> 0])
    /\ contexts' = [contexts EXCEPT ![n] = Len(objects) + 1]
    /\ UNCHANGED <<inUse, mounted, fileVars, vfsCalls, ejected>>

\* removeContext(): the object leaves the map, and is closed if it has references, which stay.
VolumeRemoved(n) ==
    /\ n \in Removable /\ contexts[n] # NoObject
    /\ contexts' = [contexts EXCEPT ![n] = NoObject]
    /\ ejected' = ejected \cup {n}
    /\ IF objects[contexts[n]].refs > 0 THEN Close(contexts[n]) ELSE UNCHANGED <<mounted, inUse>>
    /\ vfsCalls' = [c \in Clients |-> [vfsCalls[c] EXCEPT !.alone = FALSE]]
    /\ UNCHANGED <<objects, fileVars>>

-----------------------------------------------------------------------------
(* Files: operators on trees. *)

Parent(p) == SubSeq(p, 1, Len(p) - 1)
IsFolder(t, p) == p \in DOMAIN t /\ t[p] = Folder
IsFile(t, p) == p \in DOMAIN t /\ t[p] # Folder
Below(t, p) == {q \in DOMAIN t : IsPrefix(p, q)}
RemoveAll(t, p) == [q \in DOMAIN t \ Below(t, p) |-> t[q]]
Leading(p) == {SubSeq(p, 1, n) : n \in 0..Len(p)}
MakeFolders(t, p) == [q \in DOMAIN t \cup Leading(p) |-> IF q \in DOMAIN t THEN t[q] ELSE Folder]
CanMakeFolders(t, p) == \A q \in Leading(p) : ~IsFile(t, q)

\* Fault: force alone merges.
ClearWayMerging(t, p, keeps) ==
    IF p \in DOMAIN t /\ IsFile(t, p) THEN RemoveAll(t, p)
    ELSE IF ~IsFolder(t, Parent(p)) THEN MakeFolders(t, Parent(p)) ELSE t

\* With force, what is in the way is removed, except a folder to merge a folder into, or
\* else a missing parent is created.
ClearWay(t, p, keeps) ==
    IF p \in DOMAIN t /\ ~keeps THEN RemoveAll(t, p)
    ELSE IF ~IsFolder(t, Parent(p)) THEN MakeFolders(t, Parent(p)) ELSE t
WayIsClear(t, p) == p \in DOMAIN t \/ IsFolder(t, Parent(p)) \/ CanMakeFolders(t, Parent(p))

\* Where what is at q goes when from goes to the path to.
Image(from, to, q) == to \o SubSeq(q, Len(from) + 1, Len(q))

\* fs::copy(), recursive, overwriting: existing files keep their identity.
CanCopy(T, rs, from, rt, to) ==
    LET s == T[rs]  t == T[rt]  IN
    /\ from \in DOMAIN s
    /\ IsFolder(t, Parent(to))
    /\ <<rs, from>> # <<rt, to>>
    /\ \A q \in Below(s, from) : LET d == Image(from, to, q) IN
        d \in DOMAIN t => IsFile(s, q) = IsFile(t, d)

\* A copy of a file that is not there yet gets a new number.
Copied(T, rs, from, rt, to) ==
    LET s == T[rs]  t == T[rt]
        To(q) == Image(from, to, q)
        sources == {q \in Below(s, from) : IsFile(s, q)}
        copies == {To(q) : q \in Below(s, from)}
        Source(d) == CHOOSE q \in Below(s, from) : To(q) = d
        new == SetToSeq({q \in sources : To(q) \notin DOMAIN t})
        Number(q) == IF To(q) \in DOMAIN t THEN t[To(q)] ELSE Len(files) + CHOOSE k \in DOMAIN new : new[k] = q
        written == {Number(q) : q \in sources}
    IN [trees |-> [T EXCEPT ![rt] = [d \in DOMAIN t \cup copies |->
                      IF d \notin copies THEN t[d] ELSE IF Source(d) \in sources THEN Number(Source(d)) ELSE Folder]],
        files |-> [n \in DOMAIN files \cup written |->
                      IF n \in written THEN files[s[CHOOSE q \in sources : Number(q) = n]] ELSE files[n]]]

\* rename(): within one file system, over nothing, a file over a file, a folder over an empty one.
CanRename(T, rs, from, rt, to) ==
    LET t == T[rt] IN
    /\ rs = rt /\ from \in DOMAIN t /\ IsFolder(t, Parent(to))
    /\ IsFolder(t, from) => ~IsStrictPrefix(from, to)
    /\ to \in DOMAIN t => IsFile(t, from) = IsFile(t, to) /\ (to # from => Below(t, to) = {to})
Renamed(t, from, to) ==
    IF from = to THEN t
    ELSE LET moved == {Image(from, to, q) : q \in Below(t, from)} IN
         [q \in moved \cup (DOMAIN t \ (Below(t, from) \cup {to})) |->
            IF q \in moved THEN t[CHOOSE o \in Below(t, from) : Image(from, to, o) = q] ELSE t[q]]

-----------------------------------------------------------------------------
(* Calls. *)

Modifies(rpc) == rpc \in {"Copy", "Move", "Remove", "CreateFolder", "WriteFile", "SetAttributes"}
Contextless == {"GetContexts", "GetOpenContexts", "GetContextSpec"}
Streams == {"ReadFile", "WriteFile"}

\* The locations of a request, in the order in which their contexts are taken.
Locations(r) ==
    [i \in DOMAIN r.sources |-> [name |-> r.sources[i].context, modify |-> r.rpc = "Remove"]]
    \o [i \in DOMAIN r.path |-> [name |-> r.path[i].context, modify |-> Modifies(r.rpc)]]

\* The contexts that callers name have a place in the map, if only an empty one.
ASSUME CallsAssumption ==
    \A c \in Clients : \A a \in Calls[c] :
        /\ a.method \in Methods /\ a.data \in Seq(Data)
        /\ \A r \in Requests(a) :
               /\ Locations(r) \in Seq([name : ContextNames, modify : BOOLEAN])
               /\ r.sources \in Seq(Range(r.sources))
               /\ r.rpc \in {"Copy", "Move", "Remove"} => r.sources # <<>>

Set(c, call) == vfsCalls' = [vfsCalls EXCEPT ![c] = call]
Failed(call) == [call EXCEPT !.pc = "release", !.ok = FALSE]

\* A step of c may change files or mounts that another call sees: that has not been alone then.
NamesOf(r) == IF r = <<>> THEN {} ELSE {l.name : l \in Range(Locations(r))}
Sees(d) == \E n \in NamesOf(vfsCalls[d].request) :
    \/ Root(n)' # Root(n) \/ trees'[Root(n)] # trees[Root(n)]
    \/ \E f \in Range(trees[Root(n)]) \ {Folder} : files'[f] # files[f]
SetDisturbing(c, call) ==
    vfsCalls' = [d \in Clients |-> IF d = c THEN call ELSE [vfsCalls[d] EXCEPT !.alone = @ /\ ~Sees(d)]]

\* Several sources need inside_target.
Refused(r) == r.rpc \in {"Copy", "Move"} /\ Len(r.sources) > 1 /\ ~r.flags.inside

\* A client calls a method; a context is closed by who has opened it.  An upload without a
\* chunk names no path, and so takes no context.
Begin(c, a) ==
    LET idle == [Idle EXCEPT !.opened = vfsCalls[c].opened, !.count = vfsCalls[c].count + 1, !.call = a] IN
    /\ vfsCalls[c].pc = "idle" /\ vfsCalls[c].count < MaxVfsCalls[c]
    /\ IF Requests(a) = {} THEN Set(c, [idle EXCEPT !.result = "raised"])
       ELSE \E r \in Requests(a) :
            /\ r.rpc = "CloseContext" => vfsCalls[c].opened[Head(Locations(r)).name] > 0
            /\ Set(c, [idle EXCEPT !.request = r, !.ok = ~Refused(r),
                !.pc = IF Refused(r) \/ Locations(r) = <<>> \/ r.rpc \in Contextless \/ (r.rpc = "WriteFile" /\ UploadIterator(a) = <<>>)
                       THEN "release" ELSE "lookup",
                !.todo = Locations(r)])
    /\ UNCHANGED <<contextVars, fileVars>>

\* get_context(): the object that is in the map now.
Lookup(c) ==
    LET call == vfsCalls[c]  o == contexts[Head(call.todo).name] IN
    /\ call.pc = "lookup"
    /\ Set(c, IF o # NoObject THEN [call EXCEPT !.pc = "take", !.taking = o]
              ELSE [call EXCEPT !.pc = "release", !.ok = call.request.rpc = "CloseContext"])
    /\ UNCHANGED <<contextVars, fileVars>>

\* The constructor of a location refers to the object, whatever has become of it since.
Take(c) ==
    LET call == vfsCalls[c]  o == call.taking  n == objects[o].name  loc == Head(call.todo)  rpc == call.request.rpc IN
    /\ call.pc = "take"
    /\ UNCHANGED <<contexts, ejected, fileVars>>
    /\ \/ /\ rpc = "CloseContext" /\ DelRef(o)
          /\ SetDisturbing(c, [call EXCEPT !.pc = "release", !.opened[n] = @ - 1])
       \/ /\ rpc = "OpenContext" /\ (objects[o].refs = 0 => Opens(o)) /\ AddRef(o)
          /\ SetDisturbing(c, [call EXCEPT !.pc = "release", !.opened[n] = @ + 1])
       \/ /\ rpc \notin {"OpenContext", "CloseContext"}
          /\ loc.modify => n \in Writable
          /\ (objects[o].refs = 0 => Opens(o)) /\ AddRef(o)
          /\ SetDisturbing(c, [call EXCEPT !.held = Append(@, o), !.todo = Tail(@),
                                 !.pc = IF Len(call.todo) = 1 THEN "work" ELSE "lookup"])
       \/ /\ rpc # "CloseContext"
          /\ ~(objects[o].refs = 0 => Opens(o)) \/ (loc.modify /\ n \notin Writable)
          /\ Set(c, Failed(call)) /\ UNCHANGED <<objects, mounted, inUse>>

Target(r) == IF r.path = <<>> THEN <<>> ELSE r.path[1].rel
TargetRoot(r) == Root(r.path[1].context)
\* One source after the other: the call fails at the first that fails.
Progress(call) == IF call.next = Len(call.request.sources) THEN [call EXCEPT !.pc = "release"]
                  ELSE [call EXCEPT !.next = @ + 1]
Into(r, from) == IF r.flags.inside THEN Append(Target(r), Last(from)) ELSE Target(r)

\* copy2()
CopySource(c) ==
    LET call == vfsCalls[c]  r == call.request  src == r.sources[call.next]  from == src.rel
        rs == Root(src.context)  rt == TargetRoot(r)  to == Into(r, from)
        keeps == r.flags.merge /\ IsFolder(trees[rt], to) /\ IsFolder(trees[rs], from)
        T == IF r.flags.force THEN [trees EXCEPT ![rt] = ClearWay(@, to, keeps)] ELSE trees
        clear == IF r.flags.force THEN WayIsClear(trees[rt], to) ELSE IsFolder(trees[rt], to) => keeps
        copy == Copied(T, rs, from, rt, to)
    IN  /\ call.pc = "work" /\ r.rpc = "Copy"
        /\ UNCHANGED contextVars
        /\ IF ~clear THEN UNCHANGED fileVars
           ELSE IF ~CanCopy(T, rs, from, rt, to) THEN trees' = T /\ UNCHANGED files
           ELSE trees' = copy.trees /\ files' = copy.files
        /\ SetDisturbing(c, IF clear /\ CanCopy(T, rs, from, rt, to) THEN Progress(call) ELSE Failed(call))

\* move2()
MoveSource(c) ==
    LET call == vfsCalls[c]  r == call.request  src == r.sources[call.next]  from == src.rel
        rs == Root(src.context)  rt == TargetRoot(r)  to == Into(r, from)
        clear == r.flags.force => WayIsClear(trees[rt], to)
        T == IF r.flags.force /\ clear THEN [trees EXCEPT ![rt] = ClearWay(@, to, FALSE)] ELSE trees
        can == clear /\ CanRename(T, rs, from, rt, to)
    IN  /\ call.pc = "work" /\ r.rpc = "Move"
        /\ UNCHANGED <<contextVars, files>>
        /\ trees' = IF can THEN [T EXCEPT ![rt] = Renamed(@, from, to)] ELSE T
        /\ SetDisturbing(c, IF can THEN Progress(call) ELSE Failed(call))

RemoveSource(c) ==
    LET call == vfsCalls[c]  r == call.request  src == r.sources[call.next]  rs == Root(src.context)
        can == r.flags.force \/ Below(trees[rs], src.rel) \subseteq {src.rel}
    IN  /\ call.pc = "work" /\ r.rpc = "Remove"
        /\ UNCHANGED <<contextVars, files>>
        /\ trees' = IF can THEN [trees EXCEPT ![rs] = RemoveAll(@, src.rel)] ELSE trees
        /\ SetDisturbing(c, IF can THEN Progress(call) ELSE Failed(call))

MakeFolder(c) ==
    LET call == vfsCalls[c]  r == call.request  p == Target(r)  t == trees[TargetRoot(r)]
        can == CanMakeFolders(t, p) /\ (r.flags.force \/ IsFolder(t, Parent(p)))
    IN  /\ call.pc = "work" /\ r.rpc = "CreateFolder"
        /\ UNCHANGED <<contextVars, files>>
        /\ trees' = IF can THEN [trees EXCEPT ![TargetRoot(r)] = MakeFolders(@, p)] ELSE trees
        /\ SetDisturbing(c, IF can THEN [call EXCEPT !.pc = "release"] ELSE Failed(call))

\* What is asked of a path or a folder.
Query(c) ==
    LET call == vfsCalls[c]  r == call.request  t == trees[TargetRoot(r)]  p == Target(r)
        entries == CASE r.rpc = "GetDirectory" -> Below(t, p) \ {p}
                     [] r.rpc = "Locate" -> {q \in Below(t, p) : q # p /\ Last(q) = call.call.mask}
                     [] OTHER -> {}
        ok == CASE r.rpc \in {"GetDirectory", "Locate"} -> IsFolder(t, p)
                [] r.rpc = "GetVolumeInfo" -> p \in DOMAIN t
                [] OTHER -> TRUE
    IN  /\ call.pc = "work" /\ r.rpc \in {"GetDirectory", "Locate", "GetVolumeInfo", "GetFileInfo", "GetAttributes", "SetAttributes"}
        /\ Set(c, [call EXCEPT !.pc = "release", !.ok = ok,
                     !.result = IF ok /\ ~Returns(call.call, entries) THEN "raised" ELSE ""])
        /\ UNCHANGED <<contextVars, fileVars>>

\* std::ofstream, binary: a new file, or an old one emptied.
Truncated(number) == [n \in DOMAIN files \cup {number} |-> IF n = number THEN <<>> ELSE files[n]]

\* A file that cannot be opened for reading is read as an empty one; one that cannot be opened
\* for writing is an error.
OpenFile(c) ==
    LET call == vfsCalls[c]  r == call.request  p == Target(r)  root == TargetRoot(r)  t == trees[root]
        number == IF IsFile(t, p) THEN t[p] ELSE Len(files) + 1
        opened == [call EXCEPT !.pc = "stream", !.root = root]
    IN  /\ call.pc = "work"
        /\ UNCHANGED contextVars
        /\ \/ /\ r.rpc = "ReadFile"
              /\ Set(c, IF IsFile(t, p) THEN [opened EXCEPT !.file = number] ELSE opened)
              /\ UNCHANGED fileVars
           \/ /\ r.rpc = "WriteFile" /\ (IsFolder(t, p) \/ ~IsFolder(t, Parent(p)))
              /\ Set(c, Failed(call)) /\ UNCHANGED fileVars
           \/ /\ r.rpc = "WriteFile" /\ ~IsFolder(t, p) /\ IsFolder(t, Parent(p))
              /\ trees' = [trees EXCEPT ![root] = [q \in DOMAIN t \cup {p} |-> IF q = p THEN number ELSE t[q]]]
              /\ files' = Truncated(number)
              /\ SetDisturbing(c, [opened EXCEPT !.file = number])

\* One chunk goes from the file to the client, or from the client into the file.
Chunk(c) ==
    LET call == vfsCalls[c]  sent == UploadIterator(call.call) IN
    /\ call.pc = "stream"
    /\ UNCHANGED <<contextVars, trees>>
    /\ \/ /\ call.request.rpc = "ReadFile"
          /\ Set(c, IF call.file # NoObject /\ call.next <= Len(files[call.file])
                    THEN [call EXCEPT !.chunks = Append(@, files[call.file][call.next]), !.next = @ + 1]
                    ELSE [call EXCEPT !.pc = "release", !.chunks = Kept(call.call, @)])
          /\ UNCHANGED files
       \/ /\ call.request.rpc = "WriteFile" /\ call.next <= Len(sent)
          /\ files' = [files EXCEPT ![call.file] = Append(@, sent[call.next].data)]
          /\ SetDisturbing(c, [call EXCEPT !.next = @ + 1])
       \/ /\ call.request.rpc = "WriteFile" /\ call.next > Len(sent)
          /\ Set(c, [call EXCEPT !.pc = "release"]) /\ UNCHANGED files

\* The locations go; a reader's or a writer's before its file is closed.
Release(c) ==
    LET call == vfsCalls[c] IN
    /\ call.pc = "release" /\ call.held # <<>>
    /\ UNCHANGED <<contexts, ejected, fileVars>>
    /\ DelRef(Last(call.held))
    /\ SetDisturbing(c, [call EXCEPT !.held = Front(@)])

ReturnReply(c) ==
    LET call == vfsCalls[c] IN
    /\ call.pc = "release" /\ call.held = <<>>
    /\ Set(c, [Idle EXCEPT !.opened = call.opened, !.count = call.count])
    /\ UNCHANGED <<contextVars, fileVars>>

VfsNext ==
    \/ \E n \in Removable : VolumeAdded(n) \/ VolumeRemoved(n)
    \/ \E c \in Clients :
        \/ \E a \in Calls[c] : Begin(c, a)
        \/ Lookup(c) \/ Take(c) \/ CopySource(c) \/ MoveSource(c) \/ RemoveSource(c) \/ MakeFolder(c)
        \/ Query(c) \/ OpenFile(c) \/ Chunk(c) \/ Release(c) \/ ReturnReply(c)

VfsSpec == VfsInit /\ [][VfsNext]_vfsVars
-----------------------------------------------------------------------------
VfsTypeOK ==
    /\ contexts \in [ContextNames -> 0..Len(objects)]
    /\ \A o \in DOMAIN objects : objects[o].name \in ContextNames /\ objects[o].refs \in Nat
    /\ inUse \subseteq ContextNames /\ mounted \subseteq Removable
    /\ \A r \in Roots : \A p \in DOMAIN trees[r] : trees[r][p] \in 0..Len(files) /\ Leading(p) \subseteq DOMAIN trees[r]

\* A context stays open while a call has a location in it, or a client has opened it and not
\* closed it: unless the volume is taken away, nobody else's call or close pulls it away
\* (add_ref() and del_ref() under each object's mutex, open and close by the first and last).
ReferencesKeepOpen ==
    \A n \in ContextNames \ ejected :
        (\E c \in Clients : vfsCalls[c].opened[n] > 0 \/ \E o \in Range(vfsCalls[c].held) : objects[o].name = n)
        => n \in inUse /\ Root(n)[2]

\* What SignalClient.get_open_contexts() answers from the signal that open() and close() emit is
\* what get_open_contexts() answers from the reference counts, unless the volume was taken away.
OpenContextsAgree ==
    \A n \in ContextNames \ ejected : n \in inUse <=> contexts[n] # NoObject /\ objects[contexts[n]].refs > 0

\* Contexts are open for those who use them, and said to be open.
ContextsHold == ReferencesKeepOpen /\ OpenContextsAgree

\* A call has done its work, holds its contexts still, and has not been disturbed.
Succeeded(call) ==
    /\ call.pc = "release" /\ call.ok /\ call.alone
    /\ Len(call.held) = Len(Locations(call.request))

Base(a, from) == IF a.sources.list \/ a.flags.inside THEN Append(Tail(a.path), Last(from)) ELSE Tail(a.path)

\* A copy that reports success has put every source where the caller said, with all that is
\* below it, and replaced what was there unless it merged; of sources with one name the last
\* counts.  It is asked of calls whose files no other call changed meanwhile.
CopyIsComplete ==
    \A c \in Clients : LET call == vfsCalls[c]  a == call.call IN
        Succeeded(call) /\ call.request.rpc = "Copy" =>
            \A i \in DOMAIN a.sources.paths :
                LET from == Tail(a.sources.paths[i])  s == trees[Root(Head(a.sources.paths[i]))]
                    t == trees[Root(Head(a.path))]  to == Base(a, from)
                IN  (\A j \in DOMAIN a.sources.paths : j > i => Last(Tail(a.sources.paths[j])) # Last(from)) =>
                    /\ \A q \in Below(s, from) : LET d == Image(from, to, q) IN
                        /\ d \in DOMAIN t /\ IsFile(t, d) = IsFile(s, q)
                        /\ IsFile(s, q) => files[t[d]] = files[s[q]]
                    /\ a.flags.merge \/ Cardinality(Below(t, to)) = Cardinality(Below(s, from))

\* What has been uploaded or downloaded is the file, whole and in order, for calls whose files no
\* other call changed meanwhile; uploads that have chunks, and downloads of files that exist.
TransfersAreWhole ==
    \A c \in Clients : LET call == vfsCalls[c]  a == call.call IN
        Succeeded(call) /\ call.file # NoObject =>
            LET t == trees[Root(Head(a.path))]  p == Tail(a.path) IN
            /\ IsFile(t, p)
            /\ a.method = "upload" => files[t[p]] = a.data
            /\ a.method = "download" => call.chunks = files[t[p]]
=============================================================================
