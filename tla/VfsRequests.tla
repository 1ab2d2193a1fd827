----------------------------- MODULE VfsRequests -----------------------------
(***************************************************************************)
(* The Python client of the virtual file system: what its methods send,    *)
(* and which of them can return the reply they get.                        *)
(*                                                                         *)
(* A path CONTEXT:RELPATH is the sequence of its names.  An argument that  *)
(* may be one path or several is [list, paths].  A call is the method with *)
(* its arguments; flags that no property tells apart (dereference, update, *)
(* attributes, hidden files) are left out.                                 *)
(***************************************************************************)
EXTENDS Sequences

\* A str without ":" is a context with no relative path.
EncodePath(path) == [context |-> Head(path), rel |-> Tail(path)]

EncodePaths(arg) == [i \in DOMAIN arg.paths |-> EncodePath(arg.paths[i])]

Plain == [force |-> FALSE, merge |-> FALSE, inside |-> FALSE]
NoPaths == [list |-> FALSE, paths |-> <<>>]

\* A tuple or a list of sources sets inside_target, whatever the caller says.
PathRequest(rpc, path, sources, flags) ==
    [rpc |-> rpc, path |-> [i \in DOMAIN path |-> EncodePath(path[i])], sources |-> EncodePaths(sources),
     flags |-> [flags EXCEPT !.inside = @ \/ sources.list]]

Request(rpc, path) == [rpc |-> rpc, path |-> <<EncodePath(path)>>, sources |-> <<>>, flags |-> Plain]

\* The filters are encoded by a function that is not imported: none, or a NameError.
LocateRequest(a) == IF a.filters THEN {} ELSE {Request("Locate", a.path)}
AttributeRequest(a) == IF a.filters THEN {} ELSE {Request("SetAttributes", a.path)}

\* The methods: the request each sends, in a set that is empty if it raises before.
GetAllContexts(a) == {[rpc |-> "GetContexts", path |-> <<>>, sources |-> <<>>, flags |-> Plain]}
GetOpenContexts(a) == {[rpc |-> "GetOpenContexts", path |-> <<>>, sources |-> <<>>, flags |-> Plain]}
\* With open_only it calls get_open_context(), which does not exist.
GetContexts(a) == IF a.filters THEN {} ELSE GetAllContexts(a)
GetContext(a) == {Request("GetContextSpec", a.path)}
OpenContext(a) == {Request("OpenContext", a.path)}
CloseContext(a) == {Request("CloseContext", a.path)}

WithPath(rpc, a) == PathRequest(rpc, <<a.path>>, NoPaths, a.flags)
GetVolumeInfo(a) == {WithPath("GetVolumeInfo", a)}
GetFileInfo(a) == {WithPath("GetFileInfo", a)}
GetDirectory(a) == {WithPath("GetDirectory", a)}
List(a) == {WithPath("GetDirectory", a)}
Locate(a) == LocateRequest(a)
Copy(a) == {PathRequest("Copy", <<a.path>>, a.sources, a.flags)}
\* It names "source", its argument is "sources": NameError.
Move(a) == {}
CreateFolder(a) == {WithPath("CreateFolder", a)}
RemovePaths(a) == {PathRequest("Remove", <<>>, a.sources, a.flags)}
ReadFile(a) == {Request("ReadFile", a.path)}
Read(a) == ReadFile(a)
Download(a) == ReadFile(a)

\* The chunks of a file: the path goes with the first, and without a chunk there is none.
UploadIterator(a) == [i \in DOMAIN a.data |-> [path |-> IF i = 1 THEN <<EncodePath(a.path)>> ELSE <<>>, data |-> a.data[i]]]
Upload(a) == {Request("WriteFile", a.path)}

GetAttributes(a) == {Request("GetAttributes", a.path)}
SetAttributes(a) == AttributeRequest(a)
\* self.self: AttributeError.
ClearAttributes(a) == {}

\* A file status is decoded by a method that its enumeration does not have.
DecodesStats == FALSE

\* Whether the method returns what a successful reply holds: entries of a directory are
\* decoded one by one, and the attributes are looked for in a field that is a method's name.
Returns(a, entries) ==
    CASE a.method = "get_file_info" -> DecodesStats
      [] a.method \in {"get_directory", "locate"} -> entries = {} \/ DecodesStats
      [] a.method = "get_attributes" -> FALSE
      [] OTHER -> TRUE

\* Fault: download() takes what read() returns.
KeptFirst(a, chunks) == IF chunks # <<>> THEN <<Head(chunks)>> ELSE chunks

\* read() returns the first chunk, download() all of them.
Kept(a, chunks) == IF a.method = "read" /\ chunks # <<>> THEN <<Head(chunks)>> ELSE chunks

Methods == {"get_contexts", "get_open_contexts", "get_context", "open_context", "close_context", "get_volume_info",
            "get_file_info", "get_directory", "list", "locate", "copy", "move", "create_folder", "remove", "read",
            "download", "upload", "get_attributes", "set_attributes", "clear_attributes", "native_move"}

Requests(a) ==
    CASE a.method = "get_contexts" -> GetContexts(a)
      [] a.method = "get_open_contexts" -> GetOpenContexts(a)
      [] a.method = "get_context" -> GetContext(a)
      [] a.method = "open_context" -> OpenContext(a)
      [] a.method = "close_context" -> CloseContext(a)
      [] a.method = "get_volume_info" -> GetVolumeInfo(a)
      [] a.method = "get_file_info" -> GetFileInfo(a)
      [] a.method = "get_directory" -> GetDirectory(a)
      [] a.method = "list" -> List(a)
      [] a.method = "locate" -> Locate(a)
      [] a.method = "copy" -> Copy(a)
      [] a.method = "move" -> Move(a)
      [] a.method = "create_folder" -> CreateFolder(a)
      [] a.method = "remove" -> RemovePaths(a)
      [] a.method = "read" -> Read(a)
      [] a.method = "download" -> Download(a)
      [] a.method = "upload" -> Upload(a)
      [] a.method = "get_attributes" -> GetAttributes(a)
      [] a.method = "set_attributes" -> SetAttributes(a)
      [] a.method = "clear_attributes" -> ClearAttributes(a)
      [] a.method = "native_move" -> {PathRequest("Move", <<a.path>>, a.sources, a.flags)}
==============================================================================
