---------------------------- MODULE AtomicWrite ----------------------------
(***************************************************************************)
(* guard/common.go, atomicWrite: the one way wb2api-ctl replaces a file    *)
(* (keys.json, guard.json, config.json, a credential).  It writes          *)
(* <path>.tmp, syncs it, and renames it over <path>.                       *)
(*                                                                         *)
(* The name <path>.tmp is the same for every caller, and callers are       *)
(* separate processes (the serve daemon's flush, one process per shell     *)
(* command) with no lock between them.  So the model keeps the two         *)
(* directory entries, <path> and <path>.tmp, apart from the inodes they    *)
(* name, and each writer keeps the inode its descriptor is open on.        *)
(*                                                                         *)
(* Abstractions: a document is an opaque value with a length; the content  *)
(* of an inode is the document last written from offset 0 and the file's   *)
(* length, which is all that decides whether the file parses.  MkdirAll    *)
(* and the permission bits are left out.  A rename is durable once done    *)
(* (the router's jffs2 logs it at once); data is durable only after Sync.  *)
(***************************************************************************)
EXTENDS Naturals

CONSTANTS
    Writers,    \* processes that may be inside atomicWrite for this path
    Docs,       \* documents they write
    Size(_),    \* length of a document
    Inodes,     \* |Writers| + 2 of them are never all in use
    NoInode,    \* a directory entry that does not exist
    Junk        \* content that is no document: a prefix, or zero length

ASSUME SizeAssumption == \A d \in Docs : Size(d) \in Nat \ {0}
ASSUME NamesAssumption == NoInode \notin Inodes /\ Junk \notin Docs

VARIABLES
    inode,      \* content of each inode, as a running process sees it
    durable,    \* inodes whose content would survive a power loss
    target,     \* the inode <path> names
    tmp,        \* the inode <path>.tmp names
    pc,         \* where each writer is in atomicWrite
    fd,         \* the inode each writer opened
    doc,        \* the document each writer was given
    result,     \* what each writer's last call returned
    crowded,    \* history: calls under way that another call has overlapped
    suspect     \* history: calls overlapped since the last save made alone

names == <<target, tmp>>
history == <<crowded, suspect>>
vars == <<inode, durable, names, pc, fd, doc, result, history>>

Content == [doc : Docs \cup {Junk}, len : Nat]
Empty == [doc |-> Junk, len |-> 0]
WholeDoc(d) == [doc |-> d, len |-> Size(d)]

\* json.Unmarshal accepts the file: it is one document and nothing after it.
Whole(c) == c.doc \in Docs /\ c.len = Size(c.doc)

Longer(m, n) == IF m >= n THEN m ELSE n

Stages == {"idle", "open", "written", "closed", "chmodded", "failing"}

TypeOK ==
    /\ inode \in [Inodes -> Content]
    /\ durable \subseteq Inodes
    /\ target \in Inodes \cup {NoInode}
    /\ tmp \in Inodes \cup {NoInode}
    /\ pc \in [Writers -> Stages]
    /\ fd \in [Writers -> Inodes \cup {NoInode}]
    /\ doc \in [Writers -> Docs \cup {Junk}]
    /\ result \in [Writers -> {"none", "ok", "err"}]
    /\ crowded \subseteq Writers
    /\ suspect \in BOOLEAN

Busy(w) == pc[w] # "idle"
Others(w) == {v \in Writers \ {w} : Busy(v)}

\* An inode with a name or a descriptor; the kernel frees every other one.
InUse == {target, tmp} \cup {fd[w] : w \in Writers}

\* The file is absent, or holds a document an earlier run saved; a crashed
\* run may have left a <path>.tmp behind.
Init ==
    /\ target \in Inodes \cup {NoInode}
    /\ tmp \in {NoInode} \cup (Inodes \ {target})
    /\ inode \in [Inodes -> {Empty} \cup {WholeDoc(d) : d \in Docs}]
    /\ target # NoInode => Whole(inode[target])
    /\ \A i \in Inodes \ {target} : inode[i] = Empty
    /\ durable = Inodes
    /\ pc = [w \in Writers |-> "idle"]
    /\ fd = [w \in Writers |-> NoInode]
    /\ doc = [w \in Writers |-> Junk]
    /\ result = [w \in Writers |-> "none"]
    /\ crowded = {}
    /\ suspect = FALSE

-----------------------------------------------------------------------------
Goto(w, stage) == pc' = [pc EXCEPT ![w] = stage]

\* The call ends, its descriptor is closed, and the names are left as given;
\* inodes nothing refers to any more are freed.
Return(w, r, newTarget, newTmp) ==
    LET kept == {newTarget, newTmp} \cup {fd[v] : v \in Writers \ {w}} IN
    /\ Goto(w, "idle")
    /\ target' = newTarget
    /\ tmp' = newTmp
    /\ inode' = [i \in Inodes |-> IF i \in kept THEN inode[i] ELSE Empty]
    /\ durable' = durable \cup (Inodes \ kept)
    /\ fd' = [fd EXCEPT ![w] = NoInode]
    /\ doc' = [doc EXCEPT ![w] = Junk]
    /\ result' = [result EXCEPT ![w] = r]
    /\ crowded' = crowded \ {w}

\* os.OpenFile(tmp, O_CREATE|O_WRONLY|O_TRUNC): whatever <path>.tmp names is
\* emptied, even when another process has it open.
OpenTmp(w, i) ==
    /\ tmp' = i
    /\ inode' = [inode EXCEPT ![i] = Empty]
    /\ durable' = durable \ {i}
    /\ fd' = [fd EXCEPT ![w] = i]

\* Variant of Open, without O_CREATE.
OpenWithoutCreate(w, d) ==
    /\ pc[w] = "idle"
    /\ OpenTmp(w, tmp)
    /\ Goto(w, "open")
    /\ doc' = [doc EXCEPT ![w] = d]
    /\ result' = [result EXCEPT ![w] = "none"]
    /\ UNCHANGED <<target, history>>

Open(w, d) ==
    /\ pc[w] = "idle"
    /\ \/ /\ tmp # NoInode
          /\ OpenTmp(w, tmp)
       \/ /\ tmp = NoInode
          /\ \E i \in Inodes \ InUse : OpenTmp(w, i)
    /\ Goto(w, "open")
    /\ doc' = [doc EXCEPT ![w] = d]
    /\ result' = [result EXCEPT ![w] = "none"]
    /\ IF Others(w) = {}
         THEN UNCHANGED history
         ELSE /\ crowded' = crowded \cup Others(w) \cup {w}
              /\ suspect' = TRUE
    /\ UNCHANGED target

\* MkdirAll or OpenFile fails: nothing has been touched.
OpenFails(w) ==
    /\ pc[w] = "idle"
    /\ result' = [result EXCEPT ![w] = "err"]
    /\ UNCHANGED <<inode, durable, names, pc, fd, doc, history>>

\* f.Write(data): bytes go to offset 0 of the open inode.  What a longer
\* document left there stays behind as a tail.
Write(w) ==
    /\ pc[w] = "open"
    /\ inode' = [inode EXCEPT ![fd[w]] =
                    [doc |-> doc[w], len |-> Longer(@.len, Size(doc[w]))]]
    /\ durable' = durable \ {fd[w]}
    /\ Goto(w, "written")
    /\ UNCHANGED <<names, fd, doc, result, history>>

\* Variant of WriteFails: the error of f.Write is dropped.
WriteErrorDropped(w) ==
    /\ pc[w] = "open"
    /\ inode' = [inode EXCEPT ![fd[w]] = [doc |-> Junk, len |-> @.len]]
    /\ durable' = durable \ {fd[w]}
    /\ Goto(w, "written")
    /\ UNCHANGED <<names, fd, doc, result, history>>

\* The write stops short (no space left): a prefix is in the file.
WriteFails(w) ==
    /\ pc[w] = "open"
    /\ inode' = [inode EXCEPT ![fd[w]] = [doc |-> Junk, len |-> @.len]]
    /\ durable' = durable \ {fd[w]}
    /\ Goto(w, "failing")
    /\ UNCHANGED <<names, fd, doc, result, history>>

\* Variant of SyncClose, without f.Sync().
CloseOnly(w) ==
    /\ pc[w] = "written"
    /\ Goto(w, "closed")
    /\ UNCHANGED <<inode, durable, names, fd, doc, result, history>>

\* f.Sync() and f.Close().
SyncClose(w) ==
    /\ pc[w] = "written"
    /\ durable' = durable \cup {fd[w]}
    /\ Goto(w, "closed")
    /\ UNCHANGED <<inode, names, fd, doc, result, history>>

SyncCloseFails(w) ==
    /\ pc[w] = "written"
    /\ Goto(w, "failing")
    /\ UNCHANGED <<inode, durable, names, fd, doc, result, history>>

\* os.Chmod(tmp, perm) looks the name up again: it may be gone by now, and
\* the call may fail for a reason of its own.
Chmod(w) ==
    /\ pc[w] = "closed"
    /\ \/ tmp # NoInode /\ Goto(w, "chmodded")
       \/ Goto(w, "failing")
    /\ UNCHANGED <<inode, durable, names, fd, doc, result, history>>

\* Variant of RemoveTmp: the cleanup removes <path>.
RemovePath(w) ==
    /\ pc[w] = "failing"
    /\ Return(w, "err", NoInode, tmp)
    /\ UNCHANGED suspect

\* Every error before the rename ends in os.Remove(tmp) and the error.
RemoveTmp(w) ==
    /\ pc[w] = "failing"
    /\ Return(w, "err", target, NoInode)
    /\ UNCHANGED suspect

\* os.Rename(tmp, path): publishes whatever <path>.tmp names now.
Rename(w) ==
    /\ pc[w] = "chmodded"
    /\ tmp # NoInode
    /\ Return(w, "ok", tmp, NoInode)
    /\ suspect' = (suspect /\ w \in crowded)

\* The name is gone, or the rename fails: the error is returned and
\* <path>.tmp, if any, stays.
RenameFails(w) ==
    /\ pc[w] = "chmodded"
    /\ Return(w, "err", target, tmp)
    /\ UNCHANGED suspect

\* The process dies inside atomicWrite (kill -9 by the stop script).
Kill(w) ==
    /\ Busy(w)
    /\ Return(w, "none", target, tmp)
    /\ UNCHANGED suspect

\* The router loses power: every process is gone, and so is the content of
\* any inode that was not synced.
PowerLoss ==
    /\ \E lost \in SUBSET (Inodes \ durable) :
          inode' = [i \in Inodes |-> IF i \in lost \/ i \notin {target, tmp}
                                       THEN Empty ELSE inode[i]]
    /\ durable' = Inodes
    /\ pc' = [w \in Writers |-> "idle"]
    /\ fd' = [w \in Writers |-> NoInode]
    /\ doc' = [w \in Writers |-> Junk]
    /\ result' = [w \in Writers |-> "none"]
    /\ crowded' = {}
    /\ UNCHANGED <<names, suspect>>

\* The steps of a call under way.
Step(w) ==
    \/ Write(w) \/ WriteFails(w)
    \/ SyncClose(w) \/ SyncCloseFails(w)
    \/ Chmod(w) \/ RemoveTmp(w)
    \/ Rename(w) \/ RenameFails(w)

Next ==
    \/ \E w \in Writers : OpenFails(w) \/ Step(w) \/ Kill(w)
    \/ \E w \in Writers, d \in Docs : Open(w, d)
    \/ PowerLoss

Spec == Init /\ [][Next]_vars

-----------------------------------------------------------------------------
\* What the comment on atomicWrite promises, as far as the code keeps it: as
\* long as the saves of this path have not overlapped since the last one made
\* alone, <path> is absent or one complete document, through failed writes,
\* kills and power losses.  A save made alone also repairs what overlapping
\* saves have left.
IntactUnlessCrowded ==
    ~suspect => target = NoInode \/ Whole(inode[target])

\* A call that no other call overlapped and that returns nil has put exactly
\* its own document in place, on the disk and not just in the page cache.
OkMeansPublished ==
    [][\A w \in Writers \ crowded :
          result[w] # "ok" /\ result'[w] = "ok" =>
             /\ target' # NoInode
             /\ inode'[target'] = WholeDoc(doc[w])
             /\ target' \in durable']_vars

\* What the comment on atomicWrite says without a condition: a power loss
\* never leaves half a file.
NeverHalfAFile == target = NoInode \/ Whole(inode[target])

-----------------------------------------------------------------------------
\* The register a single writer implements: the file's content is what
\* <path> names, and a save is under way from OpenFile to the return.
File == INSTANCE AtomicFile WITH
    Callers <- Writers,
    Documents <- Docs,
    Absent <- Junk,
    content <- IF target = NoInode THEN Junk ELSE inode[target].doc,
    pending <- doc,
    answer <- result

\* With one writer at a time atomicWrite is an atomic register: every step
\* of OpenFile, Write, Sync, Close, Chmod and Rename, of their error paths,
\* of a kill and of a power loss is a step of the register or invisible.
AtomicForOneWriter == File!FileSpec
=============================================================================
