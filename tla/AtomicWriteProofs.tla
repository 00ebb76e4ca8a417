------------------------- MODULE AtomicWriteProofs -------------------------
(***************************************************************************)
(* Proofs about AtomicWrite, for any set of writers, documents and inodes. *)
(***************************************************************************)
EXTENDS AtomicWrite, TLAPS

\* A call under way that no other call has overlapped.
Lone(w) == Busy(w) /\ w \notin crowded

\* A descriptor is held exactly during a call, and so is the document.
Held ==
    \A w \in Writers :
       /\ Busy(w) => fd[w] \in Inodes /\ doc[w] \in Docs
       /\ ~Busy(w) => fd[w] = NoInode /\ doc[w] = Junk

\* Overlap is recorded: a lone call is the only one, and crowded calls are
\* calls under way that have made the file suspect.
LoneIsAlone ==
    /\ \A w \in crowded : Busy(w)
    /\ ~suspect => crowded = {}
    /\ \A w, v \in Writers : Lone(w) /\ v # w => ~Busy(v)

\* What a lone call has done to <path>.tmp so far.
LoneProgress ==
    \A w \in Writers : Lone(w) =>
       /\ pc[w] # "failing" => tmp = fd[w]
       /\ pc[w] \in {"written", "closed", "chmodded"} =>
             inode[fd[w]] = WholeDoc(doc[w])
       /\ pc[w] \in {"closed", "chmodded"} => fd[w] \in durable
       /\ pc[w] = "open" => inode[fd[w]] = Empty

NamesDiffer == tmp # NoInode => tmp # target

\* A file that no overlap has touched is whole on the disk as well.
TargetSafe ==
    ~suspect /\ target # NoInode => Whole(inode[target]) /\ target \in durable

\* The inductive invariant.
IInv == TypeOK /\ Held /\ LoneIsAlone /\ LoneProgress /\ NamesDiffer /\ TargetSafe

-----------------------------------------------------------------------------
\* The invariant holds before the first call.
LEMMA InitIInv == Init => IInv
<1> SUFFICES ASSUME Init PROVE IInv
  OBVIOUS
<1>1. {Empty} \cup {WholeDoc(d) : d \in Docs} \subseteq Content
  BY SizeAssumption DEF Content, Empty, WholeDoc
<1>2. TypeOK
  <2>1. inode \in [Inodes -> Content]
    BY <1>1 DEF Init
  <2> QED
    BY <2>1 DEF Init, TypeOK, Stages
<1>3. \A w \in Writers : ~Busy(w)
  BY DEF Init, Busy
<1>4. Held /\ LoneIsAlone /\ LoneProgress
  BY <1>3 DEF Init, Held, LoneIsAlone, LoneProgress, Lone
<1>5. NamesDiffer /\ TargetSafe
  BY NamesAssumption DEF Init, NamesDiffer, TargetSafe
<1> QED
  BY <1>2, <1>4, <1>5 DEF IInv

\* Every way a call ends keeps the types, and lets go of the descriptor.
LEMMA ReturnTyped ==
    ASSUME TypeOK, Held, NEW w \in Writers, NEW r \in {"none", "ok", "err"},
           NEW t \in Inodes \cup {NoInode}, NEW m \in Inodes \cup {NoInode},
           Return(w, r, t, m), suspect' \in BOOLEAN
    PROVE  TypeOK' /\ Held'
<1>1. Empty \in Content
  BY DEF Content, Empty
<1>2. TypeOK'
  BY <1>1 DEF TypeOK, Return, Goto, Stages
<1>3. Held'
  BY DEF TypeOK, Held, Busy, Return, Goto
<1> QED
  BY <1>2, <1>3

\* Writing a document makes well-formed content, whatever was there.
LEMMA WrittenContent ==
    ASSUME NEW c \in Content, NEW d \in Docs
    PROVE  [doc |-> d, len |-> Longer(c.len, Size(d))] \in Content
BY SizeAssumption DEF Content, Longer

\* Every step keeps the types and hands inodes over without sharing them.
LEMMA NextTyped == TypeOK /\ Held /\ [Next]_vars => TypeOK' /\ Held'
<1> SUFFICES ASSUME TypeOK, Held, [Next]_vars PROVE TypeOK' /\ Held'
  OBVIOUS
<1>0. Empty \in Content
  BY DEF Content, Empty
<1>1. ASSUME NEW w \in Writers, NEW d \in Docs, Open(w, d)
      PROVE  TypeOK' /\ Held'
  <2>1. PICK i \in Inodes : OpenTmp(w, i)
    BY <1>1 DEF Open, TypeOK
  <2>2. crowded' \subseteq Writers /\ suspect' \in BOOLEAN
    BY <1>1 DEF Open, TypeOK, history, Others
  <2>3. pc' = [pc EXCEPT ![w] = "open"] /\ target' = target
    BY <1>1 DEF Open, Goto
  <2>4. doc' = [doc EXCEPT ![w] = d] /\ result' = [result EXCEPT ![w] = "none"]
    BY <1>1 DEF Open
  <2>5. TypeOK'
    BY <1>0, <2>1, <2>2, <2>3, <2>4 DEF OpenTmp, TypeOK, Stages
  <2>6. Held'
    BY <2>1, <2>3, <2>4 DEF OpenTmp, TypeOK, Held, Busy
  <2> QED
    BY <2>5, <2>6
<1>2. ASSUME NEW w \in Writers, OpenFails(w) PROVE TypeOK' /\ Held'
  BY <1>2 DEF OpenFails, TypeOK, Held, Busy, names, history
<1>3. ASSUME NEW w \in Writers, Write(w) PROVE TypeOK' /\ Held'
  <2>1. fd[w] \in Inodes /\ doc[w] \in Docs
    BY <1>3 DEF Write, Held, Busy
  <2>2. inode' \in [Inodes -> Content]
    BY <1>3, <2>1, WrittenContent DEF Write, TypeOK
  <2> QED
    BY <1>3, <2>1, <2>2
    DEF Write, Goto, TypeOK, Held, Busy, Stages, names, history
<1>4. ASSUME NEW w \in Writers, WriteFails(w) PROVE TypeOK' /\ Held'
  <2>1. inode' \in [Inodes -> Content]
    BY <1>4 DEF WriteFails, TypeOK, Content
  <2> QED
    BY <1>4, <2>1
    DEF WriteFails, Goto, TypeOK, Held, Busy, Stages, names, history
<1>5. ASSUME NEW w \in Writers, SyncClose(w) PROVE TypeOK' /\ Held'
  <2>1. fd[w] \in Inodes
    BY <1>5 DEF SyncClose, Held, Busy
  <2> QED
    BY <1>5, <2>1
    DEF SyncClose, Goto, TypeOK, Held, Busy, Stages, names, history
<1>6. ASSUME NEW w \in Writers, SyncCloseFails(w) \/ Chmod(w)
      PROVE  TypeOK' /\ Held'
  <2>1. PICK s \in {"failing", "chmodded"} : pc' = [pc EXCEPT ![w] = s]
    BY <1>6 DEF SyncCloseFails, Chmod, Goto
  <2>2. UNCHANGED <<inode, durable, names, fd, doc, result, history>>
    BY <1>6 DEF SyncCloseFails, Chmod
  <2>3. Busy(w)
    BY <1>6 DEF SyncCloseFails, Chmod, Busy
  <2> QED
    BY <2>1, <2>2, <2>3 DEF TypeOK, Held, Busy, Stages, names, history
<1>7. ASSUME NEW w \in Writers,
             RemoveTmp(w) \/ Rename(w) \/ RenameFails(w) \/ Kill(w)
      PROVE  TypeOK' /\ Held'
  <2>1. PICK r \in {"none", "ok", "err"},
             t \in {target, tmp}, m \in {tmp, NoInode} : Return(w, r, t, m)
    BY <1>7 DEF RemoveTmp, Rename, RenameFails, Kill
  <2>2. suspect' \in BOOLEAN
    BY <1>7 DEF RemoveTmp, Rename, RenameFails, Kill, TypeOK
  <2> QED
    BY <2>1, <2>2, ReturnTyped DEF TypeOK
<1>8. CASE PowerLoss
  BY <1>0, <1>8 DEF PowerLoss, TypeOK, Held, Busy, Stages, names
<1>9. CASE UNCHANGED vars
  BY <1>9 DEF vars, TypeOK, Held, Busy, names, history
<1> QED
  BY <1>1, <1>2, <1>3, <1>4, <1>5, <1>6, <1>7, <1>8, <1>9 DEF Next, Step

-----------------------------------------------------------------------------
\* A writer no other has overlapped stays the only one at the temporary name.
LEMMA LoneAlone ==
    TypeOK /\ Held /\ LoneIsAlone /\ [Next]_vars => LoneIsAlone'
<1> SUFFICES ASSUME TypeOK, Held, LoneIsAlone, [Next]_vars PROVE LoneIsAlone'
  OBVIOUS
<1>1. ASSUME NEW w \in Writers, NEW d \in Docs, Open(w, d) PROVE LoneIsAlone'
  <2>1. pc' = [pc EXCEPT ![w] = "open"] /\ pc[w] = "idle"
    BY <1>1 DEF Open, Goto
  <2>2. CASE Others(w) = {}
    BY <1>1, <2>1, <2>2
    DEF Open, history, Others, LoneIsAlone, Lone, Busy, TypeOK
  <2>3. CASE Others(w) # {}
    <3>1. crowded' = crowded \cup Others(w) \cup {w} /\ suspect'
      BY <1>1, <2>3 DEF Open
    <3> QED
      BY <2>1, <3>1 DEF Others, LoneIsAlone, Lone, Busy, TypeOK
  <2> QED
    BY <2>2, <2>3
<1>2. ASSUME NEW w \in Writers, Busy(w), Busy(w)', UNCHANGED history,
             pc' = [pc EXCEPT ![w] = pc'[w]]
      PROVE  LoneIsAlone'
  BY <1>2 DEF LoneIsAlone, Lone, Busy, TypeOK, history
<1>3. ASSUME NEW w \in Writers, NEW r, NEW t, NEW m, Busy(w),
             Return(w, r, t, m), ~suspect' => ~suspect \/ w \notin crowded
      PROVE  LoneIsAlone'
  <2>1. pc' = [pc EXCEPT ![w] = "idle"] /\ crowded' = crowded \ {w}
    BY <1>3 DEF Return, Goto
  <2>2. ASSUME ~suspect' PROVE crowded' = {}
    BY <1>3, <2>1, <2>2 DEF LoneIsAlone, Lone, TypeOK
  <2> QED
    BY <2>1, <2>2 DEF LoneIsAlone, Lone, Busy, TypeOK
<1>4. CASE PowerLoss
  BY <1>4 DEF PowerLoss, LoneIsAlone, Lone, Busy
<1>5. CASE UNCHANGED vars
  BY <1>5 DEF vars, history, LoneIsAlone, Lone, Busy
<1>6. ASSUME NEW w \in Writers, OpenFails(w) PROVE LoneIsAlone'
  BY <1>6 DEF OpenFails, history, LoneIsAlone, Lone, Busy
<1>7. ASSUME NEW w \in Writers, Step(w) \/ Kill(w) PROVE LoneIsAlone'
  <2>1. Busy(w)
    BY <1>7 DEF Step, Write, WriteFails, SyncClose, SyncCloseFails, Chmod,
                RemoveTmp, Rename, RenameFails, Kill, Busy
  <2>2. CASE Write(w) \/ WriteFails(w) \/ SyncClose(w) \/ SyncCloseFails(w) \/ Chmod(w)
    <3>1. PICK s \in Stages \ {"idle"} : pc' = [pc EXCEPT ![w] = s]
      BY <2>2 DEF Write, WriteFails, SyncClose, SyncCloseFails, Chmod, Goto, Stages
    <3>2. UNCHANGED history
      BY <2>2 DEF Write, WriteFails, SyncClose, SyncCloseFails, Chmod
    <3> QED
      BY <1>2, <2>1, <3>1, <3>2 DEF Busy, TypeOK
  <2>3. CASE RemoveTmp(w) \/ Rename(w) \/ RenameFails(w) \/ Kill(w)
    <3>1. PICK r \in {"none", "ok", "err"},
               t \in {target, tmp}, m \in {tmp, NoInode} : Return(w, r, t, m)
      BY <2>3 DEF RemoveTmp, Rename, RenameFails, Kill
    <3>2. ~suspect' => ~suspect \/ w \notin crowded
      BY <2>3 DEF RemoveTmp, Rename, RenameFails, Kill
    <3> QED
      BY <1>3, <2>1, <3>1, <3>2
  <2> QED
    BY <1>7, <2>2, <2>3 DEF Step
<1> QED
  BY <1>1, <1>4, <1>5, <1>6, <1>7 DEF Next

-----------------------------------------------------------------------------
\* Only a lone or uncrowded file matters from here on; the next two lemmas
\* follow a lone call through its steps.
LEMMA NamesApart ==
    TypeOK /\ Held /\ NamesDiffer /\ [Next]_vars => NamesDiffer'
<1> SUFFICES ASSUME TypeOK, Held, NamesDiffer, [Next]_vars PROVE NamesDiffer'
  OBVIOUS
<1>1. ASSUME NEW w \in Writers, NEW d \in Docs, Open(w, d) PROVE NamesDiffer'
  BY <1>1 DEF Open, OpenTmp, InUse, NamesDiffer
<1>2. ASSUME NEW w \in Writers, Kill(w) \/ Step(w) PROVE NamesDiffer'
  BY <1>2 DEF Step, Write, WriteFails, SyncClose, SyncCloseFails, Chmod,
              RemoveTmp, Rename, RenameFails, Kill, Return, names, NamesDiffer
<1> QED
  BY <1>1, <1>2 DEF Next, OpenFails, PowerLoss, vars, names, NamesDiffer

\* What such a writer has done to its inode stays done.
LEMMA LoneWorks ==
    ASSUME TypeOK, Held, LoneIsAlone, LoneProgress, NamesDiffer, [Next]_vars
    PROVE  LoneProgress'
<1> USE NamesAssumption
<1> SUFFICES ASSUME NEW w \in Writers, Lone(w)'
             PROVE  /\ pc'[w] # "failing" => tmp' = fd'[w]
                    /\ pc'[w] \in {"written", "closed", "chmodded"} =>
                          inode'[fd'[w]] = WholeDoc(doc'[w])
                    /\ pc'[w] \in {"closed", "chmodded"} => fd'[w] \in durable'
                    /\ pc'[w] = "open" => inode'[fd'[w]] = Empty
  BY DEF LoneProgress
<1>0. LoneIsAlone' /\ TypeOK' /\ Held'
  BY LoneAlone, NextTyped
<1>a. \A v \in Writers : v # w => ~Busy(v)'
  BY <1>0 DEF LoneIsAlone
<1>1. ASSUME NEW v \in Writers, NEW d \in Docs, Open(v, d)
      PROVE  /\ v = w
             /\ pc'[w] = "open" /\ tmp' = fd'[w] /\ inode'[fd'[w]] = Empty
  <2>1. Busy(v)'
    BY <1>1 DEF Open, Goto, Busy, TypeOK
  <2>2. v = w
    BY <1>a, <2>1
  <2>3. PICK i \in Inodes : OpenTmp(w, i)
    BY <1>1, <2>2 DEF Open, TypeOK
  <2> QED
    BY <1>1, <2>2, <2>3 DEF Open, OpenTmp, Goto, TypeOK
<1>2. ASSUME NEW v \in Writers, Step(v)
      PROVE  v = w /\ Lone(w) /\ Busy(w)
  <2>1. Busy(v)
    BY <1>2 DEF Step, Write, WriteFails, SyncClose, SyncCloseFails, Chmod,
                RemoveTmp, Rename, RenameFails, Busy
  <2>2. \A u \in Writers : u # v => pc'[u] = pc[u]
    BY <1>2 DEF Step, Write, WriteFails, SyncClose, SyncCloseFails, Chmod,
                RemoveTmp, Rename, RenameFails, Return, Goto, TypeOK
  <2>3. \A u \in Writers : u # v => (u \in crowded <=> u \in crowded')
    BY <1>2 DEF Step, Write, WriteFails, SyncClose, SyncCloseFails, Chmod,
                RemoveTmp, Rename, RenameFails, Return, history
  <2>4. v = w
    BY <2>1, <2>2, <2>3 DEF LoneIsAlone, Lone, Busy
  <2>5. Busy(v)' /\ v \notin crowded' => v \notin crowded
    BY <1>2 DEF Step, Write, WriteFails, SyncClose, SyncCloseFails, Chmod,
                RemoveTmp, Rename, RenameFails, Return, Goto, Busy, history, TypeOK
  <2> QED
    BY <2>1, <2>4, <2>5 DEF Lone
<1>3. CASE Write(w)
  <2>1. /\ Lone(w) /\ tmp = fd[w] /\ inode[fd[w]] = Empty
        /\ fd[w] \in Inodes /\ doc[w] \in Docs
    BY <1>2, <1>3 DEF Step, Write, LoneProgress, Held
  <2>2. Longer(0, Size(doc[w])) = Size(doc[w])
    BY <2>1, SizeAssumption DEF Longer
  <2> QED
    BY <1>3, <2>1, <2>2
    DEF Write, Goto, TypeOK, Empty, WholeDoc, names
<1>4. CASE SyncClose(w) \/ Chmod(w)
  <2>1. Lone(w) /\ fd[w] \in Inodes
    BY <1>2, <1>4 DEF Step, Held
  <2> QED
    BY <1>4, <2>1
    DEF SyncClose, Chmod, Goto, TypeOK, LoneProgress, names
<1>5. CASE WriteFails(w) \/ SyncCloseFails(w)
  BY <1>5 DEF WriteFails, SyncCloseFails, Goto, TypeOK
<1>6. CASE RemoveTmp(w) \/ Rename(w) \/ RenameFails(w)
  BY <1>6 DEF RemoveTmp, Rename, RenameFails, Return, Goto, Lone, Busy, TypeOK
<1>7. ASSUME NEW v \in Writers, Kill(v) PROVE FALSE
  <2>1. v # w
    BY <1>7 DEF Kill, Return, Goto, Lone, Busy, TypeOK
  <2>2. pc'[w] = pc[w] /\ (w \in crowded <=> w \in crowded') /\ Busy(v)
    BY <1>7, <2>1 DEF Kill, Return, Goto, TypeOK
  <2> QED
    BY <2>1, <2>2 DEF LoneIsAlone, Lone, Busy
<1>8. CASE PowerLoss
  BY <1>8 DEF PowerLoss, Lone, Busy
<1>9. ASSUME UNCHANGED vars \/ \E v \in Writers : OpenFails(v)
      PROVE  UNCHANGED <<inode, durable, tmp, pc, fd, doc, crowded>>
  BY <1>9 DEF vars, OpenFails, names, history
<1>10. CASE UNCHANGED <<inode, durable, tmp, pc, fd, doc, crowded>>
  BY <1>10 DEF LoneProgress, Lone, Busy
<1>11. CASE \E v \in Writers : Step(v)
  BY <1>2, <1>3, <1>4, <1>5, <1>6, <1>11 DEF Step
<1> QED
  BY <1>1, <1>7, <1>8, <1>9, <1>10, <1>11 DEF Next

\* The published inode stays whole and durable.
LEMMA TargetStaysSafe ==
    ASSUME IInv, [Next]_vars
    PROVE  TargetSafe'
<1> USE NamesAssumption
<1> SUFFICES ASSUME ~suspect', target' # NoInode
             PROVE  Whole(inode'[target']) /\ target' \in durable'
  BY DEF TargetSafe, Whole
<1> USE DEF IInv
<1>0. LoneIsAlone' /\ TypeOK'
  BY LoneAlone, NextTyped
<1>1. CASE suspect
  <2>1. PICK w \in Writers : Rename(w) /\ w \notin crowded
    BY <1>1 DEF Next, Step, Open, OpenFails, Write, WriteFails, SyncClose,
                SyncCloseFails, Chmod, RemoveTmp, Rename, RenameFails, Kill,
                PowerLoss, vars, history, TypeOK
  <2>2. /\ tmp = fd[w] /\ tmp \in Inodes /\ doc[w] \in Docs
        /\ inode[tmp] = WholeDoc(doc[w]) /\ tmp \in durable
    BY <2>1 DEF Rename, Lone, Busy, LoneProgress, Held
  <2> QED
    BY <2>1, <2>2 DEF Rename, Return, Whole, WholeDoc
<1>2. CASE ~suspect
  <2>1. crowded = {}
    BY <1>2 DEF LoneIsAlone
  <2>2. ASSUME target = target', target \in Inodes,
               inode'[target] = inode[target], target \in durable'
        PROVE  Whole(inode'[target']) /\ target' \in durable'
    BY <1>2, <2>2 DEF TargetSafe
  <2>3. ASSUME NEW w \in Writers, NEW d \in Docs, Open(w, d)
        PROVE  Whole(inode'[target']) /\ target' \in durable'
    <3>1. PICK i \in Inodes \ {target} : OpenTmp(w, i)
      BY <2>3 DEF Open, InUse, NamesDiffer, TypeOK
    <3> QED
      BY <1>2, <2>2, <2>3, <3>1 DEF Open, OpenTmp, TypeOK, TargetSafe
  <2>4. ASSUME NEW w \in Writers,
               Write(w) \/ WriteFails(w) \/ SyncClose(w) \/ SyncCloseFails(w) \/ Chmod(w)
        PROVE  Whole(inode'[target']) /\ target' \in durable'
    <3>1. Lone(w) /\ pc[w] # "failing"
      BY <2>1, <2>4
      DEF Lone, Busy, Write, WriteFails, SyncClose, SyncCloseFails, Chmod
    <3>2. fd[w] \in Inodes /\ fd[w] # target
      BY <3>1 DEF LoneProgress, Held, Lone, NamesDiffer
    <3> QED
      BY <1>2, <2>2, <2>4, <3>2
      DEF Write, WriteFails, SyncClose, SyncCloseFails, Chmod, TypeOK,
          TargetSafe, names
  <2>5. ASSUME NEW w \in Writers, RemoveTmp(w) \/ RenameFails(w) \/ Kill(w)
        PROVE  Whole(inode'[target']) /\ target' \in durable'
    BY <1>2, <2>2, <2>5
    DEF RemoveTmp, RenameFails, Kill, Return, TypeOK, TargetSafe
  <2>6. ASSUME NEW w \in Writers, Rename(w)
        PROVE  Whole(inode'[target']) /\ target' \in durable'
    <3>1. /\ tmp = fd[w] /\ tmp \in Inodes /\ doc[w] \in Docs
          /\ inode[tmp] = WholeDoc(doc[w]) /\ tmp \in durable
      BY <2>1, <2>6 DEF Rename, Lone, Busy, LoneProgress, Held
    <3> QED
      BY <2>6, <3>1 DEF Rename, Return, Whole, WholeDoc
  <2>7. CASE PowerLoss
    BY <1>2, <2>2, <2>7 DEF PowerLoss, names, TypeOK, TargetSafe
  <2>8. CASE UNCHANGED vars \/ \E w \in Writers : OpenFails(w)
    BY <1>2, <2>2, <2>8 DEF vars, names, OpenFails, TypeOK, TargetSafe
  <2> QED
    BY <2>3, <2>4, <2>5, <2>6, <2>7, <2>8 DEF Next, Step
<1> QED
  BY <1>1, <1>2

\* Every step preserves the invariant.
LEMMA NextIInv == IInv /\ [Next]_vars => IInv'
BY NextTyped, LoneAlone, LoneWorks, NamesApart, TargetStaysSafe DEF IInv

-----------------------------------------------------------------------------
\* Every reachable state satisfies the inductive invariant.
THEOREM Inductive == Spec => []IInv
<1>1. Init => IInv
  BY InitIInv
<1>2. IInv /\ [Next]_vars => IInv'
  BY NextIInv
<1> QED
  BY <1>1, <1>2, PTL DEF Spec

\* The variables of atomicWrite keep their types.
THEOREM TypeCorrect == Spec => []TypeOK
<1>1. IInv => TypeOK
  BY DEF IInv
<1> QED
  BY <1>1, Inductive, PTL

\* For any number of processes: <path> is absent or one complete document,
\* unless saves have overlapped since the last save that ran alone.
THEOREM Intact == Spec => []IntactUnlessCrowded
<1>1. IInv => IntactUnlessCrowded
  BY DEF IInv, TargetSafe, IntactUnlessCrowded
<1> QED
  BY <1>1, Inductive, PTL

\* A call that ran alone and returned nil has published its own document.
THEOREM Published == Spec => OkMeansPublished
<1> DEFINE Ok == \A w \in Writers \ crowded :
                    result[w] # "ok" /\ result'[w] = "ok" =>
                       /\ target' # NoInode
                       /\ inode'[target'] = WholeDoc(doc[w])
                       /\ target' \in durable'
<1>1. IInv /\ [Next]_vars => [Ok]_vars
  <2> SUFFICES ASSUME IInv, [Next]_vars, NEW w \in Writers \ crowded,
                      result[w] # "ok", result'[w] = "ok"
               PROVE  /\ target' # NoInode
                      /\ inode'[target'] = WholeDoc(doc[w])
                      /\ target' \in durable'
    OBVIOUS
  <2>1. Rename(w)
    BY DEF IInv, TypeOK, Next, Step, Open, OpenFails, Write, WriteFails,
           SyncClose, SyncCloseFails, Chmod, RemoveTmp, Rename, RenameFails,
           Kill, Return, PowerLoss, vars
  <2>2. /\ tmp = fd[w] /\ tmp \in Inodes /\ tmp \in durable
        /\ inode[tmp] = WholeDoc(doc[w])
    BY <2>1 DEF IInv, Rename, Lone, Busy, LoneProgress, Held
  <2> QED
    BY <2>1, <2>2, NamesAssumption DEF Rename, Return
<1> QED
  BY <1>1, Inductive, PTL DEF Spec, OkMeansPublished

-----------------------------------------------------------------------------
\* What <path> holds, as the register sees it.
OnFile == IF target = NoInode THEN Junk ELSE inode[target].doc

\* With one writer no call is ever overlapped.
LEMMA SoloNeverSuspect ==
    ASSUME NEW w, Writers = {w}, IInv, ~suspect, [Next]_vars
    PROVE  ~suspect'
BY DEF Next, Step, Open, OpenFails, Others, Write, WriteFails, SyncClose,
       SyncCloseFails, Chmod, RemoveTmp, Rename, RenameFails, Kill,
       PowerLoss, vars, history

\* With one writer every step is one of the register, or invisible to it.
LEMMA SoloStep ==
    ASSUME NEW w, Writers = {w}, IInv, ~suspect, [Next]_vars
    PROVE  [File!FileNext]_(File!fileVars)
<1> USE NamesAssumption DEF OnFile
<1>0. w \in Writers /\ crowded = {} /\ (target # NoInode => target \in Inodes)
  BY DEF IInv, LoneIsAlone, TypeOK
<1>1. /\ pc[w] = "idle" => doc[w] = Junk /\ fd[w] = NoInode
      /\ pc[w] # "idle" => doc[w] \in Docs /\ doc[w] # Junk /\ fd[w] \in Inodes
      /\ pc[w] \notin {"idle", "failing"} => tmp = fd[w] /\ fd[w] # target
  BY <1>0 DEF IInv, Held, Busy, LoneProgress, Lone, NamesDiffer
<1>2. ASSUME NEW d \in Docs, Open(w, d) PROVE File!Begin(w, d)
  <2>1. PICK i \in Inodes \ {target} : OpenTmp(w, i)
    BY <1>2 DEF Open, InUse, IInv, NamesDiffer, TypeOK
  <2>2. OnFile' = OnFile
    BY <1>0, <1>2, <2>1 DEF Open, OpenTmp, IInv, TypeOK
  <2> QED
    BY <1>1, <1>2, <2>2 DEF Open, File!Begin
<1>3. ASSUME OpenFails(w) PROVE File!Refuse(w)
  BY <1>1, <1>3 DEF OpenFails, File!Refuse, names
<1>4. ASSUME Write(w) \/ WriteFails(w) \/ SyncClose(w) \/ SyncCloseFails(w) \/ Chmod(w)
      PROVE  UNCHANGED File!fileVars
  <2>1. UNCHANGED <<target, doc, result>>
    BY <1>4 DEF Write, WriteFails, SyncClose, SyncCloseFails, Chmod, names
  <2>2. target # NoInode => inode'[target] = inode[target]
    BY <1>0, <1>1, <1>4
    DEF Write, WriteFails, SyncClose, SyncCloseFails, Chmod, IInv, TypeOK
  <2> QED
    BY <2>1, <2>2 DEF File!fileVars
<1>5. ASSUME RemoveTmp(w) \/ RenameFails(w) PROVE File!Fail(w)
  <2>1. OnFile' = OnFile
    BY <1>0, <1>5 DEF RemoveTmp, RenameFails, Return
  <2> QED
    BY <1>1, <1>5, <2>1
    DEF RemoveTmp, RenameFails, Return, File!Fail, File!End
<1>6. ASSUME Rename(w) PROVE File!Commit(w)
  <2>1. tmp \in Inodes /\ inode[tmp] = WholeDoc(doc[w])
    BY <1>0, <1>1, <1>6 DEF Rename, IInv, LoneProgress, Lone, Busy
  <2>2. OnFile' = doc[w]
    BY <1>6, <2>1 DEF Rename, Return, WholeDoc
  <2> QED
    BY <1>1, <1>6, <2>2 DEF Rename, Return, File!Commit, File!End
<1>7. ASSUME Kill(w) PROVE File!Die(w)
  <2>1. OnFile' = OnFile
    BY <1>0, <1>7 DEF Kill, Return
  <2> QED
    BY <1>1, <1>7, <2>1 DEF Kill, Busy, Return, File!Die, File!End
<1>8. ASSUME PowerLoss PROVE File!CrashAll
  <2>1. target # NoInode => target \in durable
    BY DEF IInv, TargetSafe
  <2>2. OnFile' = OnFile
    BY <1>0, <1>8, <2>1 DEF PowerLoss, names
  <2> QED
    BY <1>8, <2>2 DEF PowerLoss, File!CrashAll
<1>9. ASSUME UNCHANGED vars PROVE UNCHANGED File!fileVars
  BY <1>9 DEF vars, names, File!fileVars
<1> QED
  BY <1>0, <1>2, <1>3, <1>4, <1>5, <1>6, <1>7, <1>8, <1>9
  DEF Next, Step, File!FileNext

\* With one writer at a time atomicWrite implements the atomic register,
\* through every failed call, every kill and every power loss.
THEOREM OneWriterIsAtomic ==
    ASSUME NEW w, Writers = {w} PROVE Spec => AtomicForOneWriter
<1>1. Init => IInv /\ ~suspect
  BY InitIInv DEF Init
<1>2. IInv /\ ~suspect /\ [Next]_vars => (IInv /\ ~suspect)'
  BY NextIInv, SoloNeverSuspect
<1>3. Init => File!FileInit
  BY DEF Init, File!FileInit, Whole
<1>4. IInv /\ ~suspect /\ [Next]_vars => [File!FileNext]_(File!fileVars)
  BY SoloStep
<1> QED
  BY <1>1, <1>2, <1>3, <1>4, PTL DEF Spec, AtomicForOneWriter, File!FileSpec

\* With one writer at a time <path> is absent or one complete document, in every
\* state: no failed call, kill or power loss leaves half of one behind.
THEOREM OneWriterNeverHalf ==
    ASSUME NEW w, Writers = {w} PROVE Spec => []NeverHalfAFile
<1>1. Init => IInv /\ ~suspect
  BY InitIInv DEF Init
<1>2. IInv /\ ~suspect /\ [Next]_vars => (IInv /\ ~suspect)'
  BY NextIInv, SoloNeverSuspect
<1>3. IInv /\ ~suspect => NeverHalfAFile
  BY DEF IInv, TargetSafe, NeverHalfAFile
<1> QED
  BY <1>1, <1>2, <1>3, PTL DEF Spec
=============================================================================
