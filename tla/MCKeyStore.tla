----------------------------- MODULE MCKeyStore -----------------------------
(* Small instances of KeyStore for TLC. *)
EXTENDS KeyStore, FiniteSets, TLC

\* A store with fewer entries is a shorter text.
MCStoreSize(s) == 1 + Cardinality({k \in Keys : s[k].status # "absent"})

\* The file holds no key yet, or one enabled key.
MCInitStores ==
    {EmptyStore} \cup
    {[EmptyStore EXCEPT ![k] = [status |-> "on", used |-> 0]] : k \in Keys}

\* The Size of a store, and which key and inode is which, decide nothing else.
MCSymmetry == Permutations(Keys) \cup Permutations(Inodes)

\* Read-change-save sequences that do not overlap.
Serial == ~raced

\* What decides the steps a state allows and the properties of the racing
\* run: the last results, the histories of overlap and which command a key
\* saw last do not.
RaceView ==
    <<inode, durable, target, tmp, pc, fd, doc, job, usage, issued, billed,
      {k \in Keys : promised[k] # "none"}>>
=============================================================================
