---------------------- MODULE OutputTransaction_proofs ----------------------
(***************************************************************************)
(* Proofs about OutputTransaction: types, the safety properties of the     *)
(* staged file's life, and the refinement of AtomicReplace, for every      *)
(* number of processes, transactions, slots and names.                     *)
(***************************************************************************)
EXTENDS OutputTransaction, TLAPS

(* The phases after rename(2) has succeeded.                               *)
Replaced(t) == pc[t] \in {"renamed", "untracked"} \/ result[t] = "ok"

(* Between a transaction's phase and what its caller has been told.        *)
ResultInv ==
    \A t \in Txn :
        /\ result[t] = "ok" => pc[t] \in {"committed", "closing", "removed", "gone"}
        /\ result[t] = "error" => pc[t] \in {"failed", "closing", "removed", "gone"}
        /\ pc[t] = "committed" => result[t] = "ok"
        /\ pc[t] = "failed" => result[t] = "error"
        /\ pc[t] \in {"closing", "removed", "gone"} => result[t] # "none"

(* How much of a staged file the kernel and the disk have in each phase.   *)
DataInv ==
    \A t \in Txn :
        /\ disk[t] <= cache[t] /\ cache[t] <= written[t]
        /\ pc[t] = "closed" /\ mode[Owner[t]] = "run" => cache[t] = Size
        /\ pc[t] \in {"synced", "validated"} \/ Replaced(t) => disk[t] = Size

(* Where a directory entry may be bound to what.                           *)
BindingInv ==
    /\ \A n \in Name : dir[n] \in pend[n]
    /\ \A n \in Path, t \in Txn : t \in pend[n] => n = Dest[t] /\ Replaced(t)
    /\ \A n \in Taken : pend[n] = {Leftover}

(* A staged name is the transaction's own, and holds its file or nothing.  *)
StagedInv ==
    \A t \in Txn :
        /\ pc[t] \in {"new", "create"} => attempt[t] < MaxAttempts
        /\ pc[t] = "new" => attempt[t] = 0
        /\ pc[t] \in {"new", "create", "created"} => temp[t] = None
        /\ temp[t] # None => temp[t] = <<t, attempt[t]>> /\ attempt[t] > 0
        /\ pc[t] \in {"tracked", "inspected", "staged", "closed", "synced", "validated"}
           => temp[t] # None
        /\ pc[t] = "created" \/ temp[t] # None
           => /\ attempt[t] > 0 /\ <<t, attempt[t]>> \notin Taken
              /\ pend[<<t, attempt[t]>>] \subseteq {None, t}
        /\ \A k \in attempt[t] + 1 .. MaxAttempts : pend[<<t, k>>] = {dir[<<t, k>>]}

IInv == TypeOK /\ ResultInv /\ DataInv /\ BindingInv /\ StagedInv

-----------------------------------------------------------------------------
(* What a directory operation is given is a directory entry.               *)
LEMMA EntryFacts == /\ Txn \subseteq Entry /\ None \in Entry /\ Stub \in Entry
                    /\ Given \cup {None, Directory} \subseteq Entry
BY DEF Entry, Inode

(* A directory operation keeps the directory's type.                       *)
LEMMA BindType == ASSUME TypeOK, NEW n, NEW x \in Entry, Bind(n, x)
                  PROVE  dir' \in [Name -> Entry] /\ pend' \in [Name -> SUBSET Entry]
BY DEF TypeOK, Bind

(* The initial state has the types.                                        *)
LEMMA TypeInit == ASSUME ConstantsAssumption, Init
                  PROVE  TypeOK
<1>1. dir \in [Name -> Entry]
  BY DEF ConstantsAssumption, Init, Name, Entry, Inode
<1> QED  BY <1>1 DEF ConstantsAssumption, Init, TypeOK, Phases

(* Every action keeps the types.                                           *)
LEMMA TypeStep == ASSUME ConstantsAssumption, TypeOK, StagedInv, [Next]_vars
                  PROVE  TypeOK'
<1>a. \A t \in Txn : pc[t] = "create" => attempt[t] < MaxAttempts
  BY DEF StagedInv
<1> USE EntryFacts DEF TypeOK, local, data, store, proc, Goto, Error
<1>0. Size \in Nat /\ MaxAttempts \in Nat /\ NumSlots \in Nat /\ MaxRebinds \in Nat
  BY DEF ConstantsAssumption
<1>1. ASSUME NEW t \in Txn, Open(t) PROVE TypeOK'
  BY <1>1 DEF Open, Phases
<1>2. ASSUME NEW t \in Txn, CreateStaged(t) PROVE TypeOK'
  <2>1. dir' \in [Name -> Entry] /\ pend' \in [Name -> SUBSET Entry]
    BY <1>2, BindType DEF CreateStaged
  <2>2. attempt' \in [Txn -> 0 .. MaxAttempts]
    <3>1. attempt[t] + 1 \in 0 .. MaxAttempts
      BY <1>0, <1>a, <1>2 DEF CreateStaged
    <3>2. attempt' = [attempt EXCEPT ![t] = @ + 1]
      BY <1>2 DEF CreateStaged
    <3> QED  BY <3>1, <3>2
  <2> QED  BY <1>2, <2>1, <2>2 DEF CreateStaged, Phases
<1>3. ASSUME NEW t \in Txn, CreateCollides(t) PROVE TypeOK'
  <2>1. dir' \in [Name -> Entry] /\ pend' \in [Name -> SUBSET Entry]
    BY <1>3, BindType DEF CreateCollides
  <2>2. pc[t] = "create"
    BY <1>3 DEF CreateCollides
  <2>3. attempt' \in [Txn -> 0 .. MaxAttempts]
    <3>1. attempt[t] + 1 \in 0 .. MaxAttempts
      BY <1>0, <1>a, <2>2
    <3>2. attempt' = [attempt EXCEPT ![t] = @ + 1]
      BY <1>3 DEF CreateCollides
    <3> QED  BY <3>1, <3>2
  <2>4. pc' \in [Txn -> Phases] /\ result' \in [Txn -> {"none", "ok", "error"}]
    BY ZenonT(60), <1>3 DEF CreateCollides, Phases
  <2> QED  BY <1>3, <2>1, <2>3, <2>4 DEF CreateCollides
<1>4. ASSUME NEW t \in Txn, CreateFails(t) PROVE TypeOK'
  <2>1. dir' \in [Name -> Entry] /\ pend' \in [Name -> SUBSET Entry]
    BY <1>4, BindType DEF CreateFails
  <2>2. attempt' \in [Txn -> 0 .. MaxAttempts]
    <3>1. attempt[t] + 1 \in 0 .. MaxAttempts
      BY <1>0, <1>a, <1>4 DEF CreateFails
    <3>2. attempt' = [attempt EXCEPT ![t] = @ + 1]
      BY <1>4 DEF CreateFails
    <3> QED  BY <3>1, <3>2
  <2> QED  BY <1>4, <2>1, <2>2 DEF CreateFails, Phases
<1>5. ASSUME NEW t \in Txn, Track(t) PROVE TypeOK'
  <2>1. temp' \in [Txn -> Staged \cup {None}]
    <3>1. pc[t] = "created"
      BY <1>5 DEF Track
    <3>2. <<t, attempt[t]>> \in Staged
      BY SMTT(60), <1>0, <3>1 DEF StagedInv, Staged
    <3> QED  BY <1>5, <3>2 DEF Track
  <2>2. \/ UNCHANGED <<slot, table>>
        \/ \E i \in 1 .. NumSlots : /\ slot' = [slot EXCEPT ![t] = i]
                                     /\ table' = [table EXCEPT ![Owner[t]][i] = t]
    BY <1>5 DEF Track
  <2>3. /\ slot' \in [Txn -> 0 .. NumSlots]
        /\ table' \in [Proc -> [1 .. NumSlots -> Txn \cup {None}]]
    <3>1. CASE UNCHANGED <<slot, table>>
      BY <3>1
    <3>2. ASSUME NEW i \in 1 .. NumSlots, slot' = [slot EXCEPT ![t] = i],
                 table' = [table EXCEPT ![Owner[t]][i] = t]
          PROVE  /\ slot' \in [Txn -> 0 .. NumSlots]
                 /\ table' \in [Proc -> [1 .. NumSlots -> Txn \cup {None}]]
      <4>1. i \in 0 .. NumSlots
        BY <1>0
      <4>2. [table[Owner[t]] EXCEPT ![i] = t] \in [1 .. NumSlots -> Txn \cup {None}]
        BY DEF ConstantsAssumption
      <4> QED  BY <3>2, <4>1, <4>2
    <3> QED  BY <2>2, <3>1, <3>2
  <2> QED  BY <1>5, <2>1, <2>3 DEF Track, Phases
<1>6a. ASSUME NEW t \in Txn, InspectPermissions(t) PROVE TypeOK'
  <2>1. dir[Dest[t]] # None => PermOf(dir[Dest[t]]) \in Perm
    BY DEF ConstantsAssumption, PermOf, Entry, Inode, Name
  <2>2. found' \in [Txn -> Perm \cup {None}]
    BY ZenonT(60), <1>6a, <2>1 DEF InspectPermissions
  <2> QED  BY <1>6a, <2>2 DEF InspectPermissions, Phases
<1>6. ASSUME NEW t \in Txn, CopyPermissions(t) PROVE TypeOK'
  <2>1. perm' \in [Txn -> Perm]
    BY ZenonT(60), <1>6 DEF CopyPermissions
  <2>2. found' \in [Txn -> Perm \cup {None}]
    BY <1>6 DEF CopyPermissions
  <2> QED  BY <1>6, <2>1, <2>2 DEF CopyPermissions, Phases
<1>7. ASSUME NEW t \in Txn, Write(t) PROVE TypeOK'
  <2>1. written' \in [Txn -> 0 .. Size] /\ cache' \in [Txn -> 0 .. Size]
    <3>1. CASE UNCHANGED <<written, cache>>
      BY <3>1
    <3>2. CASE /\ written' = [written EXCEPT ![t] = @ + 1]
               /\ \E c \in cache[t] .. written[t] + 1 : cache' = [cache EXCEPT ![t] = c]
      <4>1. written[t] + 1 \in 0 .. Size
        BY <1>0, <1>7 DEF Write
      <4>2. PICK c \in cache[t] .. written[t] + 1 : cache' = [cache EXCEPT ![t] = c]
        BY <3>2
      <4>3. c \in 0 .. Size
        BY SMTT(60), <1>0, <4>1
      <4>4. written' = [written EXCEPT ![t] = @ + 1]
        BY <3>2
      <4>5. written' \in [Txn -> 0 .. Size]
        BY <4>1, <4>4
      <4>6. cache' \in [Txn -> 0 .. Size]
        BY <4>2, <4>3
      <4> QED  BY <4>5, <4>6
    <3> QED  BY <1>7, <3>1, <3>2 DEF Write
  <2>2. ioErr' \in [Txn -> BOOLEAN]
    BY <1>7 DEF Write
  <2> QED  BY <1>7, <2>1, <2>2 DEF Write, Phases
<1>8. ASSUME NEW t \in Txn, CommitClose(t) PROVE TypeOK'
  <2>1. cache' \in [Txn -> 0 .. Size]
    <3>1. \E c \in 0 .. Size : cache' = [cache EXCEPT ![t] = c]
      BY <1>0, <1>8 DEF CommitClose
    <3> QED  BY <3>1
  <2>2. ioErr' \in [Txn -> BOOLEAN]
    BY <1>8 DEF CommitClose
  <2> QED  BY ZenonT(60), <1>8, <2>1, <2>2 DEF CommitClose, Phases
<1>9. ASSUME NEW t \in Txn, CommitSync(t) PROVE TypeOK'
  <2>1. disk' \in [Txn -> 0 .. Size]
    BY SMTT(60), <1>9 DEF CommitSync
  <2> QED  BY <1>9, <2>1 DEF CommitSync, Phases
<1>10. ASSUME NEW t \in Txn, CommitValidate(t) PROVE TypeOK'
  BY <1>10 DEF CommitValidate, Phases
<1>11. ASSUME NEW t \in Txn, CommitRename(t) PROVE TypeOK'
  <2>1. CASE UNCHANGED store
    BY <1>11, <2>1 DEF CommitRename, Phases
  <2>2. CASE Goto(t, "validated", "renamed")
    <3>1. temp[t] \in Name
      <4>1. temp[t] # None
        BY <2>2 DEF StagedInv
      <4> QED  BY <4>1 DEF Name
    <3>2. dir[temp[t]] \in Entry
      BY <3>1
    <3>3. dir' \in [Name -> Entry] /\ pend' \in [Name -> SUBSET Entry]
      <4>1. /\ dir'  = [dir EXCEPT ![temp[t]] = None, ![Dest[t]] = dir[temp[t]]]
            /\ pend' = [pend EXCEPT ![temp[t]] = @ \cup {None},
                                    ![Dest[t]] = @ \cup {dir[temp[t]]}]
        BY <1>11, <2>2 DEF CommitRename
      <4>2. Dest[t] \in Name
        BY DEF ConstantsAssumption, Name
      <4> QED  BY ZenonT(60), <3>1, <3>2, <4>1, <4>2
    <3> QED  BY <1>11, <2>2, <3>3 DEF CommitRename, Phases
  <2> QED  BY <1>11, <2>1, <2>2 DEF CommitRename, store
<1>12. ASSUME NEW t \in Txn, CommitUntrack(t) PROVE TypeOK'
  BY SMTT(60), <1>12 DEF CommitUntrack, Untrack, Phases
<1>13. ASSUME NEW t \in Txn, CommitSyncDirectory(t) PROVE TypeOK'
  BY SMTT(60), <1>13 DEF CommitSyncDirectory, Phases
<1>14. ASSUME NEW t \in Txn, DtorClose(t) PROVE TypeOK'
  BY SMTT(60), <1>14 DEF DtorClose, Phases
<1>15. ASSUME NEW t \in Txn, DtorRemove(t) PROVE TypeOK'
  BY SMTT(60), <1>15, BindType DEF DtorRemove, Unlink, Phases
<1>16. ASSUME NEW t \in Txn, DtorUntrack(t) PROVE TypeOK'
  BY SMTT(60), <1>16 DEF DtorUntrack, Untrack, Phases
<1>17. ASSUME NEW p \in Proc, Signal(p) PROVE TypeOK'
  BY <1>17 DEF Signal
<1>18. ASSUME NEW p \in Proc, HandlerStep(p) PROVE TypeOK'
  <2>1. dir' \in [Name -> Entry] /\ pend' \in [Name -> SUBSET Entry]
    BY <1>18, BindType DEF HandlerStep, Unlink
  <2>2. table[p][next[p]] # None => table[p][next[p]] \in Txn
    BY <1>0, <1>18 DEF HandlerStep
  <2>3. next' \in [Proc -> 1 .. NumSlots + 1] /\ stuck' \subseteq Txn
    BY SMTT(60), <1>0, <1>18, <2>2 DEF HandlerStep
  <2> QED  BY <1>18, <2>1, <2>3 DEF HandlerStep
<1>19. ASSUME NEW p \in Proc, HandlerReraise(p) PROVE TypeOK'
  BY <1>19 DEF HandlerReraise
<1>20. ASSUME NEW p \in Proc, Kill(p) PROVE TypeOK'
  BY <1>20 DEF Kill
<1>21. CASE PowerLoss
  BY <1>21 DEF PowerLoss, Unsettled
<1>22. CASE Rebind
  <2>1. dir' \in [Name -> Entry] /\ pend' \in [Name -> SUBSET Entry]
    BY <1>22, BindType DEF Rebind
  <2>2. rebinds' \in 0 .. MaxRebinds
    BY <1>0, <1>22 DEF Rebind
  <2> QED  BY <1>22, <2>1, <2>2 DEF Rebind
<1>23. CASE UNCHANGED vars
  BY <1>23 DEF vars
<1> QED
  BY <1>1, <1>2, <1>3, <1>4, <1>5, <1>6a, <1>6, <1>7, <1>8, <1>9, <1>10, <1>11, <1>12,
     <1>13, <1>14, <1>15, <1>16, <1>17, <1>18, <1>19, <1>20, <1>21, <1>22, <1>23 DEF Next, Call, Proceed, Ended

(* What the caller is told goes with the phase.                            *)
LEMMA ResultInvStep == ASSUME TypeOK, ResultInv,
                       [Next]_vars
                PROVE  ResultInv'
<1> USE DEF TypeOK, ResultInv, Goto, Error
<1>1. ASSUME NEW t \in Txn, Open(t) PROVE ResultInv'
  BY <1>1 DEF Open
<1>2. ASSUME NEW t \in Txn, CreateStaged(t) PROVE ResultInv'
  BY <1>2 DEF CreateStaged
<1>3. ASSUME NEW t \in Txn, CreateCollides(t) PROVE ResultInv'
  BY <1>3 DEF CreateCollides
<1>4. ASSUME NEW t \in Txn, CreateFails(t) PROVE ResultInv'
  BY <1>4 DEF CreateFails
<1>5. ASSUME NEW t \in Txn, Track(t) PROVE ResultInv'
  BY <1>5 DEF Track
<1>6a. ASSUME NEW t \in Txn, InspectPermissions(t) PROVE ResultInv'
  BY ZenonT(60), <1>6a DEF InspectPermissions
<1>6. ASSUME NEW t \in Txn, CopyPermissions(t) PROVE ResultInv'
  BY ZenonT(60), <1>6 DEF CopyPermissions
<1>7. ASSUME NEW t \in Txn, Write(t) PROVE ResultInv'
  BY <1>7 DEF Write
<1>8. ASSUME NEW t \in Txn, CommitClose(t) PROVE ResultInv'
  BY <1>8 DEF CommitClose
<1>9. ASSUME NEW t \in Txn, CommitSync(t) PROVE ResultInv'
  BY ZenonT(60), <1>9 DEF CommitSync
<1>10. ASSUME NEW t \in Txn, CommitValidate(t) PROVE ResultInv'
  BY <1>10 DEF CommitValidate
<1>11. ASSUME NEW t \in Txn, CommitRename(t) PROVE ResultInv'
  BY <1>11 DEF CommitRename
<1>12. ASSUME NEW t \in Txn, CommitUntrack(t) PROVE ResultInv'
  BY <1>12 DEF CommitUntrack
<1>13. ASSUME NEW t \in Txn, CommitSyncDirectory(t) PROVE ResultInv'
  BY <1>13 DEF CommitSyncDirectory
<1>14. ASSUME NEW t \in Txn, DtorClose(t) PROVE ResultInv'
  BY <1>14 DEF DtorClose
<1>15. ASSUME NEW t \in Txn, DtorRemove(t) PROVE ResultInv'
  BY <1>15 DEF DtorRemove
<1>16. ASSUME NEW t \in Txn, DtorUntrack(t) PROVE ResultInv'
  BY <1>16 DEF DtorUntrack
<1>17. ASSUME NEW p \in Proc, Signal(p) PROVE ResultInv'
  BY <1>17 DEF Signal
<1>18. ASSUME NEW p \in Proc, HandlerStep(p) PROVE ResultInv'
  BY <1>18 DEF HandlerStep
<1>19. ASSUME NEW p \in Proc, HandlerReraise(p) PROVE ResultInv'
  BY <1>19 DEF HandlerReraise
<1>20. ASSUME NEW p \in Proc, Kill(p) PROVE ResultInv'
  BY <1>20 DEF Kill
<1>21. CASE PowerLoss
  BY <1>21 DEF PowerLoss
<1>22. CASE Rebind
  BY <1>22 DEF Rebind
<1>23. CASE UNCHANGED vars
  BY <1>23 DEF vars
<1> QED
  BY <1>1, <1>2, <1>3, <1>4, <1>5, <1>6a, <1>6, <1>7, <1>8, <1>9, <1>10, <1>11, <1>12,
     <1>13, <1>14, <1>15, <1>16, <1>17, <1>18, <1>19, <1>20, <1>21, <1>22, <1>23 DEF Next, Call, Proceed, Ended

(* Whatever the phase promises of a staged file's chunks stays true.         *)
LEMMA DataInvStep == ASSUME ConstantsAssumption, TypeOK, ResultInv, DataInv,
                     [Next]_vars
              PROVE  DataInv'
<1>0. Size \in Nat /\ Owner \in [Txn -> Proc]
  BY DEF ConstantsAssumption
<1> USE <1>0 DEF TypeOK, ResultInv, DataInv, Replaced, Goto, Error, proc, data
<1>1. ASSUME NEW t \in Txn, Open(t) PROVE DataInv'
  BY SMTT(60), <1>1 DEF Open
<1>2. ASSUME NEW t \in Txn, CreateStaged(t) PROVE DataInv'
  BY <1>2 DEF CreateStaged
<1>3. ASSUME NEW t \in Txn, CreateCollides(t) PROVE DataInv'
  BY SMTT(60), <1>3 DEF CreateCollides
<1>4. ASSUME NEW t \in Txn, CreateFails(t) PROVE DataInv'
  BY <1>4 DEF CreateFails
<1>5. ASSUME NEW t \in Txn, Track(t) PROVE DataInv'
  BY <1>5 DEF Track
<1>6a. ASSUME NEW t \in Txn, InspectPermissions(t) PROVE DataInv'
  BY SMTT(60), <1>6a DEF InspectPermissions
<1>6. ASSUME NEW t \in Txn, CopyPermissions(t) PROVE DataInv'
  BY SMTT(60), <1>6 DEF CopyPermissions
<1>7. ASSUME NEW t \in Txn, Write(t) PROVE DataInv'
  BY SMTT(60), <1>7 DEF Write
<1>8. ASSUME NEW t \in Txn, CommitClose(t) PROVE DataInv'
  BY SMTT(60), <1>8 DEF CommitClose
<1>9. ASSUME NEW t \in Txn, CommitSync(t) PROVE DataInv'
  BY SMTT(60), <1>9 DEF CommitSync, Runs
<1>10. ASSUME NEW t \in Txn, CommitValidate(t) PROVE DataInv'
  BY SMTT(60), <1>10 DEF CommitValidate
<1>11. ASSUME NEW t \in Txn, CommitRename(t) PROVE DataInv'
  BY SMTT(60), <1>11 DEF CommitRename
<1>12. ASSUME NEW t \in Txn, CommitUntrack(t) PROVE DataInv'
  BY <1>12 DEF CommitUntrack
<1>13. ASSUME NEW t \in Txn, CommitSyncDirectory(t) PROVE DataInv'
  BY <1>13 DEF CommitSyncDirectory
<1>14. ASSUME NEW t \in Txn, DtorClose(t) PROVE DataInv'
  BY SMTT(60), <1>14 DEF DtorClose
<1>15. ASSUME NEW t \in Txn, DtorRemove(t) PROVE DataInv'
  BY <1>15 DEF DtorRemove
<1>16. ASSUME NEW t \in Txn, DtorUntrack(t) PROVE DataInv'
  BY <1>16 DEF DtorUntrack
<1>17. ASSUME NEW p \in Proc, Signal(p) PROVE DataInv'
  BY <1>17 DEF Signal
<1>18. ASSUME NEW p \in Proc, HandlerStep(p) PROVE DataInv'
  BY <1>18 DEF HandlerStep
<1>19. ASSUME NEW p \in Proc, HandlerReraise(p) PROVE DataInv'
  BY <1>19 DEF HandlerReraise
<1>20. ASSUME NEW p \in Proc, Kill(p) PROVE DataInv'
  BY <1>20 DEF Kill
<1>21. CASE PowerLoss
  BY <1>21 DEF PowerLoss, Started
<1>22. CASE Rebind
  BY <1>22 DEF Rebind
<1>23. CASE UNCHANGED vars
  BY <1>23 DEF vars
<1> QED
  BY <1>1, <1>2, <1>3, <1>4, <1>5, <1>6a, <1>6, <1>7, <1>8, <1>9, <1>10, <1>11, <1>12,
     <1>13, <1>14, <1>15, <1>16, <1>17, <1>18, <1>19, <1>20, <1>21, <1>22, <1>23 DEF Next, Call, Proceed, Ended

(* A transaction that has replaced its destination stays one that has.     *)
LEMMA ReplacedStays == ASSUME TypeOK, ResultInv, [Next]_vars, NEW t \in Txn, Replaced(t)
                       PROVE  Replaced(t)'
<1> USE DEF TypeOK, ResultInv, Replaced, Goto, Error
<1>1. ASSUME NEW u \in Txn, Open(u) PROVE Replaced(t)'
  BY <1>1 DEF Open
<1>2. ASSUME NEW u \in Txn, CreateStaged(u) PROVE Replaced(t)'
  BY <1>2 DEF CreateStaged
<1>3. ASSUME NEW u \in Txn, CreateCollides(u) PROVE Replaced(t)'
  BY <1>3 DEF CreateCollides
<1>4. ASSUME NEW u \in Txn, CreateFails(u) PROVE Replaced(t)'
  BY <1>4 DEF CreateFails
<1>5. ASSUME NEW u \in Txn, Track(u) PROVE Replaced(t)'
  BY <1>5 DEF Track
<1>6a. ASSUME NEW u \in Txn, InspectPermissions(u) PROVE Replaced(t)'
  BY <1>6a DEF InspectPermissions
<1>6. ASSUME NEW u \in Txn, CopyPermissions(u) PROVE Replaced(t)'
  BY <1>6 DEF CopyPermissions
<1>7. ASSUME NEW u \in Txn, Write(u) PROVE Replaced(t)'
  BY <1>7 DEF Write
<1>8. ASSUME NEW u \in Txn, CommitClose(u) PROVE Replaced(t)'
  BY ZenonT(60), <1>8 DEF CommitClose
<1>9. ASSUME NEW u \in Txn, CommitSync(u) PROVE Replaced(t)'
  BY <1>9 DEF CommitSync
<1>10. ASSUME NEW u \in Txn, CommitValidate(u) PROVE Replaced(t)'
  BY <1>10 DEF CommitValidate
<1>11. ASSUME NEW u \in Txn, CommitRename(u) PROVE Replaced(t)'
  BY <1>11 DEF CommitRename
<1>12. ASSUME NEW u \in Txn, CommitUntrack(u) PROVE Replaced(t)'
  BY <1>12 DEF CommitUntrack
<1>13. ASSUME NEW u \in Txn, CommitSyncDirectory(u) PROVE Replaced(t)'
  BY <1>13 DEF CommitSyncDirectory
<1>14. ASSUME NEW u \in Txn, DtorClose(u) PROVE Replaced(t)'
  BY <1>14 DEF DtorClose
<1>15. ASSUME NEW u \in Txn, DtorRemove(u) PROVE Replaced(t)'
  BY <1>15 DEF DtorRemove
<1>16. ASSUME NEW u \in Txn, DtorUntrack(u) PROVE Replaced(t)'
  BY <1>16 DEF DtorUntrack
<1>17. CASE UNCHANGED <<pc, result>>
  BY <1>17
<1> QED
  BY <1>1, <1>2, <1>3, <1>4, <1>5, <1>6a, <1>6, <1>7, <1>8, <1>9, <1>10, <1>11, <1>12,
     <1>13, <1>14, <1>15, <1>16, <1>17
  DEF Next, Call, Proceed, Ended, vars, Signal, HandlerStep, HandlerReraise, Kill, PowerLoss, Rebind

(* Binding a name that no earlier run left behind, and on a path to no     *)
(* staged file, keeps BindingInv.                                          *)
LEMMA BindKeeps == ASSUME ConstantsAssumption, TypeOK, BindingInv,
                          NEW n, n \notin Taken, NEW x \in Entry,
                          n \in Path => x \notin Txn, Bind(n, x),
                          \A t \in Txn : Replaced(t) => Replaced(t)'
                   PROVE  BindingInv'
<1>1. \A m \in Name : /\ m # n => dir'[m] = dir[m] /\ pend'[m] = pend[m]
                      /\ m = n => dir'[m] = x /\ pend'[m] = pend[m] \cup {x}
  BY DEF TypeOK, Bind
<1>2. Path \subseteq Name /\ Taken \subseteq Name
  BY DEF ConstantsAssumption, Name
<1> QED  BY <1>1, <1>2 DEF BindingInv

(* temporary_ never names a path or what an earlier run left behind.       *)
LEMMA TempFacts == ASSUME ConstantsAssumption, DistinctAssumption, TypeOK, StagedInv
                   PROVE  \A t \in Txn : temp[t] \notin Path /\ temp[t] \notin Taken
<1> TAKE t \in Txn
<1>1. None \notin Path /\ None \notin Taken
  BY DEF ConstantsAssumption, DistinctAssumption, Name
<1>2. CASE temp[t] # None
  <2>1. temp[t] \in Staged
    BY <1>2 DEF TypeOK
  <2>2. temp[t] \notin Path
    BY <2>1 DEF DistinctAssumption
  <2>3. temp[t] = <<t, attempt[t]>> /\ <<t, attempt[t]>> \notin Taken
    BY <1>2 DEF StagedInv
  <2> QED  BY <2>2, <2>3
<1> QED  BY <1>1, <1>2

(* Every directory entry stays where the protocol put it.                    *)
LEMMA BindingInvStep == ASSUME ConstantsAssumption, DistinctAssumption, TypeOK,
                            ResultInv, BindingInv, StagedInv,
                        [Next]_vars
                 PROVE  BindingInv'
<1>a. \A t \in Txn : pc[t] = "create" => attempt[t] + 1 \in 1 .. MaxAttempts
  <2>1. \A t \in Txn : pc[t] = "create" => attempt[t] < MaxAttempts
    BY DEF StagedInv
  <2>2. attempt \in [Txn -> 0 .. MaxAttempts] /\ MaxAttempts \in Nat
    BY DEF TypeOK, ConstantsAssumption
  <2> QED  BY <2>1, <2>2
<1>b. \A n \in Staged : n \notin Path
  BY DEF DistinctAssumption
<1>c. \A n \in Taken : dir[n] # None
  BY DEF ConstantsAssumption, DistinctAssumption, BindingInv, Name
<1>d. \A t \in Txn : Replaced(t) => Replaced(t)'
  BY ReplacedStays
<1>e. UNCHANGED store => BindingInv'
  BY <1>d DEF store, BindingInv
<1>f. None \notin Txn
  BY DEF DistinctAssumption
<1> USE DEF store
<1>1. ASSUME NEW t \in Txn, Open(t) PROVE BindingInv'
  BY <1>1, <1>d, <1>e DEF Open
<1>2. ASSUME NEW t \in Txn, CreateStaged(t) PROVE BindingInv'
  <2>1. /\ dir[Candidate(t)] = None /\ Bind(Candidate(t), t) /\ t \in Entry
        /\ Candidate(t) \in Staged
    BY <1>2, <1>a, EntryFacts DEF CreateStaged, Candidate, Staged, Goto
  <2>2. Candidate(t) \notin Path /\ Candidate(t) \notin Taken
    BY <2>1, <1>b, <1>c
  <2> QED  BY <2>1, <2>2, <1>d, BindKeeps
<1>3. ASSUME NEW t \in Txn, CreateCollides(t) PROVE BindingInv'
  <2>1. CASE UNCHANGED store
    BY <2>1, <1>d, <1>e
  <2>2. CASE dir[Candidate(t)] = None /\ Bind(Candidate(t), Stub)
    <3>1. Candidate(t) \in Staged
      BY <1>3, <1>a DEF CreateCollides, Candidate, Staged, Goto, Error
    <3>2. Candidate(t) \notin Path /\ Candidate(t) \notin Taken
      BY <3>1, <2>2, <1>b, <1>c
    <3> QED  BY <2>2, <3>2, <1>d, BindKeeps, EntryFacts
  <2> QED  BY <1>3, <2>1, <2>2 DEF CreateCollides
<1>4. ASSUME NEW t \in Txn, CreateFails(t) PROVE BindingInv'
  <2>1. CASE UNCHANGED store
    BY <2>1, <1>d, <1>e
  <2>2. CASE dir[Candidate(t)] = None /\ Bind(Candidate(t), Stub)
    <3>1. Candidate(t) \in Staged
      BY <1>4, <1>a DEF CreateFails, Candidate, Staged, Goto, Error
    <3>2. Candidate(t) \notin Path /\ Candidate(t) \notin Taken
      BY <3>1, <2>2, <1>b, <1>c
    <3> QED  BY <2>2, <3>2, <1>d, BindKeeps, EntryFacts
  <2> QED  BY <1>4, <2>1, <2>2 DEF CreateFails
<1>5. ASSUME NEW t \in Txn, Track(t) PROVE BindingInv'
  BY <1>5, <1>d, <1>e DEF Track
<1>6a. ASSUME NEW t \in Txn, InspectPermissions(t) PROVE BindingInv'
  BY <1>6a, <1>d, <1>e DEF InspectPermissions
<1>6. ASSUME NEW t \in Txn, CopyPermissions(t) PROVE BindingInv'
  BY <1>6, <1>d, <1>e DEF CopyPermissions
<1>7. ASSUME NEW t \in Txn, Write(t) PROVE BindingInv'
  BY <1>7, <1>d, <1>e DEF Write
<1>8. ASSUME NEW t \in Txn, CommitClose(t) PROVE BindingInv'
  BY <1>8, <1>d, <1>e DEF CommitClose
<1>9. ASSUME NEW t \in Txn, CommitSync(t) PROVE BindingInv'
  BY <1>9, <1>d, <1>e DEF CommitSync
<1>10. ASSUME NEW t \in Txn, CommitValidate(t) PROVE BindingInv'
  BY <1>10, <1>d, <1>e DEF CommitValidate
<1>11. ASSUME NEW t \in Txn, CommitRename(t) PROVE BindingInv'
  <2>1. CASE UNCHANGED store
    BY <2>1, <1>d, <1>e
  <2>2. CASE Goto(t, "validated", "renamed") /\ ~UNCHANGED store
    <3>1. temp[t] # None /\ temp[t] \in Name /\ pend[temp[t]] \subseteq {None, t}
      <4>1. pc[t] = "validated" /\ temp[t] \in Staged \cup {None}
        BY <2>2 DEF Goto, TypeOK
      <4>2. temp[t] # None
        BY <4>1 DEF StagedInv
      <4>3. temp[t] = <<t, attempt[t]>> /\ pend[<<t, attempt[t]>>] \subseteq {None, t}
        BY <4>2 DEF StagedInv
      <4> QED  BY <4>1, <4>2, <4>3 DEF Name
    <3>2. dir[temp[t]] = t
      <4>1. dir[temp[t]] # None
        BY <1>11, <2>2 DEF CommitRename
      <4> QED  BY <3>1, <4>1 DEF BindingInv
    <3>3. /\ dir'  = [dir EXCEPT ![temp[t]] = None, ![Dest[t]] = t]
          /\ pend' = [pend EXCEPT ![temp[t]] = @ \cup {None}, ![Dest[t]] = @ \cup {t}]
      BY <1>11, <2>2, <3>2 DEF CommitRename
    <3>4. Replaced(t)'
      BY <2>2 DEF Goto, Replaced, TypeOK
    <3>5. /\ temp[t] \notin Path /\ temp[t] \notin Taken
          /\ Dest[t] \in Path /\ Dest[t] \notin Staged
      BY TempFacts DEF ConstantsAssumption, DistinctAssumption
    <3>6. \A m \in Name :
             /\ m \notin {temp[t], Dest[t]} => dir'[m] = dir[m] /\ pend'[m] = pend[m]
             /\ m = temp[t] => dir'[m] = None /\ pend'[m] = pend[m] \cup {None}
             /\ m = Dest[t] => dir'[m] = t /\ pend'[m] = pend[m] \cup {t}
      BY <3>3, <3>5 DEF TypeOK
    <3>7. Path \subseteq Name /\ Taken \subseteq Name /\ Taken \subseteq Staged
      BY DEF ConstantsAssumption, Name
    <3> QED  BY <3>4, <3>5, <3>6, <3>7, <1>d, <1>f DEF BindingInv
  <2> QED  BY <1>11, <2>1, <2>2 DEF CommitRename
<1>12. ASSUME NEW t \in Txn, CommitUntrack(t) PROVE BindingInv'
  BY <1>12, <1>d, <1>e DEF CommitUntrack
<1>13. ASSUME NEW t \in Txn, CommitSyncDirectory(t) PROVE BindingInv'
  <2>1. UNCHANGED dir /\ (pend' = [n \in Name |-> {dir[n]}] \/ UNCHANGED pend)
    BY <1>13 DEF CommitSyncDirectory
  <2>2. Path \subseteq Name /\ Taken \subseteq Name
    BY DEF ConstantsAssumption, Name
  <2> QED  BY <2>1, <2>2, <1>d DEF BindingInv
<1>14. ASSUME NEW t \in Txn, DtorClose(t) PROVE BindingInv'
  BY <1>14, <1>d, <1>e DEF DtorClose
<1>15. ASSUME NEW t \in Txn, DtorRemove(t) PROVE BindingInv'
  <2>1. UNCHANGED store \/ Bind(temp[t], None)
    BY <1>15 DEF DtorRemove, Unlink
  <2> QED  BY <2>1, <1>d, <1>e, <1>f, TempFacts, BindKeeps, EntryFacts
<1>16. ASSUME NEW t \in Txn, DtorUntrack(t) PROVE BindingInv'
  BY <1>16, <1>d, <1>e DEF DtorUntrack
<1>17. ASSUME NEW p \in Proc, Signal(p) PROVE BindingInv'
  BY <1>17, <1>d, <1>e DEF Signal
<1>18. ASSUME NEW p \in Proc, HandlerStep(p) PROVE BindingInv'
  <2>1. UNCHANGED store \/ \E t \in Txn : Bind(temp[t], None)
    <3>1. table[p][next[p]] = None \/ table[p][next[p]] \in Txn
      BY <1>18 DEF HandlerStep, TypeOK, ConstantsAssumption
    <3> QED  BY <1>18, <3>1 DEF HandlerStep, Unlink
  <2> QED  BY <2>1, <1>d, <1>e, <1>f, TempFacts, BindKeeps, EntryFacts
<1>19. ASSUME NEW p \in Proc, HandlerReraise(p) PROVE BindingInv'
  BY <1>19, <1>d, <1>e DEF HandlerReraise
<1>20. ASSUME NEW p \in Proc, Kill(p) PROVE BindingInv'
  BY <1>20, <1>d, <1>e DEF Kill
<1>21. CASE PowerLoss
  <2>1. \A n \in Name : dir'[n] \in pend[n] /\ pend'[n] = {dir'[n]}
    BY <1>21 DEF PowerLoss, Unsettled, BindingInv
  <2>2. Path \subseteq Name /\ Taken \subseteq Name
    BY DEF ConstantsAssumption, Name
  <2> QED  BY <2>1, <2>2, <1>d DEF BindingInv
<1>22. CASE Rebind
  <2>1. PICK t \in Txn, e \in Given \cup {None, Directory} : Bind(Dest[t], e)
    BY <1>22 DEF Rebind
  <2>2. Dest[t] \in Path /\ Dest[t] \notin Taken /\ e \notin Txn /\ e \in Entry
    BY EntryFacts DEF ConstantsAssumption, DistinctAssumption
  <2> QED  BY <2>1, <2>2, <1>d, BindKeeps
<1>23. CASE UNCHANGED vars
  BY <1>23, <1>d, <1>e DEF vars
<1> QED
  BY <1>1, <1>2, <1>3, <1>4, <1>5, <1>6a, <1>6, <1>7, <1>8, <1>9, <1>10, <1>11, <1>12,
     <1>13, <1>14, <1>15, <1>16, <1>17, <1>18, <1>19, <1>20, <1>21, <1>22, <1>23 DEF Next, Call, Proceed, Ended

-----------------------------------------------------------------------------
(* A step that gives no staged name a file, and leaves the names that are  *)
(* still to be tried as settled as they were.                              *)
NamesKept ==
    \A u \in Txn, k \in 1 .. MaxAttempts :
        /\ pend'[<<u, k>>] \subseteq pend[<<u, k>>] \cup {None}
        /\ k > attempt[u] /\ pend[<<u, k>>] = {dir[<<u, k>>]}
           => pend'[<<u, k>>] = {dir'[<<u, k>>]}

(* A step that tries, tracks and creates no staged name.                   *)
NothingStaged ==
    \A u \in Txn :
        /\ attempt'[u] = attempt[u] /\ temp'[u] \in {temp[u], None}
        /\ pc'[u] \in {"new", "create", "created"}
           => pc'[u] = pc[u] \/ (pc[u] = "new" /\ pc'[u] = "create")
        /\ pc'[u] \in {"tracked", "inspected", "staged", "closed", "synced", "validated"}
           => /\ temp'[u] = temp[u]
              /\ pc[u] \in {"tracked", "inspected", "staged", "closed", "synced", "validated"}

(* Such a step keeps StagedInv.                                            *)
LEMMA QuietStep == ASSUME ConstantsAssumption, TypeOK, StagedInv,
                          NamesKept, NothingStaged
                   PROVE  StagedInv'
<1> SUFFICES ASSUME NEW u \in Txn
             PROVE  /\ pc'[u] \in {"new", "create"} => attempt'[u] < MaxAttempts
                    /\ pc'[u] = "new" => attempt'[u] = 0
                    /\ pc'[u] \in {"new", "create", "created"} => temp'[u] = None
                    /\ temp'[u] # None => temp'[u] = <<u, attempt'[u]>> /\ attempt'[u] > 0
                    /\ pc'[u] \in {"tracked", "inspected", "staged", "closed", "synced", "validated"}
                       => temp'[u] # None
                    /\ pc'[u] = "created" \/ temp'[u] # None
                       => /\ attempt'[u] > 0 /\ <<u, attempt'[u]>> \notin Taken
                          /\ pend'[<<u, attempt'[u]>>] \subseteq {None, u}
                    /\ \A k \in attempt'[u] + 1 .. MaxAttempts :
                          pend'[<<u, k>>] = {dir'[<<u, k>>]}
  BY DEF StagedInv
<1>1. attempt'[u] = attempt[u] /\ attempt[u] \in 0 .. MaxAttempts /\ MaxAttempts \in Nat
  BY DEF NothingStaged, TypeOK, ConstantsAssumption
<1>2. /\ pc'[u] \in {"new", "create"} => attempt'[u] < MaxAttempts
      /\ pc'[u] = "new" => attempt'[u] = 0
      /\ pc'[u] \in {"new", "create", "created"} => temp'[u] = None
  BY <1>1 DEF NothingStaged, StagedInv
<1>3. /\ temp'[u] # None => temp'[u] = <<u, attempt'[u]>> /\ attempt'[u] > 0
      /\ pc'[u] \in {"tracked", "inspected", "staged", "closed", "synced", "validated"}
         => temp'[u] # None
  BY ZenonT(60), <1>1 DEF NothingStaged, StagedInv
<1>4. ASSUME pc'[u] = "created" \/ temp'[u] # None
      PROVE  /\ attempt'[u] > 0 /\ <<u, attempt'[u]>> \notin Taken
             /\ pend'[<<u, attempt'[u]>>] \subseteq {None, u}
  <2>1. pc[u] = "created" \/ temp[u] # None
    BY <1>4 DEF NothingStaged
  <2>2. /\ attempt[u] > 0 /\ <<u, attempt[u]>> \notin Taken
        /\ pend[<<u, attempt[u]>>] \subseteq {None, u}
    BY <2>1 DEF StagedInv
  <2>3. attempt[u] \in 1 .. MaxAttempts
    BY <1>1, <2>2
  <2>4. pend'[<<u, attempt[u]>>] \subseteq pend[<<u, attempt[u]>>] \cup {None}
    BY <2>3 DEF NamesKept
  <2> QED  BY <1>1, <2>2, <2>4
<1>5. ASSUME NEW k \in attempt'[u] + 1 .. MaxAttempts
      PROVE  pend'[<<u, k>>] = {dir'[<<u, k>>]}
  <2>1. k \in 1 .. MaxAttempts /\ k > attempt[u] /\ k \in attempt[u] + 1 .. MaxAttempts
    BY <1>1
  <2>2. pend[<<u, k>>] = {dir[<<u, k>>]}
    BY <2>1 DEF StagedInv
  <2> QED  BY <2>1, <2>2 DEF NamesKept
<1> QED  BY <1>2, <1>3, <1>4, <1>5

(* The steps that bind no staged name, or unbind one.                      *)
LEMMA NamesKeptBy == ASSUME ConstantsAssumption, DistinctAssumption, TypeOK, StagedInv
                     PROVE  /\ UNCHANGED store => NamesKept
                            /\ \A n \in Path : \A x : Bind(n, x) => NamesKept
                            /\ \A t \in Txn : Bind(temp[t], None) => NamesKept
<1>1. UNCHANGED store => NamesKept
  BY DEF store, NamesKept
<1>2. ASSUME NEW n \in Path, NEW x, Bind(n, x) PROVE NamesKept
  <2>1. \A u \in Txn, k \in 1 .. MaxAttempts :
           <<u, k>> \in Name /\ <<u, k>> \in Staged /\ <<u, k>> # n
    BY DEF DistinctAssumption, Name, Staged
  <2> QED  BY <1>2, <2>1 DEF Bind, NamesKept, TypeOK
<1>3. ASSUME NEW t \in Txn, Bind(temp[t], None) PROVE NamesKept
  <2> SUFFICES ASSUME NEW u \in Txn, NEW k \in 1 .. MaxAttempts
               PROVE  /\ pend'[<<u, k>>] \subseteq pend[<<u, k>>] \cup {None}
                      /\ k > attempt[u] /\ pend[<<u, k>>] = {dir[<<u, k>>]}
                         => pend'[<<u, k>>] = {dir'[<<u, k>>]}
    BY DEF NamesKept
  <2>1. <<u, k>> \in Name
    BY DEF Name, Staged
  <2>2. CASE temp[t] = <<u, k>>
    <3>1. temp[t] # None
      BY <2>1, <2>2 DEF DistinctAssumption
    <3>2. <<u, k>> = <<t, attempt[t]>>
      BY <2>2, <3>1 DEF StagedInv
    <3>3. u = t /\ k = attempt[t]
      BY <3>2
    <3>4. attempt[t] \in Nat
      BY DEF TypeOK, ConstantsAssumption
    <3> QED  BY <1>3, <2>1, <2>2, <3>3, <3>4 DEF Bind, TypeOK
  <2>3. CASE temp[t] # <<u, k>>
    BY <1>3, <2>1, <2>3 DEF Bind, TypeOK
  <2> QED  BY <2>2, <2>3
<1> QED  BY <1>1, <1>2, <1>3

(* A step that tries the next candidate of t: it touches no other staged   *)
(* name and no other transaction.                                          *)
OneTried(t) ==
    /\ attempt[t] + 1 \in 1 .. MaxAttempts
    /\ temp' = temp /\ temp[t] = None
    /\ attempt'[t] = attempt[t] + 1
    /\ \A u \in Txn : u # t => pc'[u] = pc[u] /\ attempt'[u] = attempt[u]
    /\ \A u \in Txn, k \in 1 .. MaxAttempts : u # t \/ k > attempt[t] + 1
          => pend'[<<u, k>>] = pend[<<u, k>>] /\ dir'[<<u, k>>] = dir[<<u, k>>]
    /\ \/ pc'[t] = "failed"
       \/ pc'[t] = "create" /\ attempt[t] + 1 < MaxAttempts
       \/ /\ pc'[t] = "created" /\ <<t, attempt[t] + 1>> \notin Taken
          /\ pend'[<<t, attempt[t] + 1>>] \subseteq {None, t}

(* Such a step keeps StagedInv.                                            *)
LEMMA OtherTried ==
    ASSUME ConstantsAssumption, TypeOK, StagedInv, NEW t \in Txn, OneTried(t)
    PROVE  StagedInv'
<1>1. MaxAttempts \in Nat /\ \A u \in Txn : attempt[u] \in 0 .. MaxAttempts
  BY DEF ConstantsAssumption, TypeOK
<1>a. /\ attempt[t] + 1 \in 1 .. MaxAttempts
      /\ temp' = temp /\ temp[t] = None /\ attempt'[t] = attempt[t] + 1
      /\ \/ pc'[t] = "failed"
         \/ pc'[t] = "create" /\ attempt[t] + 1 < MaxAttempts
         \/ /\ pc'[t] = "created" /\ <<t, attempt[t] + 1>> \notin Taken
            /\ pend'[<<t, attempt[t] + 1>>] \subseteq {None, t}
  BY DEF OneTried
<1>b. ASSUME NEW u \in Txn, u # t
      PROVE  pc'[u] = pc[u] /\ attempt'[u] = attempt[u]
  BY <1>b DEF OneTried
<1>c. ASSUME NEW u \in Txn, NEW k \in 1 .. MaxAttempts, u # t \/ k > attempt[t] + 1
      PROVE  pend'[<<u, k>>] = pend[<<u, k>>] /\ dir'[<<u, k>>] = dir[<<u, k>>]
  BY <1>c DEF OneTried
<1>d. ASSUME NEW u \in Txn, NEW k \in attempt[u] + 1 .. MaxAttempts
      PROVE  k \in 1 .. MaxAttempts /\ pend[<<u, k>>] = {dir[<<u, k>>]}
  <2>1. k \in 1 .. MaxAttempts
    BY <1>1
  <2> QED  BY <2>1 DEF StagedInv
<1>2. ASSUME NEW u \in Txn, u # t
      PROVE  /\ pend'[<<u, attempt[u]>>] = pend[<<u, attempt[u]>>] \/ attempt[u] = 0
             /\ \A k \in attempt[u] + 1 .. MaxAttempts : pend'[<<u, k>>] = {dir'[<<u, k>>]}
  <2>1. pend'[<<u, attempt[u]>>] = pend[<<u, attempt[u]>>] \/ attempt[u] = 0
    <3>1. attempt[u] = 0 \/ attempt[u] \in 1 .. MaxAttempts
      BY <1>1
    <3> QED  BY <1>2, <1>c, <3>1
  <2>2. ASSUME NEW k \in attempt[u] + 1 .. MaxAttempts
        PROVE  pend'[<<u, k>>] = {dir'[<<u, k>>]}
    BY <1>2, <1>c, <1>d
  <2> QED  BY <2>1, <2>2
<1>3. ASSUME NEW k \in attempt[t] + 2 .. MaxAttempts
      PROVE  pend'[<<t, k>>] = {dir'[<<t, k>>]}
  <2>1. k \in 1 .. MaxAttempts /\ k \in attempt[t] + 1 .. MaxAttempts /\ k > attempt[t] + 1
    BY <1>1
  <2> QED  BY <2>1, <1>c, <1>d
<1>4. attempt[t] + 1 > 0 /\ attempt[t] + 1 + 1 = attempt[t] + 2
  BY <1>1
<1>5. ASSUME NEW u \in Txn
      PROVE  /\ pc'[u] \in {"new", "create"} => attempt'[u] < MaxAttempts
             /\ pc'[u] = "new" => attempt'[u] = 0
             /\ pc'[u] \in {"new", "create", "created"} => temp'[u] = None
             /\ temp'[u] # None => temp'[u] = <<u, attempt'[u]>> /\ attempt'[u] > 0
             /\ pc'[u] \in {"tracked", "inspected", "staged", "closed", "synced", "validated"}
                => temp'[u] # None
             /\ pc'[u] = "created" \/ temp'[u] # None
                => /\ attempt'[u] > 0 /\ <<u, attempt'[u]>> \notin Taken
                   /\ pend'[<<u, attempt'[u]>>] \subseteq {None, u}
             /\ \A k \in attempt'[u] + 1 .. MaxAttempts : pend'[<<u, k>>] = {dir'[<<u, k>>]}
  <2>1. CASE u # t
    <3>1. pc'[u] = pc[u] /\ attempt'[u] = attempt[u] /\ temp'[u] = temp[u]
      BY <1>a, <1>b, <2>1
    <3>2. /\ pc[u] \in {"new", "create"} => attempt[u] < MaxAttempts
          /\ pc[u] = "new" => attempt[u] = 0
          /\ pc[u] \in {"new", "create", "created"} => temp[u] = None
          /\ temp[u] # None => temp[u] = <<u, attempt[u]>> /\ attempt[u] > 0
          /\ pc[u] \in {"tracked", "inspected", "staged", "closed", "synced", "validated"}
             => temp[u] # None
          /\ pc[u] = "created" \/ temp[u] # None
             => /\ attempt[u] > 0 /\ <<u, attempt[u]>> \notin Taken
                /\ pend[<<u, attempt[u]>>] \subseteq {None, u}
      BY DEF StagedInv
    <3>3. /\ pend'[<<u, attempt[u]>>] = pend[<<u, attempt[u]>>] \/ attempt[u] = 0
          /\ \A k \in attempt[u] + 1 .. MaxAttempts : pend'[<<u, k>>] = {dir'[<<u, k>>]}
      BY <1>2, <2>1
    <3>4. attempt[u] \in Nat
      BY <1>1
    <3> QED  BY <3>1, <3>2, <3>3, <3>4
  <2>2. CASE u = t
    BY <1>1, <1>a, <1>3, <1>4, <2>2
  <2> QED  BY <2>1, <2>2
<1> QED  BY <1>5 DEF StagedInv

(* Every staged name stays its transaction's own.                            *)
LEMMA StagedInvStep == ASSUME ConstantsAssumption, DistinctAssumption, TypeOK,
                           BindingInv, StagedInv,
                       [Next]_vars
                PROVE  StagedInv'
<1>b. /\ None \notin Name /\ Leftover # None
      /\ \A u \in Txn : Dest[u] \in Path
      /\ \A n \in Path : n \notin Staged
  BY DEF ConstantsAssumption, DistinctAssumption
<1>c. /\ MaxAttempts \in Nat
      /\ \A u \in Txn :
            /\ attempt[u] \in 0 .. MaxAttempts
            /\ pc[u] = "create" => attempt[u] < MaxAttempts /\ temp[u] = None
            /\ pc[u] = "created" => attempt[u] > 0
  <2>1. MaxAttempts \in Nat /\ \A u \in Txn : attempt[u] \in 0 .. MaxAttempts
    BY DEF ConstantsAssumption, TypeOK
  <2>2. \A u \in Txn : /\ pc[u] = "create" => attempt[u] < MaxAttempts /\ temp[u] = None
                       /\ pc[u] = "created" => attempt[u] > 0
    BY DEF StagedInv
  <2> QED  BY <2>1, <2>2
<1>t. \A t \in Txn : OneTried(t) => StagedInv'
  BY OtherTried
<1>p. ASSUME NEW t \in Txn, attempt[t] + 1 \in 1 .. MaxAttempts
      PROVE  \A u \in Txn, k \in 1 .. MaxAttempts :
                /\ <<u, k>> \in Name
                /\ u # t \/ k > attempt[t] + 1 => <<u, k>> # Candidate(t)
  <2>1. MaxAttempts \in Nat /\ attempt[t] \in Nat
    BY DEF ConstantsAssumption, TypeOK
  <2> QED  BY <1>p, <2>1 DEF Candidate, Name, Staged
<1>q. NothingStaged /\ NamesKept => StagedInv'
  BY QuietStep
<1>n. /\ UNCHANGED store => NamesKept
      /\ \A n \in Path : \A x : Bind(n, x) => NamesKept
      /\ \A t \in Txn : Bind(temp[t], None) => NamesKept
  BY NamesKeptBy
<1> USE DEF TypeOK, Goto, Error, store, local
<1>1. ASSUME NEW t \in Txn, Open(t) PROVE StagedInv'
  <2>1. NothingStaged
    BY SMTT(60), <1>1 DEF Open, NothingStaged
  <2>2. NamesKept
    BY <1>1, <1>n DEF Open
  <2> QED  BY <2>1, <2>2, <1>q
<1>2. ASSUME NEW t \in Txn, CreateStaged(t) PROVE StagedInv'
  <2>1. pc[t] = "create" /\ attempt' = [attempt EXCEPT ![t] = @ + 1] /\ UNCHANGED temp
    BY <1>2 DEF CreateStaged
  <2>2. attempt[t] + 1 \in 1 .. MaxAttempts /\ temp[t] = None /\ Candidate(t) \in Name
    BY <2>1, <1>c DEF Candidate, Name, Staged
  <2>3. \A u \in Txn : u # t => pc'[u] = pc[u] /\ attempt'[u] = attempt[u]
    BY <1>2, <2>1 DEF CreateStaged
  <2>4. attempt'[t] = attempt[t] + 1 /\ temp'[t] = None /\ UNCHANGED temp
    BY <2>1, <2>2
  <2>5. \A u \in Txn, k \in 1 .. MaxAttempts :
           /\ <<u, k>> \in Name
           /\ u # t \/ k > attempt[t] + 1 => <<u, k>> # Candidate(t)
    BY <2>2, <1>p
  <2>6. ASSUME NEW u \in Txn, NEW k \in 1 .. MaxAttempts, u # t \/ k > attempt[t] + 1
        PROVE  pend'[<<u, k>>] = pend[<<u, k>>] /\ dir'[<<u, k>>] = dir[<<u, k>>]
    <3>1. <<u, k>> \in Name /\ <<u, k>> # Candidate(t)
      BY <2>5, <2>6
    <3>2. Bind(Candidate(t), t)
      BY <1>2 DEF CreateStaged
    <3> QED  BY <3>1, <3>2 DEF Bind
  <2>7. pc'[t] = "created" /\ dir[Candidate(t)] = None /\ Bind(Candidate(t), t)
    BY <1>2 DEF CreateStaged
  <2>8. pend[Candidate(t)] = {None} /\ Candidate(t) \notin Taken
    <3>1. attempt[t] + 1 \in attempt[t] + 1 .. MaxAttempts
      BY <2>2
    <3>2. pend[Candidate(t)] = {dir[Candidate(t)]}
      BY ZenonT(60), <3>1 DEF StagedInv, Candidate
    <3> QED  BY <2>7, <3>2, <1>b DEF BindingInv
  <2>9. pend'[Candidate(t)] \subseteq {None, t}
    BY <2>2, <2>7, <2>8 DEF Bind
  <2>10. OneTried(t)
    BY ONLY <2>2, <2>3, <2>4, <2>6, <2>7, <2>8, <2>9 DEF Candidate, OneTried
  <2> QED  BY <2>10, <1>t
<1>3. ASSUME NEW t \in Txn, CreateCollides(t) PROVE StagedInv'
  <2>1. pc[t] = "create" /\ attempt' = [attempt EXCEPT ![t] = @ + 1] /\ UNCHANGED temp
    BY <1>3 DEF CreateCollides
  <2>2. attempt[t] + 1 \in 1 .. MaxAttempts /\ temp[t] = None /\ Candidate(t) \in Name
    BY <2>1, <1>c DEF Candidate, Name, Staged
  <2>3. \A u \in Txn : u # t => pc'[u] = pc[u] /\ attempt'[u] = attempt[u]
    BY SMTT(60), <1>3, <2>1 DEF CreateCollides
  <2>4. attempt'[t] = attempt[t] + 1 /\ temp'[t] = None /\ UNCHANGED temp
    BY <2>1, <2>2
  <2>5. \A u \in Txn, k \in 1 .. MaxAttempts :
           /\ <<u, k>> \in Name
           /\ u # t \/ k > attempt[t] + 1 => <<u, k>> # Candidate(t)
    BY <2>2, <1>p
  <2>6. ASSUME NEW u \in Txn, NEW k \in 1 .. MaxAttempts, u # t \/ k > attempt[t] + 1
        PROVE  pend'[<<u, k>>] = pend[<<u, k>>] /\ dir'[<<u, k>>] = dir[<<u, k>>]
    <3>1. <<u, k>> \in Name /\ <<u, k>> # Candidate(t)
      BY <2>5, <2>6
    <3>2. UNCHANGED store \/ Bind(Candidate(t), Stub)
      BY ONLY <1>3 DEF CreateCollides, store
    <3> QED  BY <3>1, <3>2 DEF Bind
  <2>7. pc'[t] = "failed" \/ (pc'[t] = "create" /\ attempt[t] + 1 < MaxAttempts)
    BY <1>3 DEF CreateCollides
  <2>8. OneTried(t)
    BY ONLY <2>2, <2>3, <2>4, <2>6, <2>7 DEF OneTried
  <2> QED  BY <2>8, <1>t
<1>4. ASSUME NEW t \in Txn, CreateFails(t) PROVE StagedInv'
  <2>1. pc[t] = "create" /\ attempt' = [attempt EXCEPT ![t] = @ + 1] /\ UNCHANGED temp
    BY <1>4 DEF CreateFails
  <2>2. attempt[t] + 1 \in 1 .. MaxAttempts /\ temp[t] = None /\ Candidate(t) \in Name
    BY <2>1, <1>c DEF Candidate, Name, Staged
  <2>3. \A u \in Txn : u # t => pc'[u] = pc[u] /\ attempt'[u] = attempt[u]
    BY SMTT(60), <1>4, <2>1 DEF CreateFails
  <2>4. attempt'[t] = attempt[t] + 1 /\ temp'[t] = None /\ UNCHANGED temp
    BY <2>1, <2>2
  <2>5. \A u \in Txn, k \in 1 .. MaxAttempts :
           /\ <<u, k>> \in Name
           /\ u # t \/ k > attempt[t] + 1 => <<u, k>> # Candidate(t)
    BY <2>2, <1>p
  <2>6. ASSUME NEW u \in Txn, NEW k \in 1 .. MaxAttempts, u # t \/ k > attempt[t] + 1
        PROVE  pend'[<<u, k>>] = pend[<<u, k>>] /\ dir'[<<u, k>>] = dir[<<u, k>>]
    <3>1. <<u, k>> \in Name /\ <<u, k>> # Candidate(t)
      BY <2>5, <2>6
    <3>2. UNCHANGED store \/ Bind(Candidate(t), Stub)
      BY ONLY <1>4 DEF CreateFails, store
    <3> QED  BY <3>1, <3>2 DEF Bind
  <2>7. pc'[t] = "failed"
    BY <1>4 DEF CreateFails
  <2>8. OneTried(t)
    BY ONLY <2>2, <2>3, <2>4, <2>6, <2>7 DEF OneTried
  <2> QED  BY <2>8, <1>t
<1>5. ASSUME NEW t \in Txn, Track(t) PROVE StagedInv'
  <2>1. pc[t] = "created" /\ pc' = [pc EXCEPT ![t] = "tracked"]
    BY <1>5 DEF Track
  <2>2. temp' = [temp EXCEPT ![t] = <<t, attempt[t]>>] /\ UNCHANGED <<attempt, dir, pend>>
    BY <1>5 DEF Track
  <2>3. <<t, attempt[t]>> # None
    <3>1. attempt[t] \in 1 .. MaxAttempts
      BY <2>1, <1>c
    <3> QED  BY <3>1, <1>b DEF Name, Staged
  <2>4. \A u \in Txn : u # t => pc'[u] = pc[u] /\ temp'[u] = temp[u]
    BY <2>1, <2>2
  <2>5. pc'[t] = "tracked" /\ temp'[t] = <<t, attempt[t]>>
    BY <2>1, <2>2
  <2>6. UNCHANGED <<attempt, dir, pend>>
    BY <2>2
  <2>7. ASSUME NEW u \in Txn, u # t
        PROVE  pc'[u] = pc[u] /\ temp'[u] = temp[u] /\ attempt'[u] = attempt[u]
    BY <2>4, <2>6, <2>7
  <2> QED  BY ONLY StagedInv, <2>1, <2>3, <2>5, <2>6, <2>7 DEF StagedInv
<1>6a. ASSUME NEW t \in Txn, InspectPermissions(t) PROVE StagedInv'
  <2>1. NothingStaged
    BY SMTT(60), <1>6a DEF InspectPermissions, NothingStaged
  <2>2. NamesKept
    BY <1>6a, <1>n DEF InspectPermissions
  <2> QED  BY <2>1, <2>2, <1>q
<1>6. ASSUME NEW t \in Txn, CopyPermissions(t) PROVE StagedInv'
  <2>1. NothingStaged
    BY SMTT(60), <1>6 DEF CopyPermissions, NothingStaged
  <2>2. NamesKept
    BY <1>6, <1>n DEF CopyPermissions
  <2> QED  BY <2>1, <2>2, <1>q
<1>7. ASSUME NEW t \in Txn, Write(t) PROVE StagedInv'
  <2>1. NothingStaged
    BY <1>7 DEF Write, NothingStaged
  <2>2. NamesKept
    BY <1>7, <1>n DEF Write
  <2> QED  BY <2>1, <2>2, <1>q
<1>8. ASSUME NEW t \in Txn, CommitClose(t) PROVE StagedInv'
  <2>1. NothingStaged
    BY SMTT(60), <1>8 DEF CommitClose, NothingStaged
  <2>2. NamesKept
    BY <1>8, <1>n DEF CommitClose
  <2> QED  BY <2>1, <2>2, <1>q
<1>9. ASSUME NEW t \in Txn, CommitSync(t) PROVE StagedInv'
  <2>1. NothingStaged
    BY SMTT(60), <1>9 DEF CommitSync, NothingStaged
  <2>2. NamesKept
    BY <1>9, <1>n DEF CommitSync
  <2> QED  BY <2>1, <2>2, <1>q
<1>10. ASSUME NEW t \in Txn, CommitValidate(t) PROVE StagedInv'
  <2>1. NothingStaged
    BY SMTT(60), <1>10 DEF CommitValidate, NothingStaged
  <2>2. NamesKept
    BY <1>10, <1>n DEF CommitValidate
  <2> QED  BY <2>1, <2>2, <1>q
<1>11. ASSUME NEW t \in Txn, CommitRename(t) PROVE StagedInv'
  <2>1. NothingStaged
    BY SMTT(60), <1>11 DEF CommitRename, NothingStaged
  <2>2. NamesKept
    <3>1. CASE UNCHANGED store
      BY <3>1, <1>n
    <3>2. CASE /\ dir'  = [dir EXCEPT ![temp[t]] = None, ![Dest[t]] = dir[temp[t]]]
               /\ pend' = [pend EXCEPT ![temp[t]] = @ \cup {None},
                                       ![Dest[t]] = @ \cup {dir[temp[t]]}]
      <4> SUFFICES ASSUME NEW u \in Txn, NEW k \in 1 .. MaxAttempts
                   PROVE  /\ pend'[<<u, k>>] \subseteq pend[<<u, k>>] \cup {None}
                          /\ k > attempt[u] /\ pend[<<u, k>>] = {dir[<<u, k>>]}
                             => pend'[<<u, k>>] = {dir'[<<u, k>>]}
        BY DEF NamesKept
      <4>0. <<u, k>> \in Staged
        BY DEF Staged
      <4>1. <<u, k>> \in Name /\ Dest[t] # <<u, k>>
        <5>1. Dest[t] \in Path /\ Dest[t] \notin Staged
          BY <1>b
        <5> QED  BY ONLY <4>0, <5>1 DEF Name
      <4>2. CASE temp[t] = <<u, k>>
        <5>1. <<u, k>> = <<t, attempt[t]>>
          <6>1. temp[t] # None
            BY <4>1, <4>2, <1>b
          <6> QED  BY <4>2, <6>1 DEF StagedInv
        <5>2. u = t /\ k = attempt[t] /\ attempt[t] \in Nat
          BY <5>1 DEF ConstantsAssumption
        <5>3. pend'[<<u, k>>] = pend[<<u, k>>] \cup {None}
          BY <3>2, <4>1, <4>2
        <5> QED  BY <5>2, <5>3
      <4>3. CASE temp[t] # <<u, k>>
        <5>1. pend'[<<u, k>>] = pend[<<u, k>>] /\ dir'[<<u, k>>] = dir[<<u, k>>]
          BY <3>2, <4>1, <4>3
        <5> QED  BY <5>1
      <4> QED  BY <4>2, <4>3
    <3> QED  BY <1>11, <3>1, <3>2 DEF CommitRename
  <2> QED  BY <2>1, <2>2, <1>q
<1>12. ASSUME NEW t \in Txn, CommitUntrack(t) PROVE StagedInv'
  <2>1. NothingStaged
    BY <1>12 DEF CommitUntrack, NothingStaged
  <2>2. NamesKept
    BY <1>12, <1>n DEF CommitUntrack
  <2> QED  BY <2>1, <2>2, <1>q
<1>13. ASSUME NEW t \in Txn, CommitSyncDirectory(t) PROVE StagedInv'
  <2>1. NothingStaged
    BY <1>13 DEF CommitSyncDirectory, NothingStaged
  <2>2. NamesKept
    <3>1. \A u \in Txn, k \in 1 .. MaxAttempts : <<u, k>> \in Name
      BY DEF Name, Staged
    <3>2. UNCHANGED dir /\ (pend' = [n \in Name |-> {dir[n]}] \/ UNCHANGED pend)
      BY <1>13 DEF CommitSyncDirectory
    <3>3. \A n \in Name : /\ pend'[n] \subseteq pend[n]
                          /\ pend[n] = {dir[n]} => pend'[n] = {dir'[n]}
      BY <3>2 DEF BindingInv
    <3> QED  BY <3>1, <3>3 DEF NamesKept
  <2> QED  BY <2>1, <2>2, <1>q
<1>14. ASSUME NEW t \in Txn, DtorClose(t) PROVE StagedInv'
  <2>1. NothingStaged
    BY <1>14 DEF DtorClose, NothingStaged
  <2>2. NamesKept
    BY <1>14, <1>n DEF DtorClose
  <2> QED  BY <2>1, <2>2, <1>q
<1>15. ASSUME NEW t \in Txn, DtorRemove(t) PROVE StagedInv'
  <2>1. NothingStaged
    BY <1>15 DEF DtorRemove, NothingStaged
  <2>2. NamesKept
    <3>1. UNCHANGED store \/ Bind(temp[t], None)
      BY <1>15 DEF DtorRemove, Unlink
    <3> QED  BY <3>1, <1>n
  <2> QED  BY <2>1, <2>2, <1>q
<1>16. ASSUME NEW t \in Txn, DtorUntrack(t) PROVE StagedInv'
  <2>1. NothingStaged
    BY <1>16 DEF DtorUntrack, NothingStaged
  <2>2. NamesKept
    BY <1>16, <1>n DEF DtorUntrack
  <2> QED  BY <2>1, <2>2, <1>q
<1>17. ASSUME NEW p \in Proc, Signal(p) PROVE StagedInv'
  <2>1. NothingStaged
    BY <1>17 DEF Signal, NothingStaged
  <2>2. NamesKept
    BY <1>17, <1>n DEF Signal
  <2> QED  BY <2>1, <2>2, <1>q
<1>18. ASSUME NEW p \in Proc, HandlerStep(p) PROVE StagedInv'
  <2>1. NothingStaged
    BY <1>18 DEF HandlerStep, NothingStaged
  <2>2. NamesKept
    <3>1. table[p][next[p]] = None \/ table[p][next[p]] \in Txn
      BY <1>18 DEF HandlerStep, ConstantsAssumption
    <3>2. UNCHANGED store \/ \E t \in Txn : Bind(temp[t], None)
      BY <1>18, <3>1 DEF HandlerStep, Unlink
    <3> QED  BY <3>2, <1>n
  <2> QED  BY <2>1, <2>2, <1>q
<1>19. ASSUME NEW p \in Proc, HandlerReraise(p) PROVE StagedInv'
  <2>1. NothingStaged
    BY <1>19 DEF HandlerReraise, NothingStaged
  <2>2. NamesKept
    BY <1>19, <1>n DEF HandlerReraise
  <2> QED  BY <2>1, <2>2, <1>q
<1>20. ASSUME NEW p \in Proc, Kill(p) PROVE StagedInv'
  <2>1. NothingStaged
    BY <1>20 DEF Kill, NothingStaged
  <2>2. NamesKept
    BY <1>20, <1>n DEF Kill
  <2> QED  BY <2>1, <2>2, <1>q
<1>21. CASE PowerLoss
  <2>1. NothingStaged
    BY <1>21 DEF PowerLoss, NothingStaged
  <2>2. NamesKept
    <3>1. \A n \in Name : dir'[n] \in pend[n] /\ pend'[n] = {dir'[n]}
      BY <1>21 DEF PowerLoss, Unsettled, BindingInv
    <3>2. \A u \in Txn, k \in 1 .. MaxAttempts : <<u, k>> \in Name
      BY DEF Name, Staged
    <3>3. \A n \in Name : /\ pend'[n] \subseteq pend[n]
                          /\ pend'[n] = {dir'[n]}
      BY <3>1
    <3> QED  BY <3>2, <3>3 DEF NamesKept
  <2> QED  BY <2>1, <2>2, <1>q
<1>22. CASE Rebind
  <2>1. NothingStaged
    BY <1>22 DEF Rebind, NothingStaged
  <2>2. NamesKept
    BY <1>22, <1>n, <1>b DEF Rebind
  <2> QED  BY <2>1, <2>2, <1>q
<1>23. CASE UNCHANGED vars
  <2>1. NothingStaged
    BY <1>23 DEF vars, NothingStaged
  <2>2. NamesKept
    BY <1>23, <1>n DEF vars
  <2> QED  BY <2>1, <2>2, <1>q
<1> QED
  BY <1>1, <1>2, <1>3, <1>4, <1>5, <1>6a, <1>6, <1>7, <1>8, <1>9, <1>10, <1>11, <1>12,
     <1>13, <1>14, <1>15, <1>16, <1>17, <1>18, <1>19, <1>20, <1>21, <1>22, <1>23 DEF Next, Call, Proceed, Ended

-----------------------------------------------------------------------------
(* The invariant holds before anything is opened: no name is bound to an   *)
(* output, and every binding is durable.                                   *)
LEMMA IInit == ASSUME ConstantsAssumption, DistinctAssumption, Init
               PROVE  IInv
<1>1. TypeOK
  BY TypeInit
<1>2. ResultInv
  BY DEF Init, ResultInv
<1>3. DataInv
  BY DEF Init, DataInv, Replaced
<1>4. BindingInv
  <2>1. \A n \in Name : pend[n] = {dir[n]}
    BY DEF Init
  <2>2. \A n \in Path : dir[n] \notin Txn
    BY DEF Init, Name, ConstantsAssumption, DistinctAssumption
  <2>3. \A n \in Taken : n \in Name /\ dir[n] = Leftover
    BY DEF Init, Name, ConstantsAssumption, DistinctAssumption
  <2>4. Path \subseteq Name
    BY DEF Name
  <2> QED  BY <2>1, <2>2, <2>3, <2>4 DEF BindingInv
<1>5. StagedInv
  <2>1. \A t \in Txn : pc[t] = "new" /\ attempt[t] = 0 /\ temp[t] = None
    BY DEF Init
  <2>2. MaxAttempts > 0
    BY DEF ConstantsAssumption
  <2>3. \A t \in Txn, k \in 1 .. MaxAttempts : pend[<<t, k>>] = {dir[<<t, k>>]}
    BY DEF Init, Name, Staged
  <2> QED  BY <2>1, <2>2, <2>3 DEF StagedInv
<1> QED  BY <1>1, <1>2, <1>3, <1>4, <1>5 DEF IInv

(* IInv is inductive: every step of every process, a signal, a kill, a     *)
(* power loss and another program's rebinding keep it.                     *)
THEOREM Inductive == Spec => []IInv
<1>1. Init => IInv
  BY IInit, ConstantsAssumption, DistinctAssumption
<1>2. IInv /\ [Next]_vars => IInv'
  <2> SUFFICES ASSUME IInv, [Next]_vars PROVE IInv'
    OBVIOUS
  <2>0. TypeOK /\ ResultInv /\ DataInv /\ BindingInv /\ StagedInv
    BY DEF IInv
  <2>1. TypeOK'
    BY <2>0, TypeStep, ConstantsAssumption
  <2>2. ResultInv'
    BY <2>0, ResultInvStep
  <2>3. DataInv'
    BY <2>0, DataInvStep, ConstantsAssumption
  <2>4. BindingInv'
    BY <2>0, BindingInvStep, ConstantsAssumption, DistinctAssumption
  <2>5. StagedInv'
    BY <2>0, StagedInvStep, ConstantsAssumption, DistinctAssumption
  <2> QED  BY <2>1, <2>2, <2>3, <2>4, <2>5 DEF IInv
<1> QED  BY <1>1, <1>2, PTL DEF Spec

(* The variables of OutputTransaction have their types in every behaviour. *)
THEOREM TypeCorrect == Spec => []TypeOK
<1>1. IInv => TypeOK
  BY DEF IInv
<1> QED  BY <1>1, Inductive, PTL

(* commit() never lets the destination name an output that is not wholly   *)
(* on stable storage, whatever dies and whenever.                          *)
THEOREM OutputDurable == Spec => []DurableWhole
<1>1. IInv => DurableWhole
  <2> SUFFICES ASSUME IInv, NEW t \in Txn, NEW n \in Path, t \in pend[n] \cup {dir[n]}
               PROVE  disk[t] = Size
    BY DEF DurableWhole
  <2>1. n \in Name
    BY DEF Name
  <2>2. t \in pend[n]
    BY <2>1 DEF IInv, BindingInv
  <2> QED  BY <2>2 DEF IInv, BindingInv, DataInv
<1> QED  BY <1>1, Inductive, PTL

(* A failed or abandoned transaction has not replaced its destination, nor *)
(* will a power loss make it so.                                           *)
THEOREM FailureSafe == Spec => []FailureLeavesDestination
<1>1. IInv => FailureLeavesDestination
  <2> SUFFICES ASSUME IInv, NEW t \in Txn, result[t] = "error",
                      NEW n \in Path, t \in pend[n]
               PROVE  FALSE
    BY DEF FailureLeavesDestination
  <2>1. Replaced(t)
    BY DEF IInv, BindingInv
  <2> QED  BY <2>1 DEF IInv, ResultInv, Replaced
<1> QED  BY <1>1, Inductive, PTL

(* A staged name left by an earlier run keeps its file.                    *)
THEOREM LeftoversSafe == Spec => []LeftoversKept
<1>1. ConstantsAssumption /\ IInv => LeftoversKept
  <2> SUFFICES ASSUME ConstantsAssumption, IInv, NEW n \in Taken
               PROVE  dir[n] = Leftover
    BY DEF LeftoversKept
  <2>1. n \in Name
    BY DEF ConstantsAssumption, Name
  <2> QED  BY <2>1 DEF IInv, BindingInv
<1> QED  BY <1>1, ConstantsAssumption, Inductive, PTL

-----------------------------------------------------------------------------
(* What a transaction leaves of other files, and of its own: inputs are    *)
(* never replaced, an output has the permissions of the file it takes the  *)
(* place of, and no staged file is left.                                   *)

(* What a step does to a path: it adds nothing, a rename adds the output,  *)
(* or another program rebinds a destination that is nobody's input.        *)
LEMMA PathStep ==
    ASSUME IInv, [Next]_vars, NEW n \in Path
    PROVE  \/ pend'[n] \subseteq pend[n]
           \/ \E t \in Txn : pc[t] = "validated" /\ n = Dest[t] /\ pend'[n] = pend[n] \cup {t}
           \/ rebinds' # 0 /\ \A u \in Txn : n \notin Inputs[u]
  <1>a. /\ TypeOK /\ BindingInv /\ StagedInv
        /\ n \in Name /\ pend \in [Name -> SUBSET Entry]
        /\ Path \cap Staged = {} /\ None \notin Txn
    BY DistinctAssumption DEF IInv, TypeOK, Name
  <1>b. UNCHANGED pend => pend'[n] = pend[n]
    OBVIOUS
  <1>c. \A m, x : m \notin Path /\ Bind(m, x) => pend'[n] = pend[n]
    BY <1>a DEF Bind
  <1>d. \A t \in Txn : temp[t] \notin Path
    BY <1>a, TempFacts, ConstantsAssumption, DistinctAssumption
  <1>e. \A t \in Txn : pc[t] = "create" => Candidate(t) \notin Path
    <2>1. ASSUME NEW t \in Txn, pc[t] = "create" PROVE Candidate(t) \in Staged
      <3>1. attempt[t] < MaxAttempts /\ attempt[t] \in 0 .. MaxAttempts /\ MaxAttempts \in Nat
        BY <1>a, <2>1, ConstantsAssumption DEF StagedInv, TypeOK
      <3>2. attempt[t] + 1 \in 1 .. MaxAttempts
        BY <3>1
      <3> QED
        BY <3>2 DEF Candidate, Staged
    <2> QED
      BY <1>a, <2>1
  <1>1. ASSUME NEW t \in Txn, Call(t), ~CommitRename(t)
        PROVE  pend'[n] \subseteq pend[n]
    <2>1. CASE CreateStaged(t) \/ CreateCollides(t) \/ CreateFails(t)
      <3>1. pc[t] = "create" /\ (UNCHANGED store \/ \E x : Bind(Candidate(t), x))
        BY <2>1 DEF CreateStaged, CreateCollides, CreateFails, Goto, Error
      <3> QED
        BY <1>c, <1>e, <3>1 DEF store
    <2>2. CASE DtorRemove(t)
      <3>1. UNCHANGED store \/ Bind(temp[t], None)
        BY <2>2 DEF DtorRemove, Unlink
      <3> QED
        BY <1>c, <1>d, <3>1 DEF store
    <2>3. CASE CommitSyncDirectory(t)
      BY <1>a, <2>3 DEF CommitSyncDirectory, BindingInv
    <2>4. CASE Open(t) \/ Track(t) \/ InspectPermissions(t)
               \/ CopyPermissions(t) \/ Write(t) \/ CommitClose(t) \/ CommitSync(t)
               \/ CommitValidate(t) \/ CommitUntrack(t) \/ DtorClose(t) \/ DtorUntrack(t)
      BY <2>4 DEF Open, Track, InspectPermissions, CopyPermissions, Write, CommitClose,
                  CommitSync, CommitValidate, CommitUntrack, DtorClose, DtorUntrack, store
    <2> QED
      BY <1>1, <2>1, <2>2, <2>3, <2>4 DEF Call, Proceed
  <1>2. ASSUME NEW t \in Txn, CommitRename(t)
        PROVE  \/ pend'[n] \subseteq pend[n]
               \/ pc[t] = "validated" /\ n = Dest[t] /\ pend'[n] = pend[n] \cup {t}
    <2>1. pc[t] = "validated"
      BY <1>2 DEF CommitRename, Goto, Error
    <2>2. temp[t] \in Name /\ temp[t] # None /\ pend[temp[t]] \subseteq {None, t}
      <3>1. temp[t] # None
        BY <1>a, <2>1 DEF StagedInv
      <3>2. temp[t] = <<t, attempt[t]>> /\ pend[<<t, attempt[t]>>] \subseteq {None, t}
        BY <1>a, <3>1 DEF StagedInv
      <3>3. temp[t] \in Name
        BY <1>a, <3>1 DEF TypeOK, Name
      <3> QED
        BY <3>1, <3>2, <3>3
    <2>3. dir[temp[t]] \in {None, t}
      BY <1>a, <2>2 DEF BindingInv
    <2>4. CASE UNCHANGED store
      BY <2>4 DEF store
    <2>5. CASE /\ dir[temp[t]] # None
               /\ pend' = [pend EXCEPT ![temp[t]] = @ \cup {None},
                                       ![Dest[t]] = @ \cup {dir[temp[t]]}]
      <3>1. dir[temp[t]] = t /\ temp[t] # n
        BY <1>d, <2>3, <2>5
      <3>2. pend'[n] = IF n = Dest[t] THEN pend[n] \cup {t} ELSE pend[n]
        BY <1>a, <2>5, <3>1
      <3> QED
        BY <2>1, <3>2
    <2> QED
      BY <1>2, <2>4, <2>5 DEF CommitRename
  <1>3. ASSUME NEW p \in Proc, Signal(p) \/ HandlerStep(p) \/ HandlerReraise(p) \/ Kill(p)
        PROVE  pend'[n] \subseteq pend[n]
    <2>1. CASE HandlerStep(p)
      <3>1. next[p] \in 1 .. NumSlots
        BY <1>a, <2>1, ConstantsAssumption DEF HandlerStep, TypeOK
      <3>2. table[p][next[p]] \in Txn \cup {None}
        <4>1. table[p] \in [1 .. NumSlots -> Txn \cup {None}]
          BY <1>a DEF TypeOK
        <4> QED
          BY <3>1, <4>1
      <3>3. UNCHANGED store \/ \E t \in Txn : Bind(temp[t], None)
        BY <2>1, <3>2 DEF HandlerStep, Unlink
      <3> QED
        BY <1>c, <1>d, <3>3 DEF store
    <2>2. CASE Signal(p) \/ HandlerReraise(p) \/ Kill(p)
      BY <2>2 DEF Signal, HandlerReraise, Kill, store
    <2> QED
      BY <1>3, <2>1, <2>2
  <1>4. CASE PowerLoss
    <2>1. pend'[n] = {dir'[n]} /\ dir'[n] \in pend[n]
      BY <1>a, <1>4 DEF PowerLoss, Unsettled, BindingInv
    <2> QED
      BY <2>1
  <1>5. CASE Rebind
    <2>1. PICK t \in Txn, e \in Given \cup {None, Directory} :
             (\A u \in Txn : Dest[t] \notin Inputs[u]) /\ Bind(Dest[t], e)
      BY <1>5 DEF Rebind
    <2>2. rebinds' # 0
      BY <1>a, <1>5, ConstantsAssumption DEF Rebind, TypeOK
    <2>3. n = Dest[t] \/ pend'[n] = pend[n]
      BY <1>a, <2>1 DEF Bind
    <2> QED
      BY <2>1, <2>2, <2>3
  <1>6. CASE UNCHANGED vars
    BY <1>6 DEF vars, store
  <1> QED
    BY <1>1, <1>2, <1>3, <1>4, <1>5, <1>6 DEF Next, Ended

-----------------------------------------------------------------------------
(* open() has accepted the destination, and nothing has failed since.      *)
Accepted(t) == pc[t] \notin {"new", "failed", "closing", "removed", "gone"} \/ result[t] = "ok"

(* A transaction gets there by validateDestination() alone.                *)
LEMMA AcceptedStep ==
    ASSUME TypeOK, ResultInv, [Next]_vars, NEW t \in Txn, Accepted(t)'
    PROVE  Accepted(t) \/ DestinationValid(t)
  <1> USE DEF TypeOK, ResultInv, Accepted, Goto, Error
  <1>1. ASSUME NEW u \in Txn, Open(u) PROVE Accepted(t) \/ DestinationValid(t)
    BY <1>1 DEF Open
  <1>2. ASSUME NEW u \in Txn, CreateStaged(u) \/ CreateCollides(u) \/ CreateFails(u) \/ Track(u)
        PROVE  Accepted(t)
    BY <1>2 DEF CreateStaged, CreateCollides, CreateFails, Track
  <1>3. ASSUME NEW u \in Txn, InspectPermissions(u) \/ CopyPermissions(u) \/ Write(u)
        PROVE  Accepted(t)
    BY <1>3 DEF InspectPermissions, CopyPermissions, Write
  <1>4. ASSUME NEW u \in Txn, CommitClose(u) PROVE Accepted(t)
    BY <1>4 DEF CommitClose
  <1>5. ASSUME NEW u \in Txn, CommitSync(u) \/ CommitValidate(u) PROVE Accepted(t)
    BY <1>5 DEF CommitSync, CommitValidate
  <1>6. ASSUME NEW u \in Txn, CommitRename(u) \/ CommitUntrack(u) PROVE Accepted(t)
    BY <1>6 DEF CommitRename, CommitUntrack
  <1>7. ASSUME NEW u \in Txn, CommitSyncDirectory(u) PROVE Accepted(t)
    BY <1>7 DEF CommitSyncDirectory
  <1>8. ASSUME NEW u \in Txn, DtorClose(u) PROVE Accepted(t)
    BY <1>8 DEF DtorClose
  <1>9. ASSUME NEW u \in Txn, DtorRemove(u) \/ DtorUntrack(u) PROVE Accepted(t)
    BY <1>9 DEF DtorRemove, DtorUntrack
  <1>10. CASE UNCHANGED <<pc, result>>
    BY <1>10
  <1> QED
    BY <1>1, <1>2, <1>3, <1>4, <1>5, <1>6, <1>7, <1>8, <1>9, <1>10
    DEF Next, Call, Proceed, Ended, vars, Signal, HandlerStep, HandlerReraise, Kill, PowerLoss, Rebind

(* An input stays bound to a file, and no transaction that got past its    *)
(* validation has one for its destination.                                 *)
InputInv ==
    \A t \in Txn :
        /\ \A n \in Inputs[t] : None \notin pend[n]
        /\ Accepted(t) => Dest[t] \notin Inputs[t]

LEMMA InputInvStep ==
    ASSUME IInv, InputInv, [Next]_vars
    PROVE  InputInv'
  <1>1. /\ TypeOK /\ ResultInv /\ BindingInv
        /\ \A t \in Txn : Inputs[t] \subseteq Path /\ Dest[t] \in Path
        /\ Path \subseteq Name /\ None \notin Txn
    BY ConstantsAssumption, DistinctAssumption DEF IInv, Name
  <1>2. ASSUME NEW t \in Txn, NEW n \in Inputs[t]
        PROVE  None \notin pend'[n]
    <2>1. n \in Path /\ None \notin pend[n]
      BY <1>1 DEF InputInv
    <2> QED
      BY <1>1, <2>1, PathStep
  <1>3. ASSUME NEW t \in Txn, Accepted(t)'
        PROVE  Dest[t] \notin Inputs[t]
    <2>1. CASE Accepted(t)
      BY <2>1 DEF InputInv
    <2>2. CASE DestinationValid(t)
      <3> SUFFICES ASSUME Dest[t] \in Inputs[t] PROVE FALSE
        OBVIOUS
      <3>1. dir[Dest[t]] # None
        BY <1>1 DEF InputInv, BindingInv
      <3> QED
        BY <2>2, <3>1 DEF DestinationValid
    <2> QED
      BY <1>1, <1>3, <2>1, <2>2, AcceptedStep
  <1> QED
    BY <1>2, <1>3 DEF InputInv

(* Whatever else happens to it, an input is never replaced by the output   *)
(* of the transaction that reads it.                                       *)
THEOREM InputsSafe == Spec => []InputsSurvive
  <1>1. Init => InputInv
    <2> SUFFICES ASSUME Init, NEW t \in Txn
                 PROVE  /\ \A n \in Inputs[t] : None \notin pend[n]
                        /\ ~Accepted(t)
      BY DEF InputInv
    <2>1. ~Accepted(t)
      BY DEF Init, Accepted
    <2>2. ASSUME NEW n \in Inputs[t] PROVE None \notin pend[n]
      <3>1. n \in Path /\ Initial[n] \in Given
        BY ConstantsAssumption
      <3>2. n \in Name /\ dir[n] = Initial[n] /\ pend[n] = {dir[n]}
        BY <3>1 DEF Init, Name
      <3> QED
        BY <3>1, <3>2, DistinctAssumption
    <2> QED
      BY <2>1, <2>2
  <1>2. IInv /\ InputInv => InputsSurvive
    <2> SUFFICES ASSUME IInv, InputInv, NEW t \in Txn, NEW n \in Inputs[t],
                        t \in pend[n] \cup {dir[n]}
                 PROVE  FALSE
      BY DEF InputsSurvive
    <2>1. n \in Path /\ n \in Name
      BY ConstantsAssumption DEF Name
    <2>2. n = Dest[t] /\ Replaced(t)
      BY <2>1 DEF IInv, BindingInv
    <2>3. Accepted(t)
      BY <2>2 DEF Replaced, Accepted
    <2> QED
      BY <2>2, <2>3 DEF InputInv
  <1>3. IInv /\ InputInv /\ [Next]_vars => InputInv'
    BY InputInvStep
  <1> QED
    BY <1>1, <1>2, <1>3, Inductive, PTL DEF Spec

-----------------------------------------------------------------------------
(* Before and after copyPermissions().                                     *)
Early  == {"new", "create", "created", "tracked", "inspected"}
Copied == {"staged", "closed", "synced", "validated", "renamed", "untracked", "committed"}

(* While no other program has rebound anything, a destination that was a   *)
(* file is one, with the permissions of the first, and so has every        *)
(* staged file that is to replace it.                                      *)
PermInv ==
    /\ \A t \in Txn : pc[t] \in Early => written[t] = 0
    /\ rebinds = 0 =>
        /\ \A n \in Path : Initial[n] \in Given =>
              \A e \in pend[n] : e # None /\ PermOf(e) = GivenPerm[Initial[n]]
        /\ \A t \in Txn :
              Initial[Dest[t]] \in Given /\ (pc[t] \in Copied \/ written[t] # 0)
              => perm[t] = GivenPerm[Initial[Dest[t]]]
        /\ \A t \in Txn : Initial[Dest[t]] \in Given /\ pc[t] = "inspected"
                         => found[t] = GivenPerm[Initial[Dest[t]]]

(* Once another program has rebound a destination, that stays so.          *)
LEMMA RebindsGrow ==
    ASSUME TypeOK, [Next]_vars, rebinds' = 0
    PROVE  rebinds = 0
  <1>1. ASSUME NEW t \in Txn, Call(t) PROVE rebinds' = rebinds
    BY <1>1 DEF Call, Proceed, Open, CreateStaged, CreateCollides, CreateFails, Track, InspectPermissions,
                CopyPermissions, Write, CommitClose, CommitSync, CommitValidate, CommitRename,
                CommitUntrack, CommitSyncDirectory, DtorClose, DtorRemove, DtorUntrack
  <1>2. ASSUME NEW p \in Proc, Signal(p) \/ HandlerStep(p) \/ HandlerReraise(p) \/ Kill(p)
        PROVE  rebinds' = rebinds
    BY <1>2 DEF Signal, HandlerStep, HandlerReraise, Kill
  <1>3. CASE PowerLoss
    BY <1>3 DEF PowerLoss
  <1>4. CASE Rebind
    <2>1. rebinds' = rebinds + 1 /\ rebinds \in Nat
      BY <1>4, ConstantsAssumption DEF Rebind, TypeOK
    <2> QED
      BY <2>1
  <1>5. CASE UNCHANGED vars
    BY <1>5 DEF vars
  <1> QED
    BY <1>1, <1>2, <1>3, <1>4, <1>5 DEF Next, Ended

(* The permissions of a staged file are set once, before it is written, to *)
(* those the destination had when it was inspected.                        *)
LEMMA PermStep ==
    ASSUME TypeOK, ResultInv, [Next]_vars, NEW t \in Txn
    PROVE  /\ pc'[t] \in Early => pc[t] \in Early /\ written'[t] = written[t]
           /\ \/ /\ perm'[t] = perm[t]
                 /\ pc'[t] \in Copied \/ written'[t] # 0 => pc[t] \in Copied \/ written[t] # 0
              \/ /\ pc[t] = "inspected"
                 /\ perm'[t] = IF found[t] = None THEN perm[t] ELSE found[t]
           /\ pc'[t] = "inspected" =>
                 \/ pc[t] = "inspected" /\ found'[t] = found[t]
                 \/ dir[Dest[t]] # None => found'[t] = PermOf(dir[Dest[t]])
  <1> DEFINE Kept == /\ pc'[t] \in Early => pc[t] \in Early /\ written'[t] = written[t]
                     /\ perm'[t] = perm[t]
                     /\ pc'[t] \in Copied \/ written'[t] # 0
                        => pc[t] \in Copied \/ written[t] # 0
                     /\ pc'[t] = "inspected" => pc[t] = "inspected" /\ found'[t] = found[t]
             Inspected == /\ pc'[t] = "inspected" /\ pc[t] = "tracked"
                          /\ perm'[t] = perm[t] /\ written'[t] = written[t]
                          /\ dir[Dest[t]] # None => found'[t] = PermOf(dir[Dest[t]])
             Set == /\ pc[t] = "inspected" /\ pc'[t] = "staged"
                       /\ perm'[t] = IF found[t] = None THEN perm[t] ELSE found[t]
  <1> USE DEF TypeOK, Goto, Error, Early, Copied, data, local
  <1>1. ASSUME NEW u \in Txn, Open(u) \/ CreateStaged(u) \/ CreateFails(u) \/ Track(u)
        PROVE  Kept
    BY SMTT(60), <1>1 DEF Open, CreateStaged, CreateFails, Track
  <1>2. ASSUME NEW u \in Txn, CreateCollides(u) PROVE Kept
    BY <1>2 DEF CreateCollides
  <1>3. ASSUME NEW u \in Txn, CopyPermissions(u) PROVE Kept \/ Set
    <2>1. CASE u # t
      BY <1>3, <2>1 DEF CopyPermissions
    <2>2. CASE u = t
      BY <1>3, <2>2 DEF CopyPermissions
    <2> QED
      BY <2>1, <2>2
  <1>3a. ASSUME NEW u \in Txn, InspectPermissions(u) PROVE Kept \/ Inspected
    <2>1. CASE u # t
      BY <1>3a, <2>1 DEF InspectPermissions
    <2>2. CASE u = t
      BY <1>3a, <2>2 DEF InspectPermissions
    <2> QED
      BY <2>1, <2>2
  <1>4. ASSUME NEW u \in Txn, Write(u) PROVE Kept
    BY <1>4 DEF Write
  <1>5. ASSUME NEW u \in Txn, CommitClose(u) PROVE Kept
    BY <1>5 DEF CommitClose
  <1>6. ASSUME NEW u \in Txn, CommitSync(u) \/ CommitValidate(u) PROVE Kept
    BY <1>6 DEF CommitSync, CommitValidate
  <1>7. ASSUME NEW u \in Txn, CommitRename(u) \/ CommitUntrack(u) PROVE Kept
    BY <1>7 DEF CommitRename, CommitUntrack
  <1>8. ASSUME NEW u \in Txn, CommitSyncDirectory(u) PROVE Kept
    BY <1>8 DEF CommitSyncDirectory
  <1>9. ASSUME NEW u \in Txn, DtorClose(u) \/ DtorRemove(u) \/ DtorUntrack(u) PROVE Kept
    BY <1>9 DEF DtorClose, DtorRemove, DtorUntrack
  <1>10. ASSUME NEW p \in Proc, Signal(p) \/ HandlerStep(p) \/ HandlerReraise(p) \/ Kill(p)
         PROVE  Kept
    BY <1>10 DEF Signal, HandlerStep, HandlerReraise, Kill
  <1>11. CASE PowerLoss
    BY <1>11 DEF PowerLoss
  <1>12. CASE Rebind
    BY <1>12 DEF Rebind
  <1>13. CASE UNCHANGED vars
    BY <1>13 DEF vars
  <1> QED
    BY <1>1, <1>2, <1>3, <1>3a, <1>4, <1>5, <1>6, <1>7, <1>8, <1>9, <1>10, <1>11, <1>12, <1>13
    DEF Next, Call, Proceed, Ended

LEMMA PermInvStep ==
    ASSUME IInv, PermInv, [Next]_vars
    PROVE  PermInv'
  <1>1. /\ TypeOK /\ ResultInv /\ BindingInv
        /\ \A t \in Txn : Dest[t] \in Path /\ t # None
        /\ Path \subseteq Name
    BY ConstantsAssumption, DistinctAssumption DEF IInv, Name
  <1>2. ASSUME NEW t \in Txn, pc'[t] \in Early
        PROVE  written'[t] = 0
    BY <1>1, <1>2, PermStep DEF PermInv
  <1>3. ASSUME rebinds' = 0, NEW n \in Path, Initial[n] \in Given, NEW e \in pend'[n]
        PROVE  e # None /\ PermOf(e)' = GivenPerm[Initial[n]]
    <2>1. /\ \A x \in pend[n] : x # None /\ PermOf(x) = GivenPerm[Initial[n]]
          /\ \A t \in Txn : pc[t] \in Copied /\ n = Dest[t] => perm[t] = GivenPerm[Initial[n]]
      <3>1. rebinds = 0
        BY <1>1, <1>3, RebindsGrow
      <3> QED
        BY <1>3, <3>1 DEF PermInv
    <2>2. ASSUME NEW t \in Txn, pc[t] # "inspected"
          PROVE  perm'[t] = perm[t]
      BY <1>1, <2>2, PermStep
    <2>3. CASE e \in pend[n]
      <3>1. ASSUME e \in Txn PROVE perm'[e] = perm[e]
        <4>1. Replaced(e)
          BY <1>1, <2>3, <3>1 DEF BindingInv
        <4>2. pc[e] # "inspected"
          BY <1>1, <3>1, <4>1 DEF Replaced, ResultInv
        <4> QED
          BY <2>2, <3>1, <4>2
      <3> QED
        BY <2>1, <2>3, <3>1 DEF PermOf
    <2>4. CASE \E t \in Txn : pc[t] = "validated" /\ n = Dest[t] /\ e = t
      <3>1. PICK t \in Txn : pc[t] = "validated" /\ n = Dest[t] /\ e = t
        BY <2>4
      <3>2. perm'[t] = GivenPerm[Initial[n]]
        BY <2>1, <2>2, <3>1 DEF Copied
      <3> QED
        BY <1>1, <3>1, <3>2 DEF PermOf
    <2> QED
      BY <1>3, <2>3, <2>4, PathStep
  <1>4. ASSUME rebinds' = 0, NEW t \in Txn, Initial[Dest[t]] \in Given,
               pc'[t] \in Copied \/ written'[t] # 0
        PROVE  perm'[t] = GivenPerm[Initial[Dest[t]]]
    <2>1. /\ rebinds = 0
          /\ \/ perm'[t] = perm[t] /\ (pc[t] \in Copied \/ written[t] # 0)
             \/ /\ pc[t] = "inspected"
                /\ perm'[t] = IF found[t] = None THEN perm[t] ELSE found[t]
      BY <1>1, <1>4, PermStep, RebindsGrow
    <2>2. CASE perm'[t] = perm[t] /\ (pc[t] \in Copied \/ written[t] # 0)
      BY <1>4, <2>1, <2>2 DEF PermInv
    <2>3. CASE /\ pc[t] = "inspected"
               /\ perm'[t] = IF found[t] = None THEN perm[t] ELSE found[t]
      <3>1. found[t] = GivenPerm[Initial[Dest[t]]]
        BY <1>4, <2>1, <2>3 DEF PermInv
      <3>2. GivenPerm[Initial[Dest[t]]] \in Perm
        BY <1>4, ConstantsAssumption
      <3> QED
        BY <2>3, <3>1, <3>2, DistinctAssumption
    <2> QED
      BY <2>1, <2>2, <2>3
  <1>5. ASSUME rebinds' = 0, NEW t \in Txn, Initial[Dest[t]] \in Given, pc'[t] = "inspected"
        PROVE  found'[t] = GivenPerm[Initial[Dest[t]]]
    <2>1. rebinds = 0
      BY <1>1, <1>5, RebindsGrow
    <2>2. dir[Dest[t]] # None /\ PermOf(dir[Dest[t]]) = GivenPerm[Initial[Dest[t]]]
      <3>1. Dest[t] \in Path /\ dir[Dest[t]] \in pend[Dest[t]]
        BY <1>1 DEF BindingInv
      <3> QED
        BY <1>5, <2>1, <3>1 DEF PermInv
    <2>3. \/ pc[t] = "inspected" /\ found'[t] = found[t]
          \/ found'[t] = PermOf(dir[Dest[t]])
      BY <1>1, <1>5, <2>2, PermStep
    <2> QED
      BY <1>5, <2>1, <2>2, <2>3 DEF PermInv
  <1> QED
    BY <1>2, <1>3, <1>4, <1>5 DEF PermInv

(* However many transactions replace one file, in whatever order, each     *)
(* writes its output under the permissions the file had.                   *)
THEOREM PermissionsKept == Spec => []PermissionsCarriedOver
  <1>1. Init => PermInv
    <2> SUFFICES ASSUME Init PROVE PermInv
      OBVIOUS
    <2>1. \A t \in Txn : pc[t] = "new" /\ written[t] = 0
      BY DEF Init
    <2>2. ASSUME NEW n \in Path, Initial[n] \in Given, NEW e \in pend[n]
          PROVE  e # None /\ PermOf(e) = GivenPerm[Initial[n]]
      <3>1. e = Initial[n]
        BY DEF Init, Name
      <3>2. e \notin Txn /\ e # None
        BY <2>2, <3>1, DistinctAssumption
      <3> QED
        BY <3>1, <3>2 DEF PermOf
    <2> QED
      BY <2>1, <2>2 DEF PermInv, Copied
  <1>2. PermInv => PermissionsCarriedOver
    BY DEF PermInv, PermissionsCarriedOver
  <1>3. IInv /\ PermInv /\ [Next]_vars => PermInv'
    BY PermInvStep
  <1> QED
    BY <1>1, <1>2, <1>3, Inductive, PTL DEF Spec

-----------------------------------------------------------------------------
(* Staged files.                                                           *)

(* A transaction's file is bound, among the staged names, to the one it    *)
(* was created under, now and after a power loss.                          *)
NameInv ==
    \A t \in Txn, n \in Staged :
        t \in pend[n] => n = <<t, attempt[t]>> /\ pc[t] \notin {"new", "create"}

(* A slot holds the transaction that holds it.                             *)
SlotInv ==
    \A t \in Txn : slot[t] # 0 => temp[t] # None /\ table[Owner[t]][slot[t]] = t

(* The handler starts at the first slot and ends after the last.           *)
HandlerInv ==
    \A p \in Proc : /\ mode[p] = "run" => next[p] = 1
                    /\ mode[p] = "signalled" => next[p] > NumSlots

(* No staged file of t may be left: it was renamed, or never created, or   *)
(* removed by its destructor or by the handler.                            *)
MustBeGone(t) ==
    \/ pc[t] = "renamed"
    \/ temp[t] = None /\ pc[t] # "created"
    \/ /\ t \notin stuck
       /\ \/ pc[t] \in {"removed", "gone"}
          \/ slot[t] # 0 /\ mode[Owner[t]] # "run" /\ slot[t] < next[Owner[t]]

GoneInv ==
    \A t \in Txn :
        mode[Owner[t]] # "killed" /\ MustBeGone(t) => \A n \in Staged : dir[n] # t

RemovalInv == NameInv /\ SlotInv /\ HandlerInv /\ GoneInv

(* Only its exclusive creation binds a staged name to a transaction's      *)
(* file, unless a power loss brings a binding back.                        *)
LEMMA StagedStep ==
    ASSUME IInv, [Next]_vars, NEW n \in Staged, NEW t \in Txn
    PROVE  \/ CreateStaged(t) /\ n = Candidate(t)
           \/ /\ t \in pend'[n] => t \in pend[n]
              /\ dir'[n] = t => dir[n] = t \/ PowerLoss
  <1>a. /\ TypeOK /\ BindingInv /\ n \in Name /\ n \notin Path
        /\ pend \in [Name -> SUBSET Entry] /\ dir \in [Name -> Entry]
        /\ \A u \in Txn : Dest[u] \in Path
        /\ t \notin Given \cup {Stub, Leftover, Directory, None}
    BY ConstantsAssumption, DistinctAssumption DEF IInv, TypeOK, Name
  <1> DEFINE Kept == (t \in pend'[n] => t \in pend[n]) /\ (dir'[n] = t => dir[n] = t)
  <1>b. UNCHANGED store => Kept
    BY DEF store
  <1>c. \A m, x : x # t /\ Bind(m, x) => Kept
    BY <1>a DEF Bind
  <1>1. ASSUME NEW u \in Txn, Open(u) \/ Track(u) \/ InspectPermissions(u)
                 \/ CopyPermissions(u) \/ Write(u) \/ CommitClose(u) \/ CommitSync(u)
                 \/ CommitValidate(u) \/ CommitUntrack(u) \/ DtorClose(u) \/ DtorUntrack(u)
        PROVE  Kept
    BY <1>1, <1>b DEF Open, Track, InspectPermissions, CopyPermissions, Write,
                      CommitClose, CommitSync, CommitValidate, CommitUntrack, DtorClose,
                      DtorUntrack
  <1>2. ASSUME NEW u \in Txn, CreateStaged(u)
        PROVE  Kept \/ (CreateStaged(t) /\ n = Candidate(t))
    <2>1. Bind(Candidate(u), u)
      BY <1>2 DEF CreateStaged
    <2>2. CASE u # t
      BY <1>c, <2>1, <2>2
    <2>3. CASE u = t /\ n # Candidate(t)
      BY <1>a, <2>1, <2>3 DEF Bind
    <2> QED
      BY <1>2, <2>2, <2>3
  <1>3. ASSUME NEW u \in Txn, CreateCollides(u) \/ CreateFails(u) PROVE Kept
    BY <1>3, <1>a, <1>b, <1>c DEF CreateCollides, CreateFails
  <1>4. ASSUME NEW u \in Txn, CommitRename(u) PROVE Kept
    <2>1. CASE UNCHANGED store
      BY <1>b, <2>1
    <2>2. CASE /\ dir'  = [dir EXCEPT ![temp[u]] = None, ![Dest[u]] = dir[temp[u]]]
               /\ pend' = [pend EXCEPT ![temp[u]] = @ \cup {None},
                                       ![Dest[u]] = @ \cup {dir[temp[u]]}]
      <3>1. n # Dest[u]
        BY <1>a
      <3> QED
        BY <1>a, <2>2, <3>1
    <2> QED
      BY <1>4, <2>1, <2>2 DEF CommitRename
  <1>5. ASSUME NEW u \in Txn, CommitSyncDirectory(u) PROVE Kept
    BY <1>5, <1>a DEF CommitSyncDirectory, BindingInv
  <1>6. ASSUME NEW u \in Txn, DtorRemove(u) PROVE Kept
    BY <1>6, <1>a, <1>b, <1>c DEF DtorRemove, Unlink
  <1>7. ASSUME NEW p \in Proc, Signal(p) \/ HandlerReraise(p) \/ Kill(p) PROVE Kept
    BY <1>7, <1>b DEF Signal, HandlerReraise, Kill
  <1>8. ASSUME NEW p \in Proc, HandlerStep(p) PROVE Kept
    BY <1>8, <1>a, <1>b, <1>c DEF HandlerStep, Unlink
  <1>9. CASE PowerLoss
    <2>1. dir'[n] \in pend[n] /\ pend'[n] = {dir'[n]}
      BY <1>9, <1>a DEF PowerLoss, Unsettled, BindingInv
    <2> QED
      BY <1>9, <2>1
  <1>10. CASE Rebind
    BY <1>10, <1>a, <1>c DEF Rebind
  <1>11. CASE UNCHANGED vars
    BY <1>11, <1>b DEF vars
  <1> QED
    BY <1>1, <1>2, <1>3, <1>4, <1>5, <1>6, <1>7, <1>8, <1>9, <1>10, <1>11
    DEF Next, Call, Proceed, Ended

LEMMA NameInvStep ==
    ASSUME IInv, NameInv, [Next]_vars
    PROVE  NameInv'
  <1> SUFFICES ASSUME NEW t \in Txn, NEW n \in Staged, t \in pend'[n]
               PROVE  n = <<t, attempt'[t]>> /\ pc'[t] \notin {"new", "create"}
    BY DEF NameInv
  <1>1. TypeOK
    BY DEF IInv
  <1>2. CASE CreateStaged(t) /\ n = Candidate(t)
    BY <1>1, <1>2 DEF CreateStaged, Candidate, Goto, TypeOK
  <1>3. CASE t \in pend[n]
    <2>1. n = <<t, attempt[t]>> /\ pc[t] \notin {"new", "create"}
      BY <1>3 DEF NameInv
    <2>2. attempt'[t] = attempt[t] /\ pc'[t] \notin {"new", "create"}
      <3> USE <1>1, <2>1 DEF TypeOK, Goto, Error, local
      <3>1. ASSUME NEW u \in Txn, Open(u) \/ Track(u) \/ InspectPermissions(u)
                     \/ CopyPermissions(u) \/ Write(u) \/ CommitClose(u) \/ CommitSync(u)
            PROVE  attempt'[t] = attempt[t] /\ pc'[t] \notin {"new", "create"}
        BY <3>1 DEF Open, Track, InspectPermissions, CopyPermissions, Write, CommitClose,
                    CommitSync
      <3>2. ASSUME NEW u \in Txn, CreateStaged(u) \/ CreateCollides(u) \/ CreateFails(u)
            PROVE  attempt'[t] = attempt[t] /\ pc'[t] \notin {"new", "create"}
        BY <3>2 DEF CreateStaged, CreateCollides, CreateFails
      <3>3. ASSUME NEW u \in Txn, CommitValidate(u) \/ CommitRename(u) \/ CommitUntrack(u)
                     \/ CommitSyncDirectory(u) \/ DtorClose(u) \/ DtorRemove(u) \/ DtorUntrack(u)
            PROVE  attempt'[t] = attempt[t] /\ pc'[t] \notin {"new", "create"}
        BY <3>3 DEF CommitValidate, CommitRename, CommitUntrack, CommitSyncDirectory, DtorClose,
                    DtorRemove, DtorUntrack
      <3>4. CASE UNCHANGED <<pc, local>>
        BY <3>4
      <3> QED
        BY <3>1, <3>2, <3>3, <3>4
        DEF Next, Call, Proceed, Ended, vars, Signal, HandlerStep, HandlerReraise, Kill, PowerLoss, Rebind
    <2> QED
      BY <2>1, <2>2
  <1> QED
    BY <1>2, <1>3, StagedStep

LEMMA SlotInvStep ==
    ASSUME IInv, SlotInv, [Next]_vars
    PROVE  SlotInv'
  <1>1. /\ TypeOK /\ Owner \in [Txn -> Proc] /\ None \notin Txn /\ NumSlots \in Nat
        /\ \A t \in Txn : pc[t] = "created" => temp[t] = None
    BY ConstantsAssumption, DistinctAssumption DEF IInv, StagedInv
  <1>t. /\ table \in [Proc -> [1 .. NumSlots -> Txn \cup {None}]]
        /\ slot \in [Txn -> 0 .. NumSlots] /\ temp \in [Txn -> Staged \cup {None}]
    BY <1>1 DEF TypeOK
  <1>n. None \notin Staged
    BY DistinctAssumption DEF Name
  <1>2. ASSUME NEW u \in Txn, Track(u) PROVE SlotInv'
    <2> SUFFICES ASSUME NEW t \in Txn, slot'[t] # 0
                 PROVE  temp'[t] # None /\ table'[Owner[t]][slot'[t]] = t
      BY DEF SlotInv
    <2>1. slot[u] = 0 /\ temp' = [temp EXCEPT ![u] = <<u, attempt[u]>>]
      BY <1>1, <1>2 DEF Track, Goto, SlotInv
    <2>2. temp'[u] # None
      <3>1. attempt[u] \in 1 .. MaxAttempts
        <4>1. pc[u] = "created"
          BY <1>2 DEF Track, Goto
        <4>2. attempt[u] > 0
          BY <4>1 DEF IInv, StagedInv
        <4>3. attempt[u] \in 0 .. MaxAttempts /\ MaxAttempts \in Nat
          BY <1>1, ConstantsAssumption DEF TypeOK
        <4> QED
          BY <4>2, <4>3
      <3>2. <<u, attempt[u]>> \in Staged
        BY <3>1 DEF Staged
      <3> QED
        BY <1>t, <1>n, <2>1, <3>2
    <2>3. CASE UNCHANGED <<slot, table>>
      <3>1. t # u /\ slot[t] # 0
        BY <2>1, <2>3
      <3> QED
        BY <1>t, <2>1, <2>3, <3>1 DEF SlotInv
    <2>4. ASSUME NEW i \in 1 .. NumSlots, table[Owner[u]][i] = None,
                 slot' = [slot EXCEPT ![u] = i], table' = [table EXCEPT ![Owner[u]][i] = u]
          PROVE  temp'[t] # None /\ table'[Owner[t]][slot'[t]] = t
      <3>1. CASE t = u
        BY <1>1, <1>t, <2>2, <2>4, <3>1
      <3>2. CASE t # u
        <4>1. slot'[t] = slot[t] /\ slot[t] \in 1 .. NumSlots /\ temp'[t] = temp[t]
          BY <1>t, <1>1, <2>1, <2>4, <3>2
        <4>2. temp[t] # None /\ table[Owner[t]][slot[t]] = t
          BY <2>4, <4>1 DEF SlotInv
        <4>3. Owner[t] # Owner[u] \/ slot[t] # i
          BY <1>1, <2>4, <4>2
        <4>4. table'[Owner[t]][slot[t]] = table[Owner[t]][slot[t]]
          BY <1>1, <1>t, <2>4, <4>1, <4>3
        <4> QED
          BY <4>1, <4>2, <4>4
      <3> QED
        BY <3>1, <3>2
    <2> QED
      BY <1>2, <2>3, <2>4 DEF Track
  <1>3. ASSUME NEW u \in Txn, Untrack(u), \A t \in Txn : t # u => temp'[t] = temp[t]
        PROVE  SlotInv'
    <2> SUFFICES ASSUME NEW t \in Txn, slot'[t] # 0
                 PROVE  temp'[t] # None /\ table'[Owner[t]][slot'[t]] = t
      BY DEF SlotInv
    <2>1. t # u /\ slot'[t] = slot[t] /\ temp'[t] = temp[t] /\ slot[t] \in 1 .. NumSlots
      BY <1>1, <1>3, <1>t DEF Untrack
    <2>2. temp[t] # None /\ table[Owner[t]][slot[t]] = t
      BY <2>1 DEF SlotInv
    <2>3. table'[Owner[t]][slot[t]] = t
      <3>1. CASE slot[u] = 0
        BY <1>3, <2>2, <3>1 DEF Untrack
      <3>2. CASE slot[u] # 0
        <4>1. table[Owner[u]][slot[u]] = u /\ slot[u] \in 1 .. NumSlots
          BY <1>1, <1>t, <3>2 DEF SlotInv
        <4>2. Owner[t] # Owner[u] \/ slot[t] # slot[u]
          BY <2>1, <2>2, <4>1
        <4>3. table' = [table EXCEPT ![Owner[u]][slot[u]] = None]
          BY <1>3, <3>2 DEF Untrack
        <4> QED
          BY <1>1, <1>t, <2>1, <2>2, <4>1, <4>2, <4>3
      <3> QED
        BY <3>1, <3>2
    <2> QED
      BY <2>1, <2>2, <2>3
  <1>4. ASSUME NEW u \in Txn, CommitUntrack(u) \/ DtorUntrack(u) PROVE SlotInv'
    <2>1. Untrack(u) /\ \A t \in Txn : t # u => temp'[t] = temp[t]
      BY <1>4, <1>t DEF CommitUntrack, DtorUntrack
    <2> QED
      BY <1>3, <2>1
  <1>5. CASE UNCHANGED <<temp, slot, table>>
    BY <1>5 DEF SlotInv
  <1>6. ASSUME NEW u \in Txn, Call(u), ~Track(u), ~CommitUntrack(u), ~DtorUntrack(u)
        PROVE  UNCHANGED <<temp, slot, table>>
    BY <1>6 DEF Call, Proceed, Open, CreateStaged, CreateCollides, CreateFails, InspectPermissions,
                CopyPermissions, Write, CommitClose, CommitSync, CommitValidate, CommitRename,
                CommitSyncDirectory, DtorClose, DtorRemove, local
  <1> QED
    BY <1>2, <1>4, <1>5, <1>6
    DEF Next, Ended, vars, local, Signal, HandlerStep, HandlerReraise, Kill, PowerLoss, Rebind

LEMMA HandlerInvStep ==
    ASSUME TypeOK, HandlerInv, [Next]_vars
    PROVE  HandlerInv'
  <1> USE DEF TypeOK, HandlerInv
  <1>1. ASSUME NEW u \in Txn, Call(u) PROVE UNCHANGED proc
    BY <1>1 DEF Call, Proceed, Open, CreateStaged, CreateCollides, CreateFails, Track, InspectPermissions,
                CopyPermissions, Write, CommitClose, CommitSync, CommitValidate, CommitRename,
                CommitUntrack, CommitSyncDirectory, DtorClose, DtorRemove, DtorUntrack
  <1>2. CASE UNCHANGED proc
    BY <1>2 DEF proc
  <1>3. ASSUME NEW p \in Proc, Signal(p) PROVE HandlerInv'
    BY <1>3 DEF Signal
  <1>4. ASSUME NEW p \in Proc, HandlerStep(p) PROVE HandlerInv'
    BY <1>4 DEF HandlerStep
  <1>5. ASSUME NEW p \in Proc, HandlerReraise(p) PROVE HandlerInv'
    BY <1>5 DEF HandlerReraise
  <1>6. ASSUME NEW p \in Proc, Kill(p) PROVE HandlerInv'
    BY <1>6 DEF Kill
  <1>7. CASE PowerLoss
    BY <1>7 DEF PowerLoss
  <1> QED
    BY <1>1, <1>2, <1>3, <1>4, <1>5, <1>6, <1>7 DEF Next, Ended, Rebind, vars

(* A staged file that must be gone from now on is unlinked by this step.   *)
LEMMA GoneStep ==
    ASSUME IInv, RemovalInv, [Next]_vars, NEW t \in Txn, MustBeGone(t)', ~MustBeGone(t),
           mode'[Owner[t]] # "killed"
    PROVE  temp[t] # None /\ dir'[temp[t]] = None
  <1>1. /\ TypeOK /\ SlotInv /\ HandlerInv /\ Owner \in [Txn -> Proc]
        /\ \A u \in Txn : Dest[u] \in Path
        /\ NumSlots \in Nat /\ slot[t] \in 0 .. NumSlots /\ next[Owner[t]] \in 1 .. NumSlots + 1
    BY ConstantsAssumption DEF IInv, RemovalInv, TypeOK
  <1>2. /\ temp[t] # None => temp[t] \in Staged /\ temp[t] \in Name /\ temp[t] \notin Path
        /\ \A u \in Txn : pc[u] = "created" => temp[u] = None
    <2>1. temp[t] \in Staged \cup {None}
      BY <1>1 DEF TypeOK
    <2>2. \A u \in Txn : pc[u] = "created" => temp[u] = None
      BY DEF IInv, StagedInv
    <2> QED
      BY <2>1, <2>2, DistinctAssumption DEF Name
  <1>s. UNCHANGED <<slot, proc, stuck>> =>
            (slot'[t] # 0 /\ mode'[Owner[t]] # "run" /\ slot'[t] < next'[Owner[t]] /\ t \notin stuck'
             => slot[t] # 0 /\ mode[Owner[t]] # "run" /\ slot[t] < next[Owner[t]] /\ t \notin stuck)
    BY DEF proc
  <1> USE DEF MustBeGone, Goto, Error, TypeOK
  <1>3. ASSUME NEW u \in Txn, Open(u) \/ CreateStaged(u) \/ CreateFails(u)
                 \/ InspectPermissions(u) \/ CopyPermissions(u) \/ Write(u)
        PROVE  FALSE
    BY ZenonT(60), <1>1, <1>3, <1>s
    DEF Open, CreateStaged, CreateFails, InspectPermissions, CopyPermissions, Write, local
  <1>4. ASSUME NEW u \in Txn, CreateCollides(u) PROVE FALSE
    BY ZenonT(60), <1>1, <1>4, <1>s DEF CreateCollides
  <1>5. ASSUME NEW u \in Txn, Track(u) PROVE FALSE
    <2>1. temp' = [temp EXCEPT ![u] = <<u, attempt[u]>>] /\ Runs(u) /\ pc[u] = "created"
          /\ pc' = [pc EXCEPT ![u] = "tracked"] /\ UNCHANGED <<proc, stuck>>
      BY <1>5 DEF Track
    <2>2. temp'[u] # None
      <3>1. attempt[u] > 0 /\ attempt[u] \in 0 .. MaxAttempts /\ MaxAttempts \in Nat
        BY <1>1, <2>1, ConstantsAssumption DEF IInv, StagedInv
      <3>2. <<u, attempt[u]>> \in Staged
        BY <3>1 DEF Staged
      <3> QED
        BY <1>1, <2>1, <3>2, DistinctAssumption DEF Name
    <2>3. CASE t = u
      BY <1>1, <2>1, <2>2, <2>3 DEF Runs, proc
    <2>4. CASE t # u
      <3>1. pc'[t] = pc[t] /\ temp'[t] = temp[t] /\ mode' = mode /\ next' = next /\ stuck' = stuck
        BY <2>1, <2>4 DEF proc
      <3>2. slot'[t] = slot[t]
        BY <1>1, <1>5, <2>4 DEF Track
      <3> QED
        BY <3>1, <3>2
    <2> QED
      BY <2>3, <2>4
  <1>6. ASSUME NEW u \in Txn, CommitClose(u) \/ CommitSync(u) \/ CommitValidate(u)
                 \/ CommitSyncDirectory(u) \/ DtorClose(u)
        PROVE  FALSE
    BY SMTT(60), <1>1, <1>6, <1>s DEF CommitClose, CommitSync, CommitValidate, CommitSyncDirectory, DtorClose,
                            local
  <1>7. ASSUME NEW u \in Txn, CommitRename(u)
        PROVE  temp[t] # None /\ dir'[temp[t]] = None
    <2>1. UNCHANGED <<local, proc, stuck>>
      BY <1>7 DEF CommitRename
    <2>2. CASE pc' = [pc EXCEPT ![u] = "failed"]
      BY <1>1, <1>7, <1>s, <2>1, <2>2 DEF CommitRename, local
    <2>3. CASE /\ pc' = [pc EXCEPT ![u] = "renamed"]
               /\ dir'  = [dir EXCEPT ![temp[u]] = None, ![Dest[u]] = dir[temp[u]]]
      <3>1. t = u
        BY <1>1, <1>s, <2>1, <2>3 DEF local
      <3>2. temp[t] # None
        BY <1>7, <3>1 DEF CommitRename, IInv, StagedInv
      <3>3. temp[t] \in Name /\ temp[t] # Dest[t]
        BY <1>1, <1>2, <3>2
      <3> QED
        BY <1>1, <2>3, <3>1, <3>2, <3>3
    <2> QED
      BY <1>7, <2>2, <2>3 DEF CommitRename
  <1>8. ASSUME NEW u \in Txn, CommitUntrack(u) \/ DtorUntrack(u) PROVE FALSE
    <2>1. /\ slot' = [slot EXCEPT ![u] = 0] /\ UNCHANGED <<proc, stuck>>
          /\ \/ pc[u] = "renamed" /\ temp' = [temp EXCEPT ![u] = None]
                /\ pc' = [pc EXCEPT ![u] = "untracked"]
             \/ pc[u] = "removed" /\ temp' = temp /\ pc' = [pc EXCEPT ![u] = "gone"]
      BY <1>8 DEF CommitUntrack, DtorUntrack, Untrack
    <2>2. CASE t = u
      BY <1>1, <2>1, <2>2 DEF proc
    <2>3. CASE t # u
      BY SMTT(60), <1>1, <2>1, <2>3 DEF proc
    <2> QED
      BY <2>2, <2>3
  <1>9. ASSUME NEW u \in Txn, DtorRemove(u)
        PROVE  temp[t] # None /\ dir'[temp[t]] = None
    <2>1. /\ UNCHANGED <<local, proc>> /\ pc[u] = "closing" /\ pc' = [pc EXCEPT ![u] = "removed"]
          /\ \/ temp[u] = None /\ stuck' = stuck
             \/ dir' = [dir EXCEPT ![temp[u]] = None] /\ stuck' = stuck
             \/ stuck' = stuck \cup {u}
      BY <1>9 DEF DtorRemove, Unlink, Bind
    <2>2. t = u /\ t \notin stuck'
      BY <1>1, <2>1 DEF local, proc
    <2>3. temp[t] # None
      BY <2>1, <2>2
    <2>4. dir' = [dir EXCEPT ![temp[t]] = None]
      BY <2>1, <2>2, <2>3
    <2> QED
      BY <1>1, <1>2, <2>3, <2>4
  <1>10. ASSUME NEW p \in Proc, Signal(p) PROVE FALSE
    BY <1>1, <1>10 DEF Signal, HandlerInv, local
  <1>11. ASSUME NEW p \in Proc, HandlerStep(p)
         PROVE  temp[t] # None /\ dir'[temp[t]] = None
    <2>1. /\ UNCHANGED <<pc, local, mode>> /\ next' = [next EXCEPT ![p] = @ + 1]
          /\ stuck \subseteq stuck' /\ mode[p] = "handler" /\ next[p] <= NumSlots
      BY <1>11 DEF HandlerStep
    <2>2. Owner[t] = p /\ slot[t] = next[p] /\ t \notin stuck'
      BY <1>1, <2>1 DEF local
    <2>3. slot[t] # 0 /\ table[p][next[p]] = t /\ temp[t] # None
      BY <1>1, <2>2 DEF SlotInv
    <2>4. t # None
      BY DistinctAssumption
    <2>5. dir' = [dir EXCEPT ![temp[t]] = None]
      BY <1>11, <2>2, <2>3, <2>4 DEF HandlerStep, Unlink, Bind
    <2> QED
      BY <1>1, <1>2, <2>3, <2>5
  <1>12. ASSUME NEW p \in Proc, HandlerReraise(p) \/ Kill(p) PROVE FALSE
    BY <1>1, <1>12 DEF HandlerReraise, Kill, local
  <1>13. CASE PowerLoss
    BY <1>1, <1>13 DEF PowerLoss, local
  <1>14. CASE UNCHANGED <<pc, local, proc, stuck>>
    BY <1>14 DEF local, proc
  <1> QED
    BY <1>3, <1>4, <1>5, <1>6, <1>7, <1>8, <1>9, <1>10, <1>11, <1>12, <1>13, <1>14
    DEF Next, Call, Proceed, Ended, vars, Rebind

LEMMA GoneInvStep ==
    ASSUME IInv, RemovalInv, [Next]_vars
    PROVE  GoneInv'
  <1> SUFFICES ASSUME NEW t \in Txn, mode'[Owner[t]] # "killed", MustBeGone(t)',
                      NEW n \in Staged, dir'[n] = t
               PROVE  FALSE
    BY DEF GoneInv
  <1>1. /\ TypeOK /\ BindingInv /\ NameInv /\ GoneInv /\ SlotInv /\ Owner[t] \in Proc
        /\ n \in Name /\ t # None
    BY ConstantsAssumption, DistinctAssumption DEF IInv, RemovalInv, Name
  <1>2. mode[Owner[t]] # "killed"
    <2>1. ASSUME NEW u \in Txn, Call(u) PROVE mode' = mode
      BY <2>1 DEF Call, Proceed, Open, CreateStaged, CreateCollides, CreateFails, Track,
                  InspectPermissions, CopyPermissions, Write, CommitClose, CommitSync,
                  CommitValidate, CommitRename, CommitUntrack, CommitSyncDirectory, DtorClose,
                  DtorRemove, DtorUntrack, proc
    <2>2. ASSUME NEW p \in Proc, Signal(p) \/ HandlerStep(p) \/ HandlerReraise(p) \/ Kill(p)
          PROVE  mode[Owner[t]] # "killed"
      BY <1>1, <2>2 DEF Signal, HandlerStep, HandlerReraise, Kill, TypeOK
    <2>3. CASE PowerLoss
      BY <1>1, <2>3 DEF PowerLoss
    <2> QED
      BY <2>1, <2>2, <2>3 DEF Next, Ended, Rebind, vars, proc
  <1>3. CASE CreateStaged(t) /\ n = Candidate(t)
    <2>1. /\ pc[t] = "create" /\ pc'[t] = "created" /\ UNCHANGED <<slot, temp>>
      BY <1>1, <1>3 DEF CreateStaged, Goto, TypeOK
    <2>2. temp[t] = None
      BY <2>1 DEF IInv, StagedInv
    <2>3. slot'[t] = 0
      BY <1>1, <2>1, <2>2 DEF SlotInv
    <2> QED
      BY <2>1, <2>3 DEF MustBeGone
  <1>4. CASE PowerLoss
    <2>1. t \in pend[n]
      BY <1>1, <1>4 DEF PowerLoss, Unsettled, BindingInv
    <2>2. pc[t] # "new"
      BY <1>1, <2>1 DEF NameInv
    <2>3. Started(Owner[t])
      BY <2>2 DEF Started
    <2> QED
      BY <1>1, <1>4, <2>3 DEF PowerLoss
  <1>5. CASE dir[n] = t
    <2>1. ~MustBeGone(t)
      BY <1>1, <1>2, <1>5 DEF GoneInv
    <2>2. temp[t] # None /\ dir'[temp[t]] = None
      BY <2>1, GoneStep
    <2>3. n = <<t, attempt[t]>>
      BY <1>1, <1>5 DEF NameInv, BindingInv
    <2>4. temp[t] = <<t, attempt[t]>>
      BY <2>2 DEF IInv, StagedInv
    <2> QED
      BY <1>1, <2>2, <2>3, <2>4
  <1> QED
    BY <1>3, <1>4, <1>5, StagedStep

(* A destroyed transaction leaves no staged file, nor does one whose       *)
(* process a handled signal has ended while it held a slot, unless unlink  *)
(* itself failed: whichever other processes die, and whatever they stage.  *)
THEOREM NothingLeft == Spec => []StagedRemoved
  <1>1. Init => RemovalInv
    <2> SUFFICES ASSUME Init PROVE RemovalInv
      OBVIOUS
    <2>1. ASSUME NEW t \in Txn, NEW n \in Staged PROVE t \notin pend[n] /\ dir[n] # t
      <3>1. n \in Name /\ n \notin Path /\ t \notin {Leftover, None}
        BY DistinctAssumption DEF Name
      <3> QED
        BY <3>1 DEF Init
    <2>2. \A t \in Txn : slot[t] = 0
      BY DEF Init
    <2>3. \A p \in Proc : mode[p] = "run" /\ next[p] = 1
      BY DEF Init
    <2> QED
      BY <2>1, <2>2, <2>3 DEF RemovalInv, NameInv, SlotInv, HandlerInv, GoneInv
  <1>2. IInv /\ RemovalInv => StagedRemoved
    <2> SUFFICES ASSUME IInv, RemovalInv, NEW t \in Txn, t \notin stuck,
                        \/ pc[t] = "gone" /\ mode[Owner[t]] # "killed"
                        \/ slot[t] # 0 /\ mode[Owner[t]] = "signalled"
                 PROVE  \A n \in Staged : dir[n] # t
      BY DEF StagedRemoved
    <2>1. slot[t] \in 0 .. NumSlots /\ Owner[t] \in Proc /\ NumSlots \in Nat
          /\ next[Owner[t]] \in 1 .. NumSlots + 1
      BY ConstantsAssumption DEF IInv, TypeOK
    <2>2. mode[Owner[t]] = "signalled" => slot[t] < next[Owner[t]]
      BY <2>1 DEF RemovalInv, HandlerInv
    <2>3. MustBeGone(t) /\ mode[Owner[t]] # "killed"
      BY <2>2 DEF MustBeGone
    <2> QED
      BY <2>3 DEF RemovalInv, GoneInv
  <1>3. IInv /\ RemovalInv /\ [Next]_vars => RemovalInv'
    <2> SUFFICES ASSUME IInv, RemovalInv, [Next]_vars PROVE RemovalInv'
      OBVIOUS
    <2>1. NameInv'
      BY NameInvStep DEF RemovalInv
    <2>2. SlotInv'
      BY SlotInvStep DEF RemovalInv
    <2>3. HandlerInv'
      BY HandlerInvStep DEF RemovalInv, IInv
    <2>4. GoneInv'
      BY GoneInvStep
    <2> QED
      BY <2>1, <2>2, <2>3, <2>4 DEF RemovalInv
  <1> QED
    BY <1>1, <1>2, <1>3, Inductive, PTL DEF Spec

-----------------------------------------------------------------------------
(* The refinement of AtomicReplace: each step is an abstract step or a     *)
(* stutter.                                                                *)

(* The abstract outcome of a transaction.                                  *)
Outcome == [t \in Txn |->
               IF result[t] = "none" /\ pc[t] \in {"renamed", "untracked"}
               THEN "published" ELSE result[t]]

(* The bindings of the paths, which are all the abstract state there is.   *)
PathsKept == \A n \in Path : dir'[n] = dir[n] /\ pend'[n] = pend[n]

(* A transaction has failed, or was abandoned, in this step.               *)
FailsNow(t) == /\ Outcome[t] = "none"
               /\ Outcome' = [Outcome EXCEPT ![t] = "error"]

-----------------------------------------------------------------------------
(* Under the invariant a path names no incomplete output, neither now nor  *)
(* after a power loss: the mapping is the identity there.                  *)
LEMMA Whole == ASSUME TypeOK, DataInv, BindingInv, Size \in Nat, NEW n \in Path
               PROVE  /\ Content(dir[n], cache) = dir[n]
                      /\ {Content(e, disk) : e \in pend[n]} = pend[n]
<1>1. \A e \in pend[n] : e \in Txn => disk[e] = Size /\ cache[e] = Size
  <2> SUFFICES ASSUME NEW t \in Txn, t \in pend[n]
               PROVE  disk[t] = Size /\ cache[t] = Size
    OBVIOUS
  <2>1. Replaced(t)
    BY DEF BindingInv
  <2>2. disk[t] = Size /\ disk[t] <= cache[t]
    BY <2>1 DEF DataInv
  <2>3. cache[t] \in 0 .. Size
    BY DEF TypeOK
  <2> QED  BY <2>2, <2>3
<1>2. \A e \in pend[n] : Content(e, cache) = e /\ Content(e, disk) = e
  BY <1>1 DEF Content
<1>3. dir[n] \in pend[n]
  BY DEF BindingInv, Name
<1> QED  BY <1>2, <1>3

(* The abstract state, read off the concrete one.                          *)
LEMMA Mapped == ASSUME IInv, Size \in Nat
                PROVE  /\ [n \in Path |-> Content(dir[n], cache)] = [n \in Path |-> dir[n]]
                       /\ [n \in Path |-> {Content(e, disk) : e \in pend[n]}]
                          = [n \in Path |-> pend[n]]
BY Whole DEF IInv

(* The same in the next state.                                             *)
LEMMA MappedNext == ASSUME IInv', Size \in Nat
                PROVE  /\ [n \in Path |-> Content(dir[n], cache)]' = [n \in Path |-> dir'[n]]
                       /\ [n \in Path |-> {Content(e, disk) : e \in pend[n]}]'
                          = [n \in Path |-> pend'[n]]
<1>1. \A e : e \in Txn => disk'[e] \in 0 .. Size /\ cache'[e] \in 0 .. Size
  BY DEF IInv, TypeOK
<1>2. \A n \in Path : \A e \in pend'[n] : e \in Txn => disk'[e] = Size /\ cache'[e] = Size
  <2> SUFFICES ASSUME NEW n \in Path, NEW t \in Txn, t \in pend'[n]
               PROVE  disk'[t] = Size /\ cache'[t] = Size
    OBVIOUS
  <2>1. Replaced(t)'
    BY DEF IInv, BindingInv
  <2>2. disk'[t] = Size /\ disk'[t] <= cache'[t]
    BY <2>1 DEF IInv, DataInv
  <2> QED  BY <1>1, <2>2
<1>3. \A n \in Path : dir'[n] \in pend'[n]
  BY DEF IInv, BindingInv, Name
<1>4. \A n \in Path : /\ Content(dir'[n], cache') = dir'[n]
                      /\ \A e \in pend'[n] : Content(e, disk') = e
  BY <1>2, <1>3 DEF Content
<1>5. \A n \in Path : {Content(e, disk') : e \in pend'[n]} = pend'[n]
  BY <1>4
<1> QED  BY <1>4, <1>5

(* The initial states are initial states of AtomicReplace.                 *)
LEMMA RefineInit == ASSUME Init PROVE Replace!Init
<1>1. IInv /\ Size \in Nat
  BY IInit, ConstantsAssumption, DistinctAssumption DEF ConstantsAssumption
<1>2. \A n \in Path : dir[n] \in Entry \ Txn /\ pend[n] = {dir[n]}
  BY ConstantsAssumption, DistinctAssumption
  DEF Init, Name, ConstantsAssumption, DistinctAssumption, Entry, Inode
<1>3. Outcome = [t \in Txn |-> "none"]
  BY DEF Init, Outcome
<1>4. [n \in Path |-> dir[n]] \in [Path -> Entry \ Txn]
  BY <1>2
<1>5. [n \in Path |-> pend[n]] = [n \in Path |-> {[m \in Path |-> dir[m]][n]}]
  BY <1>2
<1> QED  BY <1>1, <1>3, <1>4, <1>5, Mapped DEF Replace!Init, Outcome

-----------------------------------------------------------------------------
(* A step that leaves the paths alone and tells no caller anything new is  *)
(* a stutter; one that fails a transaction is the abstract Fail.           *)
LEMMA QuietOrFail == ASSUME IInv, IInv', Size \in Nat, PathsKept
                     PROVE  /\ Outcome' = Outcome => [Replace!Next]_(Replace!vars)
                            /\ \A t \in Txn : FailsNow(t) => Replace!Next
<1>1. /\ [n \in Path |-> dir'[n]] = [n \in Path |-> dir[n]]
      /\ [n \in Path |-> pend'[n]] = [n \in Path |-> pend[n]]
  BY DEF PathsKept
<1>2. ASSUME Outcome' = Outcome PROVE [Replace!Next]_(Replace!vars)
  BY <1>1, <1>2, Mapped, MappedNext DEF Replace!vars, Outcome
<1>3. ASSUME NEW t \in Txn, FailsNow(t) PROVE Replace!Next
  <2>1. Replace!Fail(t)
    BY <1>1, <1>3, Mapped, MappedNext DEF Replace!Fail, Outcome, FailsNow
  <2> QED  BY <2>1 DEF Replace!Next
<1> QED  BY <1>2, <1>3

(* A directory operation on anything but a path leaves the paths alone.    *)
LEMMA OffPath == ASSUME TypeOK, NEW m, m \notin Path, NEW x, Bind(m, x)
                 PROVE  PathsKept
BY DEF TypeOK, Bind, PathsKept, Name

(* Every step is an abstract step or a stutter.                            *)
LEMMA RefineStep == ASSUME ConstantsAssumption, DistinctAssumption,
                           IInv, IInv', [Next]_vars
                    PROVE  [Replace!Next]_(Replace!vars)
<1>a. TypeOK /\ ResultInv /\ DataInv /\ BindingInv /\ StagedInv /\ Size \in Nat
  BY DEF IInv, ConstantsAssumption
<1>b. UNCHANGED store => PathsKept
  BY DEF store, PathsKept
<1>c. \A t \in Txn : temp[t] \notin Path /\ Dest[t] \in Path /\ Dest[t] \in Name
  BY <1>a, TempFacts DEF ConstantsAssumption, Name
<1>d. /\ PathsKept /\ Outcome' = Outcome => [Replace!Next]_(Replace!vars)
      /\ \A t \in Txn : PathsKept /\ FailsNow(t) => Replace!Next
  BY <1>a, QuietOrFail
<1>e. \A t \in Txn : pc[t] = "create" => Candidate(t) \notin Path
  <2>1. \A t \in Txn : pc[t] = "create" => attempt[t] + 1 \in 1 .. MaxAttempts
    <3>1. \A t \in Txn : pc[t] = "create" => attempt[t] < MaxAttempts
      BY <1>a DEF StagedInv
    <3>2. MaxAttempts \in Nat /\ \A t \in Txn : attempt[t] \in 0 .. MaxAttempts
      BY <1>a DEF TypeOK, ConstantsAssumption
    <3> QED  BY <3>1, <3>2
  <2> QED  BY <2>1 DEF Candidate, Staged, DistinctAssumption
<1>o. \A m : m \notin Path => \A x : Bind(m, x) => PathsKept
  BY <1>a, OffPath
<1>f. \A t \in Txn : pc[t] \notin {"committed", "failed", "closing", "removed", "gone"}
                     => result[t] = "none"
  BY <1>a DEF ResultInv, TypeOK
<1>g. pc \in [Txn -> Phases] /\ result \in [Txn -> {"none", "ok", "error"}]
  BY <1>a DEF TypeOK
<1>1. ASSUME NEW t \in Txn, Open(t) PROVE [Replace!Next]_(Replace!vars)
  <2>1. PathsKept
    BY <1>1, <1>b DEF Open
  <2>2. Outcome' = Outcome \/ FailsNow(t)
    BY ZenonT(60), <1>1, <1>f, <1>g DEF Open, Goto, Error, Outcome, FailsNow
  <2> QED  BY <2>1, <2>2, <1>d
<1>2. ASSUME NEW t \in Txn, CreateStaged(t) PROVE [Replace!Next]_(Replace!vars)
  <2>1. PathsKept
    <3>1. pc[t] = "create" /\ Bind(Candidate(t), t)
      BY <1>2 DEF CreateStaged, Goto
    <3> QED  BY <3>1, <1>e, <1>o
  <2>2. Outcome' = Outcome
    BY <1>2, <1>f, <1>g DEF CreateStaged, Goto, Outcome
  <2> QED  BY <2>1, <2>2, <1>d
<1>3. ASSUME NEW t \in Txn, CreateCollides(t) PROVE [Replace!Next]_(Replace!vars)
  <2>1. PathsKept
    <3>1. pc[t] = "create"
      BY <1>3 DEF CreateCollides, Goto, Error
    <3>2. UNCHANGED store \/ Bind(Candidate(t), Stub)
      BY <1>3 DEF CreateCollides
    <3> QED  BY <3>1, <3>2, <1>b, <1>e, <1>o
  <2>2. Outcome' = Outcome \/ FailsNow(t)
    <3>1. \/ Goto(t, "create", "create") /\ UNCHANGED result
          \/ Error(t, "create")
      BY <1>3 DEF CreateCollides
    <3>2. CASE Goto(t, "create", "create") /\ UNCHANGED result
      BY <3>2, <1>f, <1>g DEF Goto, Outcome
    <3>3. CASE Error(t, "create")
      BY <3>3, <1>f, <1>g DEF Goto, Error, Outcome, FailsNow
    <3> QED  BY <3>1, <3>2, <3>3
  <2> QED  BY <2>1, <2>2, <1>d
<1>4. ASSUME NEW t \in Txn, CreateFails(t) PROVE [Replace!Next]_(Replace!vars)
  <2>1. PathsKept
    <3>1. pc[t] = "create"
      BY <1>4 DEF CreateFails, Goto, Error
    <3>2. UNCHANGED store \/ Bind(Candidate(t), Stub)
      BY <1>4 DEF CreateFails
    <3> QED  BY <3>1, <3>2, <1>b, <1>e, <1>o
  <2>2. Outcome' = Outcome \/ FailsNow(t)
    BY <1>4, <1>f, <1>g DEF CreateFails, Goto, Error, Outcome, FailsNow
  <2> QED  BY <2>1, <2>2, <1>d
<1>5. ASSUME NEW t \in Txn, Track(t) PROVE [Replace!Next]_(Replace!vars)
  <2>1. PathsKept
    BY <1>5, <1>b DEF Track
  <2>2. Outcome' = Outcome
    BY <1>5, <1>f, <1>g DEF Track, Goto, Outcome
  <2> QED  BY <2>1, <2>2, <1>d
<1>6a. ASSUME NEW t \in Txn, InspectPermissions(t) PROVE [Replace!Next]_(Replace!vars)
  <2>1. PathsKept
    BY <1>6a, <1>b DEF InspectPermissions
  <2>2. Outcome' = Outcome \/ FailsNow(t)
    BY ZenonT(60), <1>6a, <1>f, <1>g DEF InspectPermissions, Goto, Error, Outcome, FailsNow
  <2> QED  BY <2>1, <2>2, <1>d
<1>6. ASSUME NEW t \in Txn, CopyPermissions(t) PROVE [Replace!Next]_(Replace!vars)
  <2>1. PathsKept
    BY <1>6, <1>b DEF CopyPermissions
  <2>2. Outcome' = Outcome \/ FailsNow(t)
    BY ZenonT(60), <1>6, <1>f, <1>g DEF CopyPermissions, Goto, Error, Outcome, FailsNow
  <2> QED  BY <2>1, <2>2, <1>d
<1>7. ASSUME NEW t \in Txn, Write(t) PROVE [Replace!Next]_(Replace!vars)
  <2>1. PathsKept
    BY <1>7, <1>b DEF Write
  <2>2. Outcome' = Outcome
    BY <1>7, <1>f, <1>g DEF Write, Goto, Outcome
  <2> QED  BY <2>1, <2>2, <1>d
<1>8. ASSUME NEW t \in Txn, CommitClose(t) PROVE [Replace!Next]_(Replace!vars)
  <2>1. PathsKept
    BY <1>8, <1>b DEF CommitClose
  <2>2. Outcome' = Outcome \/ FailsNow(t)
    BY ZenonT(60), <1>8, <1>f, <1>g DEF CommitClose, Goto, Error, Outcome, FailsNow
  <2> QED  BY <2>1, <2>2, <1>d
<1>9. ASSUME NEW t \in Txn, CommitSync(t) PROVE [Replace!Next]_(Replace!vars)
  <2>1. PathsKept
    BY <1>9, <1>b DEF CommitSync
  <2>2. Outcome' = Outcome \/ FailsNow(t)
    BY ZenonT(60), <1>9, <1>f, <1>g DEF CommitSync, Goto, Error, Outcome, FailsNow
  <2> QED  BY <2>1, <2>2, <1>d
<1>10. ASSUME NEW t \in Txn, CommitValidate(t) PROVE [Replace!Next]_(Replace!vars)
  <2>1. PathsKept
    BY <1>10, <1>b DEF CommitValidate
  <2>2. Outcome' = Outcome \/ FailsNow(t)
    BY ZenonT(60), <1>10, <1>f, <1>g DEF CommitValidate, Goto, Error, Outcome, FailsNow
  <2> QED  BY <2>1, <2>2, <1>d
<1>11. ASSUME NEW t \in Txn, CommitRename(t) PROVE [Replace!Next]_(Replace!vars)
  <2>1. CASE Error(t, "validated") /\ UNCHANGED store
    <3>1. Outcome' = Outcome \/ FailsNow(t)
      BY <2>1, <1>f, <1>g DEF Goto, Error, Outcome, FailsNow
    <3> QED  BY <2>1, <3>1, <1>b, <1>d
  <2>2. CASE ~(Error(t, "validated") /\ UNCHANGED store)
    <3>0. /\ Goto(t, "validated", "renamed") /\ UNCHANGED result
          /\ dir[temp[t]] # None
          /\ dir'  = [dir EXCEPT ![temp[t]] = None, ![Dest[t]] = dir[temp[t]]]
          /\ pend' = [pend EXCEPT ![temp[t]] = @ \cup {None},
                                  ![Dest[t]] = @ \cup {dir[temp[t]]}]
      BY <2>2, <1>11 DEF CommitRename
    <3>1. dir[temp[t]] = t
      <4>1. temp[t] # None /\ temp[t] = <<t, attempt[t]>>
            /\ pend[<<t, attempt[t]>>] \subseteq {None, t}
        BY <3>0, <1>a DEF Goto, StagedInv
      <4>2. temp[t] \in Name
        <5>1. temp \in [Txn -> Staged \cup {None}]
          BY <1>a DEF TypeOK
        <5> QED  BY <4>1, <5>1 DEF Name
      <4>3. dir[temp[t]] \in pend[temp[t]]
        BY <4>2, <1>a DEF BindingInv
      <4> QED  BY <3>0, <4>1, <4>3
    <3>2. \A n \in Path : n # temp[t] /\ n \in Name
      BY <1>c DEF Name
    <3>3. dir \in [Name -> Entry] /\ pend \in [Name -> SUBSET Entry]
      BY <1>a DEF TypeOK
    <3>4. [n \in Path |-> dir'[n]] = [[n \in Path |-> dir[n]] EXCEPT ![Dest[t]] = t]
      BY <3>0, <3>1, <3>2, <3>3, <1>c
    <3>5. [n \in Path |-> pend'[n]]
          = [[n \in Path |-> pend[n]] EXCEPT ![Dest[t]] = @ \cup {t}]
      BY <3>0, <3>1, <3>2, <3>3, <1>c
    <3>6. Outcome[t] = "none" /\ Outcome' = [Outcome EXCEPT ![t] = "published"]
      BY <3>0, <1>f, <1>g DEF Goto, Outcome
    <3>7. Replace!Publish(t)
      BY <3>4, <3>5, <3>6, <1>a, Mapped, MappedNext
      DEF Replace!Publish, Replace!Rebound, Outcome
    <3> QED  BY <3>7 DEF Replace!Next
  <2> QED  BY <2>1, <2>2
<1>12. ASSUME NEW t \in Txn, CommitUntrack(t) PROVE [Replace!Next]_(Replace!vars)
  <2>1. PathsKept
    BY <1>12, <1>b DEF CommitUntrack
  <2>2. Outcome' = Outcome
    BY <1>12, <1>f, <1>g DEF CommitUntrack, Goto, Outcome
  <2> QED  BY <2>1, <2>2, <1>d
<1>13. ASSUME NEW t \in Txn, CommitSyncDirectory(t) PROVE [Replace!Next]_(Replace!vars)
  <2>1. UNCHANGED dir /\ (pend' = [n \in Name |-> {dir[n]}] \/ UNCHANGED pend)
    BY <1>13 DEF CommitSyncDirectory
  <2>2. [n \in Path |-> dir'[n]] = [n \in Path |-> dir[n]]
    BY <2>1
  <2>3. \/ [n \in Path |-> pend'[n]] = [n \in Path |-> pend[n]]
        \/ [n \in Path |-> pend'[n]] = [n \in Path |-> {[m \in Path |-> dir[m]][n]}]
    BY <2>1 DEF Name
  <2>4. Outcome[t] = "published" /\ Outcome' = [Outcome EXCEPT ![t] = "ok"]
    BY <1>13, <1>f, <1>g DEF CommitSyncDirectory, Goto, Outcome
  <2> DEFINE D == [n \in Path |-> Content(dir[n], cache)]
             U == [n \in Path |-> {Content(e, disk) : e \in pend[n]}]
  <2>5. D = [n \in Path |-> dir[n]] /\ U = [n \in Path |-> pend[n]]
    BY <1>a, Mapped
  <2>6. D' = [n \in Path |-> dir'[n]] /\ U' = [n \in Path |-> pend'[n]]
    BY <1>a, MappedNext
  <2>7. D' = D /\ (U' = U \/ U' = [n \in Path |-> {D[n]}])
    <3> HIDE DEF D, U
    <3> QED  BY <2>2, <2>3, <2>5, <2>6
  <2>8. Replace!Report(t)
    BY <2>4, <2>7 DEF Replace!Report, Outcome
  <2> QED  BY <2>8 DEF Replace!Next
<1>14. ASSUME NEW t \in Txn, DtorClose(t) PROVE [Replace!Next]_(Replace!vars)
  <2>1. PathsKept
    BY <1>14, <1>b DEF DtorClose
  <2>2. Outcome' = Outcome \/ FailsNow(t)
    BY ZenonT(60), <1>14, <1>f, <1>g DEF DtorClose, Goto, Error, Outcome, FailsNow
  <2> QED  BY <2>1, <2>2, <1>d
<1>15. ASSUME NEW t \in Txn, DtorRemove(t) PROVE [Replace!Next]_(Replace!vars)
  <2>1. PathsKept
    BY <1>15, <1>a, <1>b, <1>c, OffPath DEF DtorRemove, Unlink
  <2>2. Outcome' = Outcome
    BY <1>15, <1>f, <1>g DEF DtorRemove, Goto, Outcome
  <2> QED  BY <2>1, <2>2, <1>d
<1>16. ASSUME NEW t \in Txn, DtorUntrack(t) PROVE [Replace!Next]_(Replace!vars)
  <2>1. PathsKept
    BY <1>16, <1>b DEF DtorUntrack
  <2>2. Outcome' = Outcome
    BY <1>16, <1>f, <1>g DEF DtorUntrack, Goto, Outcome
  <2> QED  BY <2>1, <2>2, <1>d
<1>17. ASSUME NEW p \in Proc, Signal(p) PROVE [Replace!Next]_(Replace!vars)
  BY <1>17, <1>b, <1>d DEF Signal, Outcome
<1>18. ASSUME NEW p \in Proc, HandlerReraise(p) PROVE [Replace!Next]_(Replace!vars)
  BY <1>18, <1>b, <1>d DEF HandlerReraise, Outcome
<1>19. ASSUME NEW p \in Proc, Kill(p) PROVE [Replace!Next]_(Replace!vars)
  BY <1>19, <1>b, <1>d DEF Kill, Outcome
<1>20. ASSUME NEW p \in Proc, HandlerStep(p) PROVE [Replace!Next]_(Replace!vars)
  <2>1. table[p][next[p]] = None \/ table[p][next[p]] \in Txn
    BY <1>20, <1>a DEF HandlerStep, TypeOK, ConstantsAssumption
  <2>2. PathsKept
    BY <1>20, <2>1, <1>a, <1>b, <1>c, OffPath DEF HandlerStep, Unlink
  <2>3. Outcome' = Outcome
    BY <1>20 DEF HandlerStep, Outcome
  <2> QED  BY <2>2, <2>3, <1>d
<1>21. CASE PowerLoss
  <2>1. \A n \in Name : dir'[n] \in pend[n] /\ pend'[n] = {dir'[n]}
    BY <1>21, <1>a DEF PowerLoss, Unsettled, BindingInv
  <2>2. \A n \in Path : dir'[n] \in pend[n] /\ pend'[n] = {dir'[n]}
    BY <2>1 DEF Name
  <2>3. Outcome' = Outcome
    BY <1>21 DEF PowerLoss, Outcome
  <2> DEFINE D == [n \in Path |-> Content(dir[n], cache)]
             U == [n \in Path |-> {Content(e, disk) : e \in pend[n]}]
  <2>4. D = [n \in Path |-> dir[n]] /\ U = [n \in Path |-> pend[n]]
    BY <1>a, Mapped
  <2>5. D' = [n \in Path |-> dir'[n]] /\ U' = [n \in Path |-> pend'[n]]
    BY <1>a, MappedNext
  <2>6. /\ \A n \in Path : D'[n] \in U[n]
        /\ D' = [n \in Path |-> D'[n]] /\ U' = [n \in Path |-> {D'[n]}]
    <3> HIDE DEF D, U
    <3> QED  BY <2>2, <2>4, <2>5
  <2>7. Replace!PowerLoss
    BY <2>3, <2>6 DEF Replace!PowerLoss, Outcome
  <2> QED  BY <2>7 DEF Replace!Next
<1>22. CASE Rebind
  <2>1. PICK t \in Txn, e \in Given \cup {None, Directory} : Bind(Dest[t], e)
    BY <1>22 DEF Rebind
  <2>2. e \in Entry \ Txn
    BY EntryFacts DEF DistinctAssumption
  <2>3. dir \in [Name -> Entry] /\ pend \in [Name -> SUBSET Entry] /\ Path \subseteq Name
    BY <1>a DEF TypeOK, Name
  <2>4. [n \in Path |-> dir'[n]] = [[n \in Path |-> dir[n]] EXCEPT ![Dest[t]] = e]
    BY <2>1, <2>3, <1>c DEF Bind
  <2>5. [n \in Path |-> pend'[n]]
        = [[n \in Path |-> pend[n]] EXCEPT ![Dest[t]] = @ \cup {e}]
    BY <2>1, <2>3, <1>c DEF Bind
  <2>6. Outcome' = Outcome
    BY <1>22 DEF Rebind, Outcome
  <2>7. Replace!Rebound(Dest[t], e)
    BY <2>4, <2>5, <1>a, Mapped, MappedNext DEF Replace!Rebound
  <2>8. Replace!External
    BY <2>2, <2>6, <2>7, <1>c DEF Replace!External, Outcome
  <2> QED  BY <2>8 DEF Replace!Next
<1>23. CASE UNCHANGED vars
  BY <1>23, <1>b, <1>d DEF vars, Outcome
<1> QED
  BY <1>1, <1>2, <1>3, <1>4, <1>5, <1>6a, <1>6, <1>7, <1>8, <1>9, <1>10, <1>11, <1>12,
     <1>13, <1>14, <1>15, <1>16, <1>17, <1>18, <1>19, <1>20, <1>21, <1>22, <1>23
  DEF Next, Call, Proceed, Ended

(* Every behaviour of the staged, synced and renamed outputs, with all its *)
(* signals, crashes and power losses, is one of atomic replacements.       *)
THEOREM Refinement == Spec => ImplementsAtomicReplace
<1>1. Init => Replace!Init
  BY RefineInit
<1>2. IInv /\ IInv' /\ [Next]_vars => [Replace!Next]_(Replace!vars)
  BY RefineStep, ConstantsAssumption, DistinctAssumption
<1> QED  BY <1>1, <1>2, Inductive, PTL DEF Spec, ImplementsAtomicReplace, Replace!Spec
=============================================================================
