----------------------------- MODULE FencingProofs -----------------------------
(***************************************************************************)
(* Proofs about Fencing, for every set of sessions and owners, every clock *)
(* reading a caller may pass and every lease duration.                     *)
(***************************************************************************)
EXTENDS Fencing, TLAPS

(***************************************************************************)
(* The inductive invariant.                                                *)
(***************************************************************************)

(* Every transaction past its locking read holds the row. *)
LockDiscipline ==
    \A p \in Procs : tx[p].pc \in {"acquire", "guarded", "append"} => lock = p

(* A guard that has passed stays true until its transaction ends. *)
GuardHolds ==
    \A p \in Procs : tx[p].pc = "guarded" =>
        /\ Matches(tx[p].fence)
        /\ tx[p].fence.token >= lease.committed

(* The sequence number an appender has read is still the next one. *)
SeqHolds ==
    \A p \in Procs : tx[p].pc = "append" => tx[p].seq = NextSeq

(* Tokens handed out are those the fence has passed. *)
GrantsBelowFence == \A f \in granted : f.token <= lease.fence

(* Nothing was written above the committed fence. *)
LedgerBelowCommitted ==
    \A i \in DOMAIN ledger : ledger[i].token <= lease.committed

IInv ==
    /\ TypeOK
    /\ LockDiscipline
    /\ GuardHolds
    /\ SeqHolds
    /\ GrantsBelowFence
    /\ TokensUnique
    /\ LedgerBelowCommitted
    /\ LedgerOrdered
    /\ HighWaterMark
    /\ OwnershipGapless

(***************************************************************************)
(* Type correctness.                                                       *)
(***************************************************************************)

(* Initially the run has no lease row, no open transaction and empty logs. *)
LEMMA InitTypeOK == Init => TypeOK
  BY FencingAssumption
  DEF Init, TypeOK, LeaseRow, OwnershipRow, TxState, Tx, NoTx, NoFence, Fence, NoClaim

(* Every step of every session preserves the shape of the state. *)
LEMMA NextTypeOK == TypeOK /\ [Next]_vars => TypeOK'
<1> SUFFICES ASSUME TypeOK, [Next]_vars PROVE TypeOK'
  OBVIOUS
<1> USE FencingAssumption DEF TypeOK, LeaseRow, TxState, Tx, NoTx, NoFence, Fence
<1>1. CASE UNCHANGED vars
  BY <1>1 DEF vars
<1>2. ASSUME NEW p \in Procs, Rollback(p) PROVE TypeOK'
  BY <1>2 DEF Rollback, EndClaim
<1>13. ASSUME NEW p \in Procs, NEW now \in Times, ClaimSelect(p, now) PROVE TypeOK'
  <2>1. claim' \in Claim
    <3> DEFINE d == (lease.owner # NoOwner /\ lease.expires <= now)
    <3>1. d \in BOOLEAN /\ claim' = [by |-> p, now |-> now, displaced |-> d]
      BY <1>13 DEF ClaimSelect
    <3> HIDE DEF d
    <3> QED
      BY <3>1 DEF Claim
  <2> QED
    BY <1>13, <2>1 DEF ClaimSelect
<1>3. ASSUME NEW p \in Procs, AcquireRead(p) PROVE TypeOK'
  <2>1. \E t \in {"acquire", "insert"} : tx' = [tx EXCEPT ![p] = Tx(t, NoFence, 0)]
    BY <1>3 DEF AcquireRead
  <2>2. tx' \in [Procs -> TxState] /\ lock' \in Procs \cup {NoProc}
    BY <1>3, <2>1 DEF AcquireRead, LockRow
  <2> QED
    BY <1>3, <2>1, <2>2 DEF AcquireRead
<1>4. ASSUME NEW p \in Procs, AcquireInsert(p) PROVE TypeOK'
  BY <1>4 DEF AcquireInsert, LockRow
<1>5. ASSUME NEW p \in Procs, NEW now \in Times, AcquireRefused(p, now) PROVE TypeOK'
  BY <1>5 DEF AcquireRefused, EndTx, EndClaim
<1>6. ASSUME NEW p \in Procs, NEW now \in Times, AcquireCommit(p, now) PROVE TypeOK'
  <2>1. lease' \in LeaseRow
    <3>1. now + TTL \in Int /\ lease.fence + 1 \in Nat /\ OwnerOf[p] \in Owners
      OBVIOUS
    <3> QED
      BY <1>6, <3>1 DEF AcquireCommit
  <2>2. ownership' \in Seq(OwnershipRow)
    <3>1. Takeover(p) \in BOOLEAN
      BY DEF Takeover
    <3>2. ownership' = Append(ownership,
            [seq |-> NextSeq, kind |-> "acquired", owner |-> OwnerOf[p],
             fence |-> lease.fence + 1, previous |-> lease.owner, takeover |-> Takeover(p)])
      BY <1>6 DEF AcquireCommit, AppendOwnershipTx
    <3>3. NextSeq \in Nat
      BY DEF NextSeq
    <3> QED
      BY <3>1, <3>2, <3>3 DEF OwnershipRow, Transitions
  <2> QED
    BY <1>6, <2>1, <2>2 DEF AcquireCommit, EndTx, EndClaim
<1>7. ASSUME NEW p \in Procs, NEW f \in granted, NEW now \in Times,
             RenewRunLease(p, f, now)
      PROVE  TypeOK'
  <2>1. now + TTL \in Int
    OBVIOUS
  <2>2. lease' \in LeaseRow
    BY <1>7, <2>1 DEF RenewRunLease
  <2> QED
    BY <1>7, <2>2 DEF RenewRunLease
<1>8. ASSUME NEW p \in Procs, NEW f \in granted, NEW now \in Times,
             ReleaseRunLease(p, f, now)
      PROVE  TypeOK'
  <2>1. ownership' \in Seq(OwnershipRow)
    BY <1>8 DEF ReleaseRunLease, AppendOwnershipTx, OwnershipRow, NextSeq, Transitions
  <2> QED
    BY <1>8, <2>1 DEF ReleaseRunLease
<1>9. ASSUME NEW p \in Procs, NEW f \in granted, NEW now \in Times,
             GuardFenceTx(p, f, now)
      PROVE  TypeOK'
  BY <1>9 DEF GuardFenceTx, LockRow
<1>10. ASSUME NEW p \in Procs, NEW f \in granted, NEW now \in Times,
              AppendOwnership(p, f, now)
       PROVE  TypeOK'
  BY <1>10 DEF AppendOwnership, LockOwnershipLog, LockRow, NextSeq
<1>11. ASSUME NEW p \in Procs, GuardedCommit(p) PROVE TypeOK'
  <2>1. tx[p].fence \in Fence
    BY <1>11 DEF GuardedCommit
  <2> QED
    <3>1. lease' \in LeaseRow /\ ledger' \in Seq(Fence)
      <4>1. tx[p].fence.token \in Nat
        BY <2>1
      <4>2. lease' \in LeaseRow
        BY <1>11, <4>1 DEF GuardedCommit
      <4>3. ledger' = Append(ledger, tx[p].fence)
        BY <1>11 DEF GuardedCommit
      <4> HIDE DEF Fence
      <4> QED
        BY <2>1, <4>2, <4>3
    <3>2. /\ lock' \in Procs \cup {NoProc} /\ tx' = [tx EXCEPT ![p] = NoTx]
          /\ claim' \in Claim \cup {NoClaim}
      BY <1>11 DEF GuardedCommit, EndTx, EndClaim
    <3> QED
      BY <1>11, <3>1, <3>2 DEF GuardedCommit
<1>12. ASSUME NEW p \in Procs, RecordFenceRejection(p) PROVE TypeOK'
  <2>1. tx[p].fence \in Fence /\ tx[p].seq \in Nat
    BY <1>12 DEF RecordFenceRejection
  <2>2. ownership' \in Seq(OwnershipRow)
    BY <1>12, <2>1 DEF RecordFenceRejection, AppendOwnershipTx, OwnershipRow, Transitions
  <2> QED
    BY <1>12, <2>2 DEF RecordFenceRejection
<1> QED
  BY <1>1, <1>2, <1>3, <1>4, <1>5, <1>6, <1>7, <1>8, <1>9, <1>10, <1>11, <1>12, <1>13
  DEF Next, Step

(* Type correctness of the lease protocol. *)
THEOREM TypeCorrect == Spec => []TypeOK
  BY InitTypeOK, NextTypeOK, PTL DEF Spec

(***************************************************************************)
(* The inductive invariant.                                                *)
(***************************************************************************)

(* The invariant holds of a run that was never leased. *)
LEMMA InitIInv == Init => IInv
<1> SUFFICES ASSUME Init PROVE IInv
  OBVIOUS
<1>1. TypeOK
  BY InitTypeOK
<1>2. LockDiscipline /\ GuardHolds /\ SeqHolds
  BY DEF Init, LockDiscipline, GuardHolds, SeqHolds, NoTx, Tx
<1>3. GrantsBelowFence /\ TokensUnique
  BY DEF Init, GrantsBelowFence, TokensUnique
<1>4. LedgerBelowCommitted /\ LedgerOrdered /\ HighWaterMark /\ OwnershipGapless
  BY DEF Init, LedgerBelowCommitted, LedgerOrdered, HighWaterMark, OwnershipGapless
<1> QED
  BY <1>1, <1>2, <1>3, <1>4 DEF IInv

(* The conjuncts that speak of the row and the logs survive a step that    *)
(* changes neither.                                                        *)
LEMMA TablesUnchanged ==
  ASSUME IInv, UNCHANGED <<lease, granted, ledger, ownership>>
  PROVE  /\ GrantsBelowFence' /\ TokensUnique'
         /\ LedgerBelowCommitted' /\ LedgerOrdered' /\ HighWaterMark'
         /\ OwnershipGapless'
  BY DEF IInv, GrantsBelowFence, TokensUnique, LedgerBelowCommitted, LedgerOrdered,
         HighWaterMark, OwnershipGapless

(* The conjuncts that speak of transactions survive a session's starting a *)
(* transaction that claims nothing yet, or ending one.                     *)
LEMMA TxEnded ==
  ASSUME IInv, UNCHANGED <<lease, ownership>>,
         NEW p \in Procs, NEW t \in {"none", "insert"},
         tx' = [tx EXCEPT ![p] = Tx(t, NoFence, 0)],
         lock' = lock \/ (lock = p /\ lock' = NoProc)
  PROVE  LockDiscipline' /\ GuardHolds' /\ SeqHolds'
<1>1. \A q \in Procs : q # p => tx'[q] = tx[q]
  BY DEF IInv, TypeOK
<1>2. tx'[p].pc = t
  BY DEF IInv, TypeOK, Tx
<1>3. LockDiscipline'
  BY <1>1, <1>2, FencingAssumption DEF IInv, LockDiscipline
<1>4. GuardHolds'
  BY <1>1, <1>2 DEF IInv, GuardHolds, Matches
<1>5. SeqHolds'
  BY <1>1, <1>2 DEF IInv, SeqHolds, NextSeq
<1> QED
  BY <1>3, <1>4, <1>5

(* While nobody holds the row, no transaction is past its locking read. *)
LEMMA FreeLock ==
  ASSUME IInv, lock = NoProc, NEW q \in Procs
  PROVE  tx[q].pc \in {"none", "insert"}
  BY FencingAssumption DEF IInv, LockDiscipline, TypeOK, TxState

(* The holder of the row is the only session past its locking read. *)
LEMMA HeldLock ==
  ASSUME IInv, NEW p \in Procs, lock = p, NEW q \in Procs, q # p
  PROVE  tx[q].pc \in {"none", "insert"}
  BY DEF IInv, LockDiscipline, TypeOK, TxState

(* Locking the row starts a transaction beside ones that claim nothing. *)
LEMMA TxLocked ==
  ASSUME IInv, UNCHANGED <<lease, ownership>>,
         NEW p \in Procs, lock = NoProc, lock' = p,
         NEW t \in {"acquire", "guarded", "append"},
         NEW f, NEW n,
         tx' = [tx EXCEPT ![p] = Tx(t, f, n)],
         t = "guarded" => Matches(f) /\ f.token >= lease.committed,
         t = "append" => n = NextSeq
  PROVE  LockDiscipline' /\ GuardHolds' /\ SeqHolds'
<1>1. \A q \in Procs : q # p => tx'[q].pc \in {"none", "insert"}
  BY FreeLock DEF IInv, TypeOK
<1>2. tx'[p] = Tx(t, f, n)
  BY DEF IInv, TypeOK
<1>3. tx'[p].pc = t /\ tx'[p].fence = f /\ tx'[p].seq = n
  BY <1>2 DEF Tx
<1>4. LockDiscipline'
  BY <1>1, <1>3 DEF LockDiscipline
<1>5. GuardHolds'
  BY <1>1, <1>3 DEF GuardHolds, Matches
<1>6. SeqHolds'
  BY <1>1, <1>3 DEF SeqHolds, NextSeq
<1> QED
  BY <1>4, <1>5, <1>6

(* With every session claiming nothing, the transaction conjuncts are void. *)
LEMMA NothingOpen ==
  ASSUME \A q \in Procs : tx'[q].pc \in {"none", "insert"}
  PROVE  LockDiscipline' /\ GuardHolds' /\ SeqHolds'
  BY DEF LockDiscipline, GuardHolds, SeqHolds

(* A row appended with the next sequence number keeps the log gapless. *)
LEMMA GaplessAppend ==
  ASSUME IInv, NEW row, row.seq = NextSeq, ownership' = Append(ownership, row)
  PROVE  OwnershipGapless'
<1>1. /\ Len(ownership) \in Nat /\ Len(ownership') = Len(ownership) + 1
      /\ DOMAIN ownership' = 1..(Len(ownership) + 1)
      /\ \A i \in 1..Len(ownership) : ownership'[i] = ownership[i]
      /\ ownership'[Len(ownership) + 1] = row
  BY DEF IInv, TypeOK
<1> QED
  BY <1>1 DEF IInv, OwnershipGapless, NextSeq, TypeOK

(* Every step of every session preserves the invariant. *)
LEMMA NextIInv == IInv /\ [Next]_vars => IInv'
<1> SUFFICES ASSUME IInv, [Next]_vars PROVE IInv'
  OBVIOUS
<1>t. TypeOK /\ TypeOK'
  BY NextTypeOK DEF IInv
<1>1. CASE UNCHANGED vars
  BY <1>1, <1>t DEF vars, IInv, LockDiscipline, GuardHolds, SeqHolds, GrantsBelowFence,
     TokensUnique, LedgerBelowCommitted, LedgerOrdered, HighWaterMark, OwnershipGapless,
     Matches, NextSeq
<1>2. ASSUME NEW p \in Procs, Rollback(p) PROVE IInv'
  BY <1>2, <1>t, TablesUnchanged, TxEnded DEF Rollback, IInv, NoTx
<1>13. ASSUME NEW p \in Procs, NEW now \in Times, ClaimSelect(p, now) PROVE IInv'
  <2>1. UNCHANGED <<lease, lock, tx, granted, ledger, ownership>>
    BY <1>13 DEF ClaimSelect
  <2>2. LockDiscipline' /\ GuardHolds' /\ SeqHolds'
    BY <2>1 DEF IInv, LockDiscipline, GuardHolds, SeqHolds, Matches, NextSeq
  <2> QED
    BY <1>t, <2>1, <2>2, TablesUnchanged DEF IInv
<1>3. ASSUME NEW p \in Procs, AcquireRead(p) PROVE IInv'
  <2>1. CASE LockRow(p) /\ tx' = [tx EXCEPT ![p] = Tx("acquire", NoFence, 0)]
    BY <1>3, <2>1, <1>t, TablesUnchanged, TxLocked DEF AcquireRead, LockRow, IInv
  <2>2. CASE tx' = [tx EXCEPT ![p] = Tx("insert", NoFence, 0)] /\ UNCHANGED lock
    BY <1>3, <2>2, <1>t, TablesUnchanged, TxEnded DEF AcquireRead, IInv
  <2> QED
    BY <1>3, <2>1, <2>2 DEF AcquireRead
<1>4. ASSUME NEW p \in Procs, AcquireInsert(p) PROVE IInv'
  BY <1>4, <1>t, TablesUnchanged, TxLocked DEF AcquireInsert, LockRow, IInv
<1>5. ASSUME NEW p \in Procs, NEW now \in Times, AcquireRefused(p, now) PROVE IInv'
  <2>1. lock = p
    BY <1>5 DEF AcquireRefused, IInv, LockDiscipline
  <2> QED
    BY <1>5, <2>1, <1>t, TablesUnchanged, TxEnded DEF AcquireRefused, EndTx, IInv, NoTx
<1>6. ASSUME NEW p \in Procs, NEW now \in Times, AcquireCommit(p, now) PROVE IInv'
  <2>1. lock = p
    BY <1>6 DEF AcquireCommit, IInv, LockDiscipline
  <2>2. LockDiscipline' /\ GuardHolds' /\ SeqHolds'
    <3>1. tx' = [tx EXCEPT ![p] = NoTx]
      BY <1>6 DEF AcquireCommit, EndTx
    <3> QED
      BY <2>1, <3>1, <1>t, HeldLock, NothingOpen DEF TypeOK, NoTx, Tx
  <2> DEFINE g == [owner |-> OwnerOf[p], token |-> lease.fence + 1]
  <2>3. /\ lease'.fence = lease.fence + 1 /\ lease'.committed = lease.committed
        /\ granted' = granted \cup {g} /\ ledger' = ledger
        /\ lease.fence \in Nat /\ lease.committed \in Nat
    BY <1>6, <1>t DEF AcquireCommit, TypeOK, LeaseRow
  <2>4. GrantsBelowFence' /\ TokensUnique'
    BY <2>3, <1>t DEF IInv, GrantsBelowFence, TokensUnique, TypeOK, Fence
  <2>5. LedgerBelowCommitted' /\ LedgerOrdered' /\ HighWaterMark'
    BY <2>3 DEF IInv, LedgerBelowCommitted, LedgerOrdered, HighWaterMark
  <2>6. OwnershipGapless'
    BY <1>6, GaplessAppend DEF AcquireCommit, AppendOwnershipTx
  <2> QED
    BY <1>t, <2>2, <2>4, <2>5, <2>6 DEF IInv
<1>7. ASSUME NEW p \in Procs, NEW f \in granted, NEW now \in Times,
             RenewRunLease(p, f, now)
      PROVE  IInv'
  <2>1. LockDiscipline' /\ GuardHolds' /\ SeqHolds'
    BY <1>7, FreeLock, NothingOpen DEF RenewRunLease
  <2>2. /\ lease'.fence = lease.fence /\ lease'.committed = lease.committed
        /\ UNCHANGED <<granted, ledger, ownership>>
    BY <1>7, <1>t DEF RenewRunLease, TypeOK, LeaseRow
  <2> QED
    BY <1>t, <2>1, <2>2 DEF IInv, GrantsBelowFence, TokensUnique, LedgerBelowCommitted,
       LedgerOrdered, HighWaterMark, OwnershipGapless
<1>8. ASSUME NEW p \in Procs, NEW f \in granted, NEW now \in Times,
             ReleaseRunLease(p, f, now)
      PROVE  IInv'
  <2>1. LockDiscipline' /\ GuardHolds' /\ SeqHolds'
    BY <1>8, FreeLock, NothingOpen DEF ReleaseRunLease
  <2>2. /\ lease'.fence = lease.fence /\ lease'.committed = lease.committed
        /\ UNCHANGED <<granted, ledger>>
    BY <1>8, <1>t DEF ReleaseRunLease, TypeOK, LeaseRow
  <2>3. OwnershipGapless'
    BY <1>8, GaplessAppend DEF ReleaseRunLease, AppendOwnershipTx
  <2> QED
    BY <1>t, <2>1, <2>2, <2>3 DEF IInv, GrantsBelowFence, TokensUnique,
       LedgerBelowCommitted, LedgerOrdered, HighWaterMark
<1>9. ASSUME NEW p \in Procs, NEW f \in granted, NEW now \in Times,
             GuardFenceTx(p, f, now)
      PROVE  IInv'
  <2>1. Matches(f) /\ f.token >= lease.committed
    BY <1>9 DEF GuardFenceTx, GuardFence
  <2> QED
    BY <1>9, <2>1, <1>t, TablesUnchanged, TxLocked DEF GuardFenceTx, LockRow, IInv
<1>10. ASSUME NEW p \in Procs, NEW f \in granted, NEW now \in Times,
              AppendOwnership(p, f, now)
       PROVE  IInv'
  BY <1>10, <1>t, TablesUnchanged, TxLocked
  DEF AppendOwnership, LockOwnershipLog, LockRow, IInv
<1>11. ASSUME NEW p \in Procs, GuardedCommit(p) PROVE IInv'
  <2>1. lock = p /\ tx' = [tx EXCEPT ![p] = NoTx]
    BY <1>11 DEF GuardedCommit, EndTx, IInv, LockDiscipline
  <2>2. LockDiscipline' /\ GuardHolds' /\ SeqHolds'
    BY <2>1, <1>t, HeldLock, NothingOpen DEF TypeOK, NoTx, Tx
  <2> DEFINE f == tx[p].fence
  <2>3. /\ f \in Fence /\ f.token \in Nat
        /\ f.token = lease.fence /\ f.token >= lease.committed
    BY <1>11, <1>t DEF GuardedCommit, IInv, GuardHolds, Matches, TypeOK, Fence
  <2>4. /\ lease'.fence = lease.fence /\ lease'.committed = f.token
        /\ ledger' = Append(ledger, f) /\ UNCHANGED <<granted, ownership>>
        /\ lease.committed \in Nat
    BY <1>11, <1>t DEF GuardedCommit, TypeOK, LeaseRow
  <2>5. GrantsBelowFence' /\ TokensUnique' /\ OwnershipGapless'
    BY <2>4 DEF IInv, GrantsBelowFence, TokensUnique, OwnershipGapless
  <2> HIDE DEF f
  <2>6. /\ Len(ledger) \in Nat /\ Len(ledger') = Len(ledger) + 1
        /\ DOMAIN ledger' = 1..(Len(ledger) + 1) /\ DOMAIN ledger = 1..Len(ledger)
        /\ \A i \in 1..Len(ledger) : ledger'[i] = ledger[i] /\ ledger[i].token \in Nat
        /\ ledger'[Len(ledger) + 1] = f
    <3>1. \A i \in 1..Len(ledger) : ledger[i] \in Fence
      BY <1>t DEF TypeOK
    <3>2. \A i \in 1..Len(ledger) : ledger[i].token \in Nat
      BY <3>1 DEF Fence
    <3> QED
      BY <2>3, <2>4, <3>2, <1>t DEF TypeOK
  <2>7. LedgerBelowCommitted'
    BY <2>3, <2>4, <2>6 DEF IInv, LedgerBelowCommitted
  <2>8. LedgerOrdered'
    BY <2>3, <2>4, <2>6 DEF IInv, LedgerBelowCommitted, LedgerOrdered
  <2>9. HighWaterMark'
    BY <2>3, <2>4, <2>6 DEF HighWaterMark
  <2> QED
    BY <1>t, <2>2, <2>5, <2>7, <2>8, <2>9 DEF IInv
<1>12. ASSUME NEW p \in Procs, RecordFenceRejection(p) PROVE IInv'
  <2>1. lock = p /\ tx' = [tx EXCEPT ![p] = NoTx] /\ tx[p].seq = NextSeq
    BY <1>12 DEF RecordFenceRejection, IInv, LockDiscipline, SeqHolds
  <2>2. LockDiscipline' /\ GuardHolds' /\ SeqHolds'
    BY <2>1, <1>t, HeldLock, NothingOpen DEF TypeOK, NoTx, Tx
  <2>3. OwnershipGapless'
    BY <1>12, <2>1, GaplessAppend DEF RecordFenceRejection, AppendOwnershipTx
  <2> QED
    BY <1>12, <1>t, <2>2, <2>3 DEF RecordFenceRejection, IInv, GrantsBelowFence,
       TokensUnique, LedgerBelowCommitted, LedgerOrdered, HighWaterMark
<1> QED
  BY <1>1, <1>2, <1>3, <1>4, <1>5, <1>6, <1>7, <1>8, <1>9, <1>10, <1>11, <1>12, <1>13
  DEF Next, Step

(* The invariant holds throughout. *)
THEOREM Invariance == Spec => []IInv
  BY InitIInv, NextIInv, PTL DEF Spec

(* No two acquisitions of a run are ever handed the same fence token, also *)
(* when both sessions found no lease row.                                  *)
THEOREM TokensAreUnique == Spec => []TokensUnique
  BY Invariance, PTL DEF IInv

(* The durable writes of a run never step back to an older token. *)
THEOREM LedgerIsOrdered == Spec => []LedgerOrdered
  BY Invariance, PTL DEF IInv

(* committed_fence is the token of the latest durable write. *)
THEOREM CommittedIsHighWater == Spec => []HighWaterMark
  BY Invariance, PTL DEF IInv

(* The ownership log's numbering never collides. *)
THEOREM OwnershipIsGapless == Spec => []OwnershipGapless
  BY Invariance, PTL DEF IInv

(* The lease protocol implements epochs with one writer each: every        *)
(* durable write is made by the holder of the newest epoch.                *)
THEOREM Refinement == Spec => ImplementsFencedLog
<1>1. Init => Log!Init
  BY DEF Init, Log!Init
<1>2. IInv /\ [Next]_vars => [Log!Next]_Log!vars
  <2> SUFFICES ASSUME IInv, [Next]_vars PROVE [Log!Next]_Log!vars
    OBVIOUS
  <2>t. TypeOK
    BY DEF IInv
  <2>1. CASE UNCHANGED <<lease, ledger>>
    BY <2>1 DEF Log!vars
  <2>2. ASSUME NEW p \in Procs, NEW now \in Times, AcquireCommit(p, now)
        PROVE  Log!Next
    <3>1. OwnerOf[p] \in Owners
      BY FencingAssumption
    <3>2. Log!Take(OwnerOf[p])
      BY <2>2, <2>t DEF AcquireCommit, Log!Take, TypeOK, LeaseRow
    <3> QED
      BY <3>1, <3>2 DEF Log!Next
  <2>3. ASSUME NEW p \in Procs, NEW f \in granted, NEW now \in Times,
               RenewRunLease(p, f, now)
        PROVE  UNCHANGED Log!vars
    BY <2>3, <2>t DEF RenewRunLease, Log!vars, TypeOK, LeaseRow
  <2>4. ASSUME NEW p \in Procs, NEW f \in granted, NEW now \in Times,
               ReleaseRunLease(p, f, now)
        PROVE  Log!Next
    <3>1. Log!Drop
      BY <2>4, <2>t, FencingAssumption
      DEF ReleaseRunLease, Matches, Log!Drop, TypeOK, LeaseRow, Fence
    <3> QED
      BY <3>1 DEF Log!Next
  <2>5. ASSUME NEW p \in Procs, GuardedCommit(p) PROVE Log!Next
    <3>1. tx[p].fence \in Fence /\ Matches(tx[p].fence)
      BY <2>5, <2>t DEF GuardedCommit, IInv, GuardHolds, TypeOK
    <3>2. tx[p].fence = [owner |-> lease.owner, token |-> lease.fence]
      BY <3>1 DEF Matches, Fence
    <3>3. lease.owner # NoOwner
      BY <3>1, FencingAssumption DEF Matches, Fence
    <3>4. /\ ledger' = Append(ledger, tx[p].fence)
          /\ lease'.fence = lease.fence /\ lease'.owner = lease.owner
      BY <2>5, <2>t DEF GuardedCommit, TypeOK, LeaseRow
    <3>5. Log!Write
      BY <3>2, <3>3, <3>4 DEF Log!Write
    <3> QED
      BY <3>5 DEF Log!Next
  <2>6. ASSUME NEW p \in Procs, Step(p),
               ~ \E now \in Times : AcquireCommit(p, now),
               ~ \E f \in granted, now \in Times :
                     RenewRunLease(p, f, now) \/ ReleaseRunLease(p, f, now),
               ~ GuardedCommit(p)
        PROVE  UNCHANGED <<lease, ledger>>
    BY <2>6 DEF Step, ClaimSelect, Rollback, AcquireRead, AcquireInsert, AcquireRefused, GuardFenceTx,
       AppendOwnership, RecordFenceRejection
  <2> QED
    BY <2>1, <2>2, <2>3, <2>4, <2>5, <2>6 DEF Next, vars
<1> QED
  BY <1>1, <1>2, Invariance, PTL DEF Spec, ImplementsFencedLog, Log!Spec

(***************************************************************************)
(* The ownership log reconstructs who held the run, and the ledger stays   *)
(* ordered even when a repair puts an earlier owner back into the lease    *)
(* row.                                                                    *)
(***************************************************************************)

(***************************************************************************)
(* The holder a log shows.                                                 *)
(***************************************************************************)

(* m is the last lease transition among a log's first n rows. *)
IsLast(log, n, m) ==
    m \in LeaseMoves(log, n) /\ \A j \in LeaseMoves(log, n) : j <= m

HasLast(log, n) == LeaseMoves(log, n) = {} \/ \E m \in 1..n : IsLast(log, n, m)

HolderAt(log, m) == IF log[m].kind = "acquired" THEN log[m].owner ELSE NoOwner

(* The last transition decides who a log says holds the run. *)
LEMMA HolderIsLast ==
  ASSUME NEW log, NEW n \in Nat, NEW m \in 1..n, IsLast(log, n, m)
  PROVE  LoggedHolder(log, n) = HolderAt(log, m)
<1> DEFINE S == LeaseMoves(log, n)
           last == CHOOSE i \in S : \A j \in S : j <= i
<1>1. S \subseteq 1..n
  BY DEF LeaseMoves
<1>2. m \in S /\ \A j \in S : j <= m
  BY DEF IsLast
<1> HIDE DEF S
<1>3. last \in S /\ \A j \in S : j <= last
  BY <1>2
<1>4. last = m
  <2>1. last \in 1..n /\ last <= m /\ m <= last
    BY <1>1, <1>2, <1>3
  <2> HIDE DEF last
  <2> QED
    BY <2>1
<1>5. S # {}
  BY <1>2
<1>6. LoggedHolder(log, n) =
        IF S = {} THEN NoOwner
        ELSE IF log[last].kind = "acquired" THEN log[last].owner ELSE NoOwner
  BY Zenon DEF LoggedHolder, S
<1> HIDE DEF last
<1> QED
  BY <1>4, <1>5, <1>6 DEF HolderAt

(* A longer log shows the same holders at the rows it shares. *)
LEMMA HolderKept ==
  ASSUME NEW log, NEW longer, NEW n \in Nat, HasLast(log, n),
         \A i \in 1..n : longer[i] = log[i]
  PROVE  HasLast(longer, n) /\ LoggedHolder(longer, n) = LoggedHolder(log, n)
<1>1. LeaseMoves(longer, n) = LeaseMoves(log, n)
  BY DEF LeaseMoves
<1>2. CASE LeaseMoves(log, n) = {}
  BY <1>1, <1>2 DEF HasLast, LoggedHolder
<1>3. CASE \E m \in 1..n : IsLast(log, n, m)
  <2>1. PICK m \in 1..n : IsLast(log, n, m)
    BY <1>3
  <2>2. IsLast(longer, n, m)
    BY <1>1, <2>1 DEF IsLast
  <2>3. HolderAt(longer, m) = HolderAt(log, m)
    BY DEF HolderAt
  <2> QED
    BY <2>1, <2>2, <2>3, HolderIsLast DEF HasLast
<1> QED
  BY <1>2, <1>3 DEF HasLast

(* A new row passes the run on, unless it records a rejection. *)
LEMMA HolderAppended ==
  ASSUME NEW log, NEW longer, NEW n \in Nat, HasLast(log, n),
         \A i \in 1..n : longer[i] = log[i]
  PROVE  /\ HasLast(longer, n + 1)
         /\ LoggedHolder(longer, n + 1) =
              IF longer[n + 1].kind = "rejected" THEN LoggedHolder(log, n) ELSE HolderAt(longer, n + 1)
<1>1. 1..(n + 1) = (1..n) \cup {n + 1}
  OBVIOUS
<1>2. CASE longer[n + 1].kind = "rejected"
  <2>1. LeaseMoves(longer, n + 1) = LeaseMoves(log, n)
    BY <1>1, <1>2 DEF LeaseMoves
  <2>2. CASE LeaseMoves(log, n) = {}
    BY <1>2, <2>1, <2>2 DEF HasLast, LoggedHolder
  <2>3. CASE \E m \in 1..n : IsLast(log, n, m)
    <3>1. PICK m \in 1..n : IsLast(log, n, m)
      BY <2>3
    <3>2. m \in 1..(n + 1) /\ IsLast(longer, n + 1, m)
      BY <1>1, <2>1, <3>1 DEF IsLast
    <3>3. HolderAt(longer, m) = HolderAt(log, m)
      BY DEF HolderAt
    <3>4. LoggedHolder(longer, n + 1) = HolderAt(longer, m) /\ LoggedHolder(log, n) = HolderAt(log, m)
      BY <3>1, <3>2, HolderIsLast
    <3> QED
      BY <1>2, <3>2, <3>3, <3>4 DEF HasLast
  <2> QED
    BY <2>2, <2>3 DEF HasLast
<1>3. CASE longer[n + 1].kind # "rejected"
  <2>1. n + 1 \in 1..(n + 1) /\ IsLast(longer, n + 1, n + 1)
    BY <1>3 DEF IsLast, LeaseMoves
  <2>2. LoggedHolder(longer, n + 1) = HolderAt(longer, n + 1)
    BY <2>1, HolderIsLast
  <2> QED
    BY <1>3, <2>1, <2>2 DEF HasLast
<1> QED
  BY <1>2, <1>3

(***************************************************************************)
(* The audit trail.                                                        *)
(***************************************************************************)

(* Every prefix of the log with a transition has a last one. *)
LastExists == \A n \in 0..Len(ownership) : HasLast(ownership, n)

(* A claim that found an expired owner follows a transition of the log. *)
SeenIsLogged ==
    claim.displaced => LeaseMoves(ownership, Len(ownership)) # {}

AuditInv == IInv /\ LastExists /\ SeenIsLogged /\ AuditTrail

(* What the trail demands of row i of a log. *)
TellsPast(log, i) ==
    log[i].kind = "acquired" =>
        /\ log[i].previous = LoggedHolder(log, i - 1)
        /\ log[i].previous \notin {NoOwner, log[i].owner} => log[i].takeover
        /\ log[i].takeover => LeaseMoves(log, i - 1) # {}

(* Neither log nor holder changed: the trail is what it was. *)
LEMMA AuditUnchanged ==
  ASSUME AuditInv, ownership' = ownership, lease'.owner = lease.owner
  PROVE  LastExists' /\ AuditTrail'
  BY DEF AuditInv, LastExists, AuditTrail

(* A claim that is kept, or dropped, still follows a transition. *)
LEMMA SeenKept ==
  ASSUME AuditInv, claim' = claim \/ claim' = NoClaim,
         \/ ownership' = ownership
         \/ \E row : ownership' = Append(ownership, row)
  PROVE  SeenIsLogged'
<1>1. CASE claim' = NoClaim
  BY <1>1 DEF SeenIsLogged, NoClaim
<1>2. CASE claim' = claim /\ ownership' = ownership
  BY <1>2 DEF AuditInv, SeenIsLogged
<1>3. CASE claim' = claim /\ \E row : ownership' = Append(ownership, row)
  <2>1. PICK row : ownership' = Append(ownership, row)
    BY <1>3
  <2>2. /\ Len(ownership) \in Nat /\ Len(ownership') = Len(ownership) + 1
        /\ \A i \in 1..Len(ownership) : ownership'[i] = ownership[i]
    BY <2>1 DEF AuditInv, IInv, TypeOK
  <2>3. \A i \in 1..Len(ownership) :
          i \in LeaseMoves(ownership, Len(ownership)) => i \in LeaseMoves(ownership', Len(ownership'))
    BY <2>2 DEF LeaseMoves
  <2>4. LeaseMoves(ownership, Len(ownership)) \subseteq 1..Len(ownership)
    BY DEF LeaseMoves
  <2> QED
    BY <1>3, <2>3, <2>4 DEF AuditInv, SeenIsLogged
<1> QED
  BY <1>1, <1>2, <1>3

(* Whoever holds the run got it by a transition of the log. *)
LEMMA HolderMoved ==
  ASSUME AuditInv, lease.owner # NoOwner
  PROVE  LeaseMoves(ownership, Len(ownership)) # {}
  BY DEF AuditInv, AuditTrail, LoggedHolder

(* A row that says how the holder changed, and whom it displaced, extends  *)
(* the trail.                                                              *)
LEMMA AuditAppended ==
  ASSUME AuditInv, NEW row, ownership' = Append(ownership, row),
         lease'.owner = IF row.kind = "rejected" THEN lease.owner
                        ELSE IF row.kind = "acquired" THEN row.owner ELSE NoOwner,
         row.kind = "acquired" =>
             /\ row.previous = lease.owner
             /\ row.previous \notin {NoOwner, row.owner} => row.takeover
             /\ row.takeover => LeaseMoves(ownership, Len(ownership)) # {}
  PROVE  LastExists' /\ AuditTrail'
<1> DEFINE n == Len(ownership)
<1>1. /\ n \in Nat /\ Len(ownership') = n + 1
      /\ DOMAIN ownership = 1..n /\ DOMAIN ownership' = 1..(n + 1)
      /\ \A i \in 1..n : ownership'[i] = ownership[i]
      /\ ownership'[n + 1] = row
  BY DEF AuditInv, IInv, TypeOK
<1>2. \A k \in 0..n : HasLast(ownership, k)
  BY DEF AuditInv, LastExists
<1>3. LoggedHolder(ownership, n) = lease.owner
  BY DEF AuditInv, AuditTrail
<1>4. \A i \in 1..n : TellsPast(ownership, i)
  BY <1>1 DEF AuditInv, AuditTrail, TellsPast
<1> HIDE DEF n
<1>5. ASSUME NEW k \in 0..n
      PROVE  HasLast(ownership', k) /\ LoggedHolder(ownership', k) = LoggedHolder(ownership, k)
  <2>1. k \in Nat /\ \A i \in 1..k : ownership'[i] = ownership[i]
    BY <1>1
  <2>2. HasLast(ownership, k)
    BY <1>2
  <2>3. \A longer : \A i \in Nat :
            HasLast(ownership, i) /\ (\A j \in 1..i : longer[j] = ownership[j]) =>
                HasLast(longer, i) /\ LoggedHolder(longer, i) = LoggedHolder(ownership, i)
    BY HolderKept
  <2>4. \A i \in Nat :
            HasLast(ownership, i) /\ (\A j \in 1..i : ownership'[j] = ownership[j]) =>
                HasLast(ownership', i) /\ LoggedHolder(ownership', i) = LoggedHolder(ownership, i)
    BY <2>3
  <2> QED
    BY <2>1, <2>2, <2>4
<1>6. /\ HasLast(ownership', n + 1)
      /\ LoggedHolder(ownership', n + 1) = lease'.owner
  <2>1. HasLast(ownership, n)
    BY <1>1, <1>2
  <2>2. /\ HasLast(ownership', n + 1)
        /\ LoggedHolder(ownership', n + 1) =
             IF ownership'[n + 1].kind = "rejected" THEN LoggedHolder(ownership, n)
             ELSE HolderAt(ownership', n + 1)
    BY <1>1, <2>1, HolderAppended
  <2> QED
    BY <1>1, <1>3, <2>2 DEF HolderAt
<1>7. LastExists'
  <2>1. 0..(n + 1) = (0..n) \cup {n + 1}
    BY <1>1
  <2> QED
    BY <1>1, <1>5, <1>6, <2>1 DEF LastExists
<1>8. ASSUME NEW i \in 1..(n + 1) PROVE TellsPast(ownership', i)
  <2>1. i - 1 \in 0..n
    BY <1>1
  <2>2. LoggedHolder(ownership', i - 1) = LoggedHolder(ownership, i - 1)
    BY <1>5, <2>1
  <2>3. LeaseMoves(ownership', i - 1) = LeaseMoves(ownership, i - 1)
    BY <1>1, <2>1 DEF LeaseMoves
  <2>4. CASE i \in 1..n
    <3>1. ownership'[i] = ownership[i] /\ TellsPast(ownership, i)
      BY <1>1, <1>4, <2>4
    <3> QED
      BY <2>2, <2>3, <3>1 DEF TellsPast
  <2>5. CASE i = n + 1
    <3>1. i - 1 = n
      BY <1>1, <2>5
    <3>2. ownership'[i] = row
      BY <1>1, <2>5
    <3> QED
      BY <1>3, <2>2, <2>3, <3>1, <3>2 DEF TellsPast, n
  <2> QED
    BY <1>1, <2>4, <2>5
<1> QED
  BY <1>1, <1>6, <1>7, <1>8 DEF AuditTrail, TellsPast

(* Every step of every session preserves the audit trail. *)
LEMMA NextAudit == AuditInv /\ [Next]_vars => AuditInv'
<1> SUFFICES ASSUME AuditInv, [Next]_vars PROVE AuditInv'
  OBVIOUS
<1>t. IInv /\ TypeOK /\ IInv'
  BY NextIInv DEF AuditInv, IInv
<1>1. CASE /\ ownership' = ownership /\ lease'.owner = lease.owner
           /\ claim' = claim \/ claim' = NoClaim
  BY <1>1, <1>t, AuditUnchanged, SeenKept DEF AuditInv
<1>8. ASSUME NEW p \in Procs, NEW now \in Times, ClaimSelect(p, now) PROVE AuditInv'
  <2>1. /\ ownership' = ownership /\ lease' = lease
        /\ claim'.displaced => lease.owner # NoOwner
    BY <1>8 DEF ClaimSelect
  <2>2. SeenIsLogged'
    BY <2>1, HolderMoved DEF SeenIsLogged
  <2> QED
    BY <1>t, <2>1, <2>2, AuditUnchanged DEF AuditInv
<1>2. ASSUME NEW p \in Procs, NEW now \in Times, AcquireCommit(p, now) PROVE AuditInv'
  <2> DEFINE row == [seq |-> NextSeq, kind |-> "acquired", owner |-> OwnerOf[p],
                     fence |-> lease.fence + 1, previous |-> lease.owner,
                     takeover |-> Takeover(p)]
  <2>1. ownership' = Append(ownership, row) /\ (claim' = claim \/ claim' = NoClaim)
    BY <1>2 DEF AcquireCommit, AppendOwnershipTx, EndTx, EndClaim
  <2>2. lease'.owner = OwnerOf[p]
    BY <1>2, <1>t DEF AcquireCommit, TypeOK, LeaseRow
  <2>3. /\ lease.owner \notin {NoOwner, OwnerOf[p]} => Takeover(p)
        /\ Takeover(p) => LeaseMoves(ownership, Len(ownership)) # {}
    BY HolderMoved DEF Takeover, AuditInv, SeenIsLogged
  <2>4. /\ row.kind = "acquired" /\ row.owner = OwnerOf[p]
        /\ row.previous = lease.owner /\ row.takeover = Takeover(p)
    OBVIOUS
  <2> HIDE DEF row
  <2> QED
    BY <1>t, <2>1, <2>2, <2>3, <2>4, AuditAppended, SeenKept DEF AuditInv
<1>3. ASSUME NEW p \in Procs, NEW f \in granted, NEW now \in Times,
             RenewRunLease(p, f, now)
      PROVE  AuditInv'
  <2>1. ownership' = ownership /\ lease'.owner = lease.owner /\ claim' = claim
    BY <1>3, <1>t DEF RenewRunLease, TypeOK, LeaseRow
  <2> QED
    BY <1>1, <2>1
<1>4. ASSUME NEW p \in Procs, NEW f \in granted, NEW now \in Times,
             ReleaseRunLease(p, f, now)
      PROVE  AuditInv'
  <2> DEFINE row == [seq |-> NextSeq, kind |-> "released", owner |-> f.owner,
                     fence |-> f.token, previous |-> NoOwner, takeover |-> FALSE]
  <2>1. ownership' = Append(ownership, row) /\ claim' = claim
    BY <1>4 DEF ReleaseRunLease, AppendOwnershipTx
  <2>2. lease'.owner = NoOwner
    BY <1>4, <1>t DEF ReleaseRunLease, TypeOK, LeaseRow
  <2>3. row.kind = "released"
    OBVIOUS
  <2> HIDE DEF row
  <2> QED
    BY <1>t, <2>1, <2>2, <2>3, AuditAppended, SeenKept DEF AuditInv
<1>5. ASSUME NEW p \in Procs, GuardedCommit(p) PROVE AuditInv'
  <2>1. /\ ownership' = ownership /\ lease'.owner = lease.owner
        /\ claim' = claim \/ claim' = NoClaim
    BY <1>5, <1>t DEF GuardedCommit, EndTx, EndClaim, TypeOK, LeaseRow
  <2> QED
    BY <1>1, <2>1
<1>6. ASSUME NEW p \in Procs, RecordFenceRejection(p) PROVE AuditInv'
  <2> DEFINE row == [seq |-> tx[p].seq, kind |-> "rejected", owner |-> tx[p].fence.owner,
                     fence |-> tx[p].fence.token, previous |-> NoOwner, takeover |-> FALSE]
  <2>1. ownership' = Append(ownership, row) /\ lease' = lease /\ claim' = claim
    BY <1>6 DEF RecordFenceRejection, AppendOwnershipTx
  <2>2. row.kind = "rejected"
    OBVIOUS
  <2> HIDE DEF row
  <2> QED
    BY <1>t, <2>1, <2>2, AuditAppended, SeenKept DEF AuditInv
<1>7. ASSUME NEW p \in Procs, Step(p),
             ~ \E now \in Times : ClaimSelect(p, now) \/ AcquireCommit(p, now),
             ~ \E f \in granted, now \in Times :
                   RenewRunLease(p, f, now) \/ ReleaseRunLease(p, f, now),
             ~ GuardedCommit(p), ~ RecordFenceRejection(p)
      PROVE  UNCHANGED <<lease, ownership>> /\ (claim' = claim \/ claim' = NoClaim)
  BY <1>7 DEF Step, Rollback, EndTx, EndClaim, AcquireRead, AcquireInsert, AcquireRefused,
     GuardFenceTx, AppendOwnership
<1> QED
  BY <1>1, <1>2, <1>3, <1>4, <1>5, <1>6, <1>7, <1>8 DEF Next, vars

(* The ownership log always tells who holds the run and whom each          *)
(* acquisition followed; it marks every acquisition that displaced another *)
(* owner as a takeover, and none before the run was first held.            *)
THEOREM OwnershipTellsHolder == Spec => []AuditTrail
<1>1. Init => AuditInv
  <2> SUFFICES ASSUME Init PROVE AuditInv
    OBVIOUS
  <2>1. Len(ownership) = 0 /\ DOMAIN ownership = {} /\ lease.owner = NoOwner
    BY DEF Init
  <2>2. LeaseMoves(ownership, 0) = {}
    BY DEF LeaseMoves
  <2> QED
    BY <2>1, <2>2, InitIInv
    DEF Init, NoClaim, AuditInv, LastExists, SeenIsLogged, AuditTrail, HasLast, LoggedHolder
<1> QED
  BY <1>1, NextAudit, PTL DEF Spec, AuditInv

(***************************************************************************)
(* The ledger under repair.                                                *)
(***************************************************************************)

(* What is left of the invariant once a repair may put back an earlier     *)
(* owner and fence: tokens may then be handed out twice, and the log no    *)
(* longer tells the holder.                                                *)
LedgerInv ==
    /\ TypeOK
    /\ LockDiscipline
    /\ GuardHolds
    /\ LedgerBelowCommitted
    /\ LedgerOrdered

(* A step of a session preserves the order of the ledger. *)
LEMMA NextLedger == LedgerInv /\ [Next]_vars => LedgerInv'
<1> SUFFICES ASSUME LedgerInv, [Next]_vars PROVE LedgerInv'
  OBVIOUS
<1>t. TypeOK /\ TypeOK'
  BY NextTypeOK DEF LedgerInv
<1>a. \A p, q \in Procs : lock = p /\ q # p => tx[q].pc \in {"none", "insert"}
  BY DEF LedgerInv, LockDiscipline, TypeOK, TxState
<1>b. lock = NoProc => \A q \in Procs : tx[q].pc \in {"none", "insert"}
  BY FencingAssumption DEF LedgerInv, LockDiscipline, TypeOK, TxState
<1>c. ASSUME \A q \in Procs : tx'[q].pc \in {"none", "insert"}
      PROVE  LockDiscipline' /\ GuardHolds'
  BY <1>c DEF LockDiscipline, GuardHolds
<1>d. ASSUME lease'.committed = lease.committed, ledger' = ledger
      PROVE  LedgerBelowCommitted' /\ LedgerOrdered'
  BY <1>d DEF LedgerInv, LedgerBelowCommitted, LedgerOrdered
<1>1. CASE UNCHANGED vars
  BY <1>1, <1>t DEF vars, LedgerInv, LockDiscipline, GuardHolds, LedgerBelowCommitted,
     LedgerOrdered, Matches
<1>2. ASSUME NEW p \in Procs, NEW t \in {"none", "insert"},
             tx' = [tx EXCEPT ![p] = Tx(t, NoFence, 0)],
             lock' = lock \/ (lock = p /\ lock' = NoProc), UNCHANGED <<lease, ledger>>
      PROVE  LedgerInv'
  <2>1. (\A q \in Procs : q # p => tx'[q] = tx[q]) /\ tx'[p].pc = t
    BY <1>2, <1>t DEF TypeOK, Tx
  <2>2. LockDiscipline'
    BY <1>2, <2>1, FencingAssumption DEF LedgerInv, LockDiscipline
  <2>3. GuardHolds'
    BY <1>2, <2>1 DEF LedgerInv, GuardHolds, Matches
  <2> QED
    BY <1>2, <1>d, <1>t, <2>2, <2>3 DEF LedgerInv
<1>3. ASSUME NEW p \in Procs, lock = NoProc, lock' = p,
             NEW t \in {"acquire", "guarded", "append"}, NEW f, NEW n,
             tx' = [tx EXCEPT ![p] = Tx(t, f, n)], UNCHANGED <<lease, ledger>>,
             t = "guarded" => Matches(f) /\ f.token >= lease.committed
      PROVE  LedgerInv'
  <2>1. \A q \in Procs : q # p => tx'[q].pc \in {"none", "insert"}
    BY <1>3, <1>b, <1>t DEF TypeOK
  <2>2. tx'[p].pc = t /\ tx'[p].fence = f
    BY <1>3, <1>t DEF TypeOK, Tx
  <2>3. LockDiscipline'
    BY <1>3, <2>1, <2>2 DEF LockDiscipline
  <2>4. GuardHolds'
    BY <1>3, <2>1, <2>2 DEF GuardHolds, Matches
  <2> QED
    BY <1>3, <1>d, <1>t, <2>3, <2>4 DEF LedgerInv
<1>4. ASSUME NEW p \in Procs,
             Rollback(p) \/ AcquireRead(p) \/ AcquireInsert(p)
      PROVE  LedgerInv'
  <2>1. CASE Rollback(p)
    BY <1>2, <2>1 DEF Rollback, NoTx
  <2>2. CASE AcquireRead(p) /\ UNCHANGED lock
    <3>1. CASE lock = NoProc /\ lock' = p
      BY <2>2, <3>1, FencingAssumption
    <3> QED
      BY <1>2, <2>2, <3>1 DEF AcquireRead, LockRow
  <2>3. CASE AcquireRead(p) /\ LockRow(p) /\ tx' = [tx EXCEPT ![p] = Tx("acquire", NoFence, 0)]
    BY <1>3, <2>3 DEF AcquireRead, LockRow
  <2>4. CASE AcquireInsert(p)
    BY <1>3, <2>4 DEF AcquireInsert, LockRow
  <2> QED
    BY <1>4, <2>1, <2>2, <2>3, <2>4 DEF AcquireRead
<1>12. ASSUME NEW p \in Procs, NEW now \in Times, ClaimSelect(p, now) PROVE LedgerInv'
  <2>1. UNCHANGED <<lease, lock, tx, ledger>>
    BY <1>12 DEF ClaimSelect
  <2> QED
    BY <1>d, <1>t, <2>1 DEF LedgerInv, LockDiscipline, GuardHolds, Matches
<1>5. ASSUME NEW p \in Procs, NEW now \in Times, AcquireRefused(p, now) PROVE LedgerInv'
  <2>1. lock = p
    BY <1>5 DEF AcquireRefused, LedgerInv, LockDiscipline
  <2> QED
    BY <1>2, <1>5, <2>1 DEF AcquireRefused, EndTx, NoTx
<1>6. ASSUME NEW p \in Procs, NEW now \in Times, AcquireCommit(p, now) PROVE LedgerInv'
  <2>1. lock = p /\ tx' = [tx EXCEPT ![p] = NoTx]
    BY <1>6 DEF AcquireCommit, EndTx, LedgerInv, LockDiscipline
  <2>2. \A q \in Procs : tx'[q].pc \in {"none", "insert"}
    BY <1>a, <1>t, <2>1 DEF TypeOK, NoTx, Tx
  <2>3. lease'.committed = lease.committed /\ ledger' = ledger
    BY <1>6, <1>t DEF AcquireCommit, TypeOK, LeaseRow
  <2> QED
    BY <1>c, <1>d, <1>t, <2>2, <2>3 DEF LedgerInv
<1>7. ASSUME NEW p \in Procs, NEW f \in granted, NEW now \in Times,
             RenewRunLease(p, f, now) \/ ReleaseRunLease(p, f, now)
      PROVE  LedgerInv'
  <2>1. lock = NoProc /\ tx' = tx /\ ledger' = ledger
    BY <1>7 DEF RenewRunLease, ReleaseRunLease
  <2>2. lease'.committed = lease.committed
    BY <1>7, <1>t DEF RenewRunLease, ReleaseRunLease, TypeOK, LeaseRow
  <2> QED
    BY <1>b, <1>c, <1>d, <1>t, <2>1, <2>2 DEF LedgerInv
<1>8. ASSUME NEW p \in Procs, NEW f \in granted, NEW now \in Times,
             GuardFenceTx(p, f, now)
      PROVE  LedgerInv'
  BY <1>3, <1>8 DEF GuardFenceTx, GuardFence, LockRow
<1>9. ASSUME NEW p \in Procs, NEW f \in granted, NEW now \in Times,
             AppendOwnership(p, f, now)
      PROVE  LedgerInv'
  BY <1>3, <1>9 DEF AppendOwnership, LockOwnershipLog, LockRow
<1>10. ASSUME NEW p \in Procs, GuardedCommit(p) PROVE LedgerInv'
  <2>1. lock = p /\ tx' = [tx EXCEPT ![p] = NoTx]
    BY <1>10 DEF GuardedCommit, EndTx, LedgerInv, LockDiscipline
  <2>2. \A q \in Procs : tx'[q].pc \in {"none", "insert"}
    BY <1>a, <1>t, <2>1 DEF TypeOK, NoTx, Tx
  <2> DEFINE f == tx[p].fence
             n == Len(ledger)
  <2>3. f \in Fence /\ f.token \in Nat /\ f.token >= lease.committed
    BY <1>10, <1>t DEF GuardedCommit, LedgerInv, GuardHolds, TypeOK, Fence
  <2>4. /\ lease'.committed = f.token /\ lease.committed \in Nat
        /\ ledger' = Append(ledger, f)
    BY <1>10, <1>t DEF GuardedCommit, TypeOK, LeaseRow
  <2>5. \A i \in 1..n : ledger[i].token \in Nat
    <3>1. \A i \in 1..n : ledger[i] \in Fence
      BY <1>t DEF TypeOK
    <3> QED
      BY <3>1 DEF Fence
  <2> HIDE DEF f
  <2>6. /\ n \in Nat /\ DOMAIN ledger' = 1..(n + 1) /\ DOMAIN ledger = 1..n
        /\ \A i \in 1..n : ledger'[i] = ledger[i]
        /\ ledger'[n + 1] = f
    BY <1>t, <2>3, <2>4 DEF TypeOK
  <2> HIDE DEF n
  <2>7. LedgerBelowCommitted'
    BY <2>3, <2>4, <2>5, <2>6 DEF LedgerInv, LedgerBelowCommitted
  <2>8. LedgerOrdered'
    BY <2>3, <2>4, <2>5, <2>6 DEF LedgerInv, LedgerBelowCommitted, LedgerOrdered
  <2> QED
    BY <1>c, <1>t, <2>2, <2>7, <2>8 DEF LedgerInv
<1>11. ASSUME NEW p \in Procs, RecordFenceRejection(p) PROVE LedgerInv'
  BY <1>2, <1>11 DEF RecordFenceRejection, NoTx
<1> QED
  BY <1>1, <1>4, <1>5, <1>6, <1>7, <1>8, <1>9, <1>10, <1>11, <1>12 DEF Next, Step

(* A repair waits for the row lock, so no guard is pending, and leaves the *)
(* committed fence alone.                                                  *)
LEMMA RepairLedger ==
  ASSUME LedgerInv, NEW f \in granted, NEW now \in Times, Repair(f, now)
  PROVE  LedgerInv'
<1>1. \A q \in Procs : tx[q].pc \in {"none", "insert"}
  BY FencingAssumption DEF Repair, LedgerInv, LockDiscipline, TypeOK, TxState
<1>2. f.owner \in Owners /\ f.token \in Nat /\ now + TTL \in Int
  BY FencingAssumption DEF LedgerInv, TypeOK, Fence
<1>3. lease' \in LeaseRow /\ lease'.committed = lease.committed
  BY <1>2 DEF Repair, LedgerInv, TypeOK, LeaseRow
<1>4. TypeOK'
  BY <1>3 DEF Repair, LedgerInv, TypeOK
<1>5. LockDiscipline' /\ GuardHolds'
  BY <1>1 DEF Repair, LockDiscipline, GuardHolds
<1>6. LedgerBelowCommitted' /\ LedgerOrdered'
  BY <1>3 DEF Repair, LedgerInv, LedgerBelowCommitted, LedgerOrdered
<1> QED
  BY <1>4, <1>5, <1>6 DEF LedgerInv

(* The committed fence alone keeps the durable writes in token order, also *)
(* when a repair puts an earlier owner and fence back into the lease row.  *)
THEOREM LedgerSurvivesRepair == SpecWithRepair => []LedgerOrdered
<1>1. Init => LedgerInv
  BY InitIInv DEF IInv, LedgerInv
<1>2. LedgerInv /\ [NextWithRepair]_vars => LedgerInv'
  BY NextLedger, RepairLedger DEF NextWithRepair
<1> QED
  BY <1>1, <1>2, PTL DEF SpecWithRepair, LedgerInv

================================================================================
