-------------------------------- MODULE Fencing --------------------------------
(***************************************************************************)
(* Fenced ownership of one run: internal/store/lease.go, guarded.go and    *)
(* ownership.go.                                                           *)
(*                                                                         *)
(* Runs do not share lease rows, ledgers or ownership logs, so one run is  *)
(* modelled.  Procs are database sessions: the goroutines of one worker,   *)
(* the processes of several workers, and a process restarted under its old *)
(* name all look the same to the store, which sees only the owner name and *)
(* the token they present.  A session may present any token that was ever  *)
(* granted to its owner's name, however old.                               *)
(*                                                                         *)
(* Every store function takes `now' from its caller.  The model lets each  *)
(* call pass any time in Times, so nothing here depends on clocks agreeing *)
(* or on their moving forward.                                             *)
(*                                                                         *)
(* A transaction that locks the lease row is two steps, the locking read   *)
(* and the commit, with every other session free to move in between.  A    *)
(* claim (queue.go) begins one step earlier: it selects the run under the  *)
(* lock of the queue row alone, and reads the lease row unlocked.          *)
(***************************************************************************)
EXTENDS Integers, Sequences, FiniteSets

CONSTANTS
    Procs,       \* database sessions
    Owners,      \* owner names
    OwnerOf,     \* the name a session presents
    NoOwner,     \* the empty owner column
    NoProc,      \* nobody holds the row lock
    Times,       \* the clock readings callers pass
    TTL,         \* lease duration
    MaxFence,    \* bound: acquisitions explored
    MaxWrites,   \* bound: guarded writes explored
    MaxRejected  \* bound: recorded rejections explored

ASSUME FencingAssumption ==
    /\ OwnerOf \in [Procs -> Owners]
    /\ NoOwner \notin Owners
    /\ NoProc \notin Procs
    /\ Times \subseteq Int
    /\ TTL \in Nat \ {0}
    /\ MaxFence \in Nat
    /\ MaxWrites \in Nat
    /\ MaxRejected \in Nat

VARIABLES
    lease,       \* the run's row in run_leases
    lock,        \* the session holding that row FOR UPDATE
    tx,          \* each session's open transaction
    claim,       \* the claim that holds the run's queue row, and what it read
    granted,     \* fences handed out by AcquireRunLease: what sessions can present
    ledger,      \* guarded writes in commit order
    ownership    \* run_ownership_log

vars == <<lease, lock, tx, claim, granted, ledger, ownership>>

Fence == [owner : Owners, token : Nat]

Transitions == {"acquired", "released", "rejected"}

(* A run that was never leased has no row.  The placeholder an acquisition *)
(* inserts is replaced before its transaction commits, so a reader sees    *)
(* either no row or a fence of at least 1.                                 *)
HasRow == lease.fence # 0

NoFence == [owner |-> NoOwner, token |-> 0]

Tx(pc, f, seq) == [pc |-> pc, fence |-> f, seq |-> seq]

NoTx == Tx("none", NoFence, 0)

TxState ==
    [pc : {"none", "insert", "acquire", "guarded", "append"},
     fence : Fence \cup {NoFence},
     seq : Nat]

(* No claim holds the queue row. *)
NoClaim == [by |-> NoProc, now |-> 0, displaced |-> FALSE]

Init ==
    /\ lease = [owner |-> NoOwner, fence |-> 0, committed |-> 0, expires |-> 0]
    /\ lock = NoProc
    /\ tx = [p \in Procs |-> NoTx]
    /\ claim = NoClaim
    /\ granted = {}
    /\ ledger = << >>
    /\ ownership = << >>

(***************************************************************************)
(* Transactions and the row lock.                                          *)
(***************************************************************************)
Claiming(p) == claim.by = p

Idle(p) == tx[p] = NoTx /\ ~Claiming(p)

LockRow(p) == lock = NoProc /\ lock' = p

EndClaim(p) == claim' = IF Claiming(p) THEN NoClaim ELSE claim

EndTx(p) ==
    /\ tx' = [tx EXCEPT ![p] = NoTx]
    /\ lock' = NoProc
    /\ EndClaim(p)

(* Mutant: MAX(seq) of an empty log read without COALESCE. *)
MutNextSeqNoCoalesce == IF ownership = << >> THEN -1 ELSE Len(ownership) + 1

(* appendOwnershipTx: the next sequence number is read from the table. *)
NextSeq == Len(ownership) + 1

(* Only an acquisition has a previous owner and may be a takeover. *)
AppendOwnershipTx(seq, kind, o, token, previous, takeover) ==
    ownership' = Append(ownership,
        [seq |-> seq, kind |-> kind, owner |-> o, fence |-> token,
         previous |-> previous, takeover |-> takeover])

(* A transaction whose statement fails, or whose session dies, rolls back. *)
Rollback(p) ==
    /\ ~Idle(p)
    /\ tx' = [tx EXCEPT ![p] = NoTx]
    /\ lock' = IF lock = p THEN NoProc ELSE lock
    /\ EndClaim(p)
    /\ UNCHANGED <<lease, granted, ledger, ownership>>

(***************************************************************************)
(* Acquisition: AcquireRunLease on its own, or inside a claim.             *)
(***************************************************************************)
HeldByAnother(o, now) ==
    lease.owner # NoOwner /\ lease.owner # o /\ lease.expires > now

(* claimOnce selects the run when no other owner's live lease holds it.    *)
(* FOR UPDATE OF q locks the queue row, so one claim is under way at a     *)
(* time, and not the lease row it joins: what it reads there of an expired *)
(* owner, the claimant itself included, may be stale when it acquires.     *)
ClaimSelect(p, now) ==
    /\ Idle(p)
    /\ claim = NoClaim
    /\ lease.fence < MaxFence
    /\ ~HeldByAnother(OwnerOf[p], now)
    /\ claim' = [by |-> p, now |-> now,
                 displaced |-> lease.owner # NoOwner /\ lease.expires <= now]
    /\ UNCHANGED <<lease, lock, tx, granted, ledger, ownership>>

(* The first locking read.  With no row there is nothing to lock. *)
AcquireRead(p) ==
    /\ tx[p] = NoTx
    /\ lease.fence < MaxFence
    /\ \/ HasRow /\ LockRow(p) /\ tx' = [tx EXCEPT ![p] = Tx("acquire", NoFence, 0)]
       \/ ~HasRow /\ tx' = [tx EXCEPT ![p] = Tx("insert", NoFence, 0)] /\ UNCHANGED lock
    /\ UNCHANGED <<lease, claim, granted, ledger, ownership>>

(* Mutant: no placeholder; a session that saw no row upserts fence 1. *)
MutAcquireWithoutPlaceholder(p) ==
    LET o == OwnerOf[p]
    IN  /\ tx[p].pc = "insert"
        /\ lock = NoProc
        /\ lease' = [lease EXCEPT !.owner = o, !.fence = 1, !.expires = TTL]
        /\ granted' = granted \cup {[owner |-> o, token |-> 1]}
        /\ AppendOwnershipTx(NextSeq, "acquired", o, 1, NoOwner, FALSE)
        /\ EndTx(p)
        /\ UNCHANGED ledger

(* INSERT ... ON CONFLICT DO NOTHING and the locked re-read: a later       *)
(* inserter waits for the earlier transaction and then reads its row.      *)
AcquireInsert(p) ==
    /\ tx[p].pc = "insert"
    /\ LockRow(p)
    /\ tx' = [tx EXCEPT ![p] = Tx("acquire", NoFence, 0)]
    /\ UNCHANGED <<lease, claim, granted, ledger, ownership>>

(* A claim passes on the time it selected with. *)
CallTime(p, now) == Claiming(p) => now = claim.now

(* ErrLeaseHeld rolls the transaction back. *)
AcquireRefused(p, now) ==
    /\ tx[p].pc = "acquire"
    /\ CallTime(p, now)
    /\ HeldByAnother(OwnerOf[p], now)
    /\ EndTx(p)
    /\ UNCHANGED <<lease, granted, ledger, ownership>>

(* Mutant: the flag is only what the claim saw. *)
MutTakeoverAsClaimed(p) == Claiming(p) /\ claim.displaced

(* The logged flag: the claim found an expired owner, or another owner is  *)
(* displaced now.  AcquireRunLease passes no flag of its own.              *)
Takeover(p) ==
    \/ Claiming(p) /\ claim.displaced
    \/ lease.owner # NoOwner /\ lease.owner # OwnerOf[p]

(* Mutant: the upsert also resets committed_fence. *)
MutAcquireForgetsCommitted(p, now) ==
    LET o == OwnerOf[p]
        token == lease.fence + 1
    IN  /\ tx[p].pc = "acquire"
        /\ CallTime(p, now)
        /\ ~HeldByAnother(o, now)
        /\ lease.fence < MaxFence
        /\ lease' = [owner |-> o, fence |-> token, committed |-> 0, expires |-> now + TTL]
        /\ granted' = granted \cup {[owner |-> o, token |-> token]}
        /\ AppendOwnershipTx(NextSeq, "acquired", o, token, lease.owner, Takeover(p))
        /\ EndTx(p)
        /\ UNCHANGED ledger

(* Every acquisition raises the fence, also one by the current owner, and  *)
(* carries the committed fence over.                                       *)
AcquireCommit(p, now) ==
    LET o == OwnerOf[p]
        token == lease.fence + 1
    IN  /\ tx[p].pc = "acquire"
        /\ CallTime(p, now)
        /\ ~HeldByAnother(o, now)
        /\ lease.fence < MaxFence
        /\ lease' = [lease EXCEPT !.owner = o, !.fence = token, !.expires = now + TTL]
        /\ granted' = granted \cup {[owner |-> o, token |-> token]}
        /\ AppendOwnershipTx(NextSeq, "acquired", o, token, lease.owner, Takeover(p))
        /\ EndTx(p)
        /\ UNCHANGED ledger

(***************************************************************************)
(* RenewRunLease and ReleaseRunLease: one UPDATE each on the row, which    *)
(* waits for the row lock.  A fence that no longer matches changes nothing *)
(* and is reported as ErrFenced.                                           *)
(***************************************************************************)
Presents(p, f) == Idle(p) /\ f \in granted /\ f.owner = OwnerOf[p]

Matches(f) == lease.owner = f.owner /\ lease.fence = f.token

RenewRunLease(p, f, now) ==
    /\ Presents(p, f)
    /\ lock = NoProc
    /\ Matches(f)
    /\ lease.expires > now
    /\ lease' = [lease EXCEPT !.expires = now + TTL]
    /\ UNCHANGED <<lock, tx, claim, granted, ledger, ownership>>

(* An expired lease can still be released by its holder. *)
ReleaseRunLease(p, f, now) ==
    /\ Presents(p, f)
    /\ lock = NoProc
    /\ Matches(f)
    /\ lease' = [lease EXCEPT !.owner = NoOwner, !.expires = now]
    /\ AppendOwnershipTx(NextSeq, "released", f.owner, f.token, NoOwner, FALSE)
    /\ UNCHANGED <<lock, tx, claim, granted, ledger>>

(***************************************************************************)
(* GuardFenceTx, withGuardedTx.                                            *)
(***************************************************************************)

(* Mutant: only the committed fence and the clock are checked. *)
MutGuardIgnoresOwner(f, now) ==
    HasRow /\ f.token >= lease.committed /\ lease.expires > now

(* The three conditions of the guard. *)
GuardFence(f, now) ==
    /\ HasRow
    /\ f.token >= lease.committed
    /\ Matches(f)
    /\ lease.expires > now

(* Mutant: the guard reads the row without FOR UPDATE. *)
MutGuardUnlocked(p, f, now) ==
    /\ Presents(p, f)
    /\ Len(ledger) < MaxWrites
    /\ lock = NoProc
    /\ GuardFence(f, now)
    /\ tx' = [tx EXCEPT ![p] = Tx("guarded", f, 0)]
    /\ UNCHANGED <<lease, lock, claim, granted, ledger, ownership>>

(* The guard reads the row FOR UPDATE and the body starts. *)
GuardFenceTx(p, f, now) ==
    /\ Presents(p, f)
    /\ Len(ledger) < MaxWrites
    /\ GuardFence(f, now)
    /\ LockRow(p)
    /\ tx' = [tx EXCEPT ![p] = Tx("guarded", f, 0)]
    /\ UNCHANGED <<lease, claim, granted, ledger, ownership>>

(* The body's writes and the committed fence become durable together. *)
GuardedCommit(p) ==
    /\ tx[p].pc = "guarded"
    /\ lease' = [lease EXCEPT !.committed = tx[p].fence.token]
    /\ ledger' = Append(ledger, tx[p].fence)
    /\ EndTx(p)
    /\ UNCHANGED <<granted, ownership>>

(* Mutant: the appender does not lock the lease row. *)
MutAppendUnlocked(p) == UNCHANGED lock

(***************************************************************************)
(* RecordFenceRejection: a worker that was fenced out leaves a row in the  *)
(* ownership log.  AppendOwnership locks the lease row before it reads the *)
(* next sequence number.                                                   *)
(***************************************************************************)
LockOwnershipLog(p) == LockRow(p)

AppendOwnership(p, f, now) ==
    /\ Presents(p, f)
    /\ ~GuardFence(f, now)
    /\ Cardinality({i \in DOMAIN ownership : ownership[i].kind = "rejected"}) < MaxRejected
    /\ LockOwnershipLog(p)
    /\ tx' = [tx EXCEPT ![p] = Tx("append", f, NextSeq)]
    /\ UNCHANGED <<lease, claim, granted, ledger, ownership>>

RecordFenceRejection(p) ==
    /\ tx[p].pc = "append"
    /\ AppendOwnershipTx(tx[p].seq, "rejected", tx[p].fence.owner, tx[p].fence.token,
                         NoOwner, FALSE)
    /\ tx' = [tx EXCEPT ![p] = NoTx]
    /\ lock' = IF lock = p THEN NoProc ELSE lock
    /\ UNCHANGED <<lease, claim, granted, ledger>>

Step(p) ==
    \/ Rollback(p)
    \/ AcquireRead(p)
    \/ AcquireInsert(p)
    \/ \E now \in Times : ClaimSelect(p, now) \/ AcquireRefused(p, now) \/ AcquireCommit(p, now)
    \/ \E f \in granted, now \in Times :
           \/ RenewRunLease(p, f, now)
           \/ ReleaseRunLease(p, f, now)
           \/ GuardFenceTx(p, f, now)
           \/ AppendOwnership(p, f, now)
    \/ GuardedCommit(p)
    \/ RecordFenceRejection(p)

Next == \E p \in Procs : Step(p)

Spec == Init /\ [][Next]_vars

(***************************************************************************)
(* A restore or a repair by hand may put an earlier owner and fence back   *)
(* into the row.  The committed fence is what still refuses the tokens it  *)
(* superseded.  No code of the program does this, and no run: without a    *)
(* bound on repairs, FencingProofs shows what it leaves true.              *)
(***************************************************************************)
Repair(f, now) ==
    /\ lock = NoProc
    /\ lease' = [lease EXCEPT !.owner = f.owner, !.fence = f.token, !.expires = now + TTL]
    /\ UNCHANGED <<lock, tx, claim, granted, ledger, ownership>>

NextWithRepair == Next \/ \E f \in granted, now \in Times : Repair(f, now)

SpecWithRepair == Init /\ [][NextWithRepair]_vars

(***************************************************************************)
(* Properties.                                                             *)
(***************************************************************************)
LeaseRow == [owner : Owners \cup {NoOwner}, fence : Nat, committed : Nat, expires : Int]

OwnershipRow ==
    [seq : Nat, kind : Transitions, owner : Owners, fence : Nat,
     previous : Owners \cup {NoOwner}, takeover : BOOLEAN]

Claim == [by : Procs, now : Times, displaced : BOOLEAN]

(* The shape of the lease row, the open transactions and the two logs. *)
TypeOK ==
    /\ lease \in LeaseRow
    /\ lock \in Procs \cup {NoProc}
    /\ tx \in [Procs -> TxState]
    /\ \A p \in Procs : tx[p].pc \in {"guarded", "append"} => tx[p].fence \in Fence
    /\ claim \in Claim \cup {NoClaim}
    /\ granted \subseteq Fence
    /\ ledger \in Seq(Fence)
    /\ ownership \in Seq(OwnershipRow)

(* A fence token names one acquisition: two owners are never handed the    *)
(* same token, also when both found no lease row (acquireRunLeaseTx).      *)
TokensUnique ==
    \A f, g \in granted : f.token = g.token => f = g

(* The durable writes of a run never step back to an older token: once an  *)
(* owner has written, nobody it displaced writes after it (GuardFenceTx).  *)
LedgerOrdered ==
    \A i, j \in DOMAIN ledger : i < j => ledger[i].token <= ledger[j].token

(* committed_fence is the token of the latest durable write, and no        *)
(* acquisition has lowered or raised it.                                   *)
HighWaterMark ==
    /\ lease.committed <= lease.fence
    /\ lease.committed = IF ledger = << >> THEN 0 ELSE ledger[Len(ledger)].token

(* The ownership log's MAX(seq)+1 numbering never collides and leaves no   *)
(* gap, whatever the interleaving of acquisitions, releases and the        *)
(* rejections that stale workers record.                                   *)
OwnershipGapless ==
    \A i \in DOMAIN ownership : ownership[i].seq = i

(* Who a log says held the run after its first n rows. *)
LeaseMoves(log, n) == {i \in 1..n : log[i].kind # "rejected"}

LoggedHolder(log, n) ==
    IF LeaseMoves(log, n) = {} THEN NoOwner
    ELSE LET last == CHOOSE i \in LeaseMoves(log, n) : \A j \in LeaseMoves(log, n) : j <= i
         IN  IF log[last].kind = "acquired" THEN log[last].owner ELSE NoOwner

(* The audit log reconstructs ownership: its last lease transition names   *)
(* the row's holder, and the previous owner of every acquisition is the    *)
(* one the log shows.  Displacing another owner is always marked a         *)
(* takeover, and nothing is marked one before the run was ever held; a     *)
(* claim also marks the reclaim of the claimant's own expired lease, and a *)
(* release that slipped in after it had seen the lease expired.            *)
AuditTrail ==
    /\ LoggedHolder(ownership, Len(ownership)) = lease.owner
    /\ \A i \in DOMAIN ownership :
           ownership[i].kind = "acquired" =>
               /\ ownership[i].previous = LoggedHolder(ownership, i - 1)
               /\ ownership[i].previous \notin {NoOwner, ownership[i].owner} =>
                      ownership[i].takeover
               /\ ownership[i].takeover => LeaseMoves(ownership, i - 1) # {}

(* The lease protocol implements epochs with one writer each. *)
Log == INSTANCE FencedLog
         WITH epoch <- lease.fence, holder <- lease.owner, entries <- ledger

ImplementsFencedLog == Log!Spec

================================================================================
