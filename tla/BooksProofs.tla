----------------------------- MODULE BooksProofs ------------------------------
(***************************************************************************)
(* The books balance, no write commits outside its permission and reads    *)
(* show the world: proofs about Dispatch that follow one tool call through *)
(* the world and the ledger.                                               *)
(***************************************************************************)
EXTENDS DispatchProofs

(***************************************************************************)
(* Totals of a list of amounts.                                            *)
(***************************************************************************)

(* A list of n amounts has running totals. *)
LEMMA TotalsExist ==
  ASSUME NEW n \in Nat, NEW a, \A m \in 1..n : a[m] \in Int
  PROVE  \E g \in [0..n -> Int] : g[0] = 0 /\ \A m \in 1..n : g[m] = g[m - 1] + a[m]
<1> DEFINE Sums(g, x) == g \in [0..x -> Int] /\ g[0] = 0 /\ \A m \in 1..x : g[m] = g[m - 1] + a[m]
           T == {x \in 0..n : ~\E g : Sums(g, x)}
<1>1. SUFFICES T = {}
  <2>1. n \in 0..n /\ (n \notin T => \E g : Sums(g, n))
    OBVIOUS
  <2> QED
    BY <2>1
<1>2. SUFFICES ASSUME T # {} PROVE FALSE
  OBVIOUS
<1>3. T \subseteq Nat
  OBVIOUS
<1>4. PICK x \in T : \A y \in T : x <= y
  <2> HIDE DEF T
  <2> QED
    BY <1>2, <1>3, LeastNat
<1>5. x \in 0..n /\ ~\E g : Sums(g, x)
  OBVIOUS
<1>6. CASE x = 0
  <2> DEFINE g == [m \in 0..0 |-> 0]
  <2>1. Sums(g, 0)
    OBVIOUS
  <2> QED
    BY <1>5, <1>6, <2>1
<1>7. CASE x # 0
  <2>1. x - 1 \in 0..n /\ x - 1 \notin T
    <3>1. x - 1 \in 0..n /\ ~(x <= x - 1)
      BY <1>5, <1>7
    <3> HIDE DEF T
    <3> QED
      BY <1>4, <3>1
  <2>2. PICK g : Sums(g, x - 1)
    BY <2>1
  <2> DEFINE h == [m \in 0..x |-> IF m = x THEN g[x - 1] + a[x] ELSE g[m]]
  <2>3. a[x] \in Int /\ g[x - 1] \in Int
    BY <1>5, <1>7, <2>2
  <2>4. \A m \in 0..x : m # x => m \in 0..(x - 1) /\ h[m] = g[m] /\ g[m] \in Int
    BY <1>5, <2>2
  <2>5. h \in [0..x -> Int] /\ h[0] = 0
    BY <1>5, <1>7, <2>2, <2>3, <2>4
  <2>6. ASSUME NEW m \in 1..x PROVE h[m] = h[m - 1] + a[m]
    <3>1. CASE m = x
      BY <1>5, <1>7, <2>4, <3>1
    <3>2. CASE m # x
      BY <1>5, <1>7, <2>2, <2>4, <3>2
    <3> QED
      BY <3>1, <3>2
  <2>7. Sums(h, x)
    BY <2>5, <2>6
  <2> QED
    BY <1>5, <2>7
<1> QED
  BY <1>6, <1>7

(* What Total computes. *)
IsTotal(a, t) ==
    /\ t \in [0..Len(a) -> Int]
    /\ t[0] = 0
    /\ \A m \in 1..Len(a) : t[m] = t[m - 1] + a[m]

LEMMA TotalFacts ==
  ASSUME NEW a, Len(a) \in Nat, \A m \in 1..Len(a) : a[m] \in Int
  PROVE  IsTotal(a, Total(a))
<1> DEFINE Sum(g) == g = [n \in 0..Len(a) |-> IF n = 0 THEN 0 ELSE g[n - 1] + a[n]]
<1>1. PICK g \in [0..Len(a) -> Int] : g[0] = 0 /\ \A m \in 1..Len(a) : g[m] = g[m - 1] + a[m]
  BY TotalsExist
<1>2. Sum(g)
  <2>1. \A n \in 0..Len(a) : g[n] = IF n = 0 THEN 0 ELSE g[n - 1] + a[n]
    BY <1>1
  <2> QED
    BY <1>1, <2>1
<1>3. Total(a) = CHOOSE f : Sum(f)
  BY DEF Total
<1>4. Sum(Total(a))
  <2> DEFINE t == CHOOSE f : Sum(f)
  <2> HIDE DEF Sum
  <2>1. Sum(t)
    BY <1>2, Zenon
  <2> QED
    BY <1>3, <2>1
<1> DEFINE t == Total(a)
<1>5. /\ DOMAIN t = 0..Len(a) /\ t[0] = 0
      /\ \A m \in 1..Len(a) : t[m] = t[m - 1] + a[m]
  BY <1>4
<1> HIDE DEF t, Sum
<1>6. \A m \in 0..Len(a) : t[m] = g[m]
  <2> DEFINE T == {m \in 0..Len(a) : t[m] # g[m]}
  <2>1. SUFFICES ASSUME T # {} PROVE FALSE
    OBVIOUS
  <2>2. T \subseteq Nat
    OBVIOUS
  <2>3. PICK x \in T : \A y \in T : x <= y
    <3> HIDE DEF T
    <3> QED
      BY <2>1, <2>2, LeastNat
  <2>4. x \in 0..Len(a) /\ t[x] # g[x]
    OBVIOUS
  <2>5. x # 0
    BY <1>1, <1>5, <2>4
  <2>6. x - 1 \in 0..Len(a) /\ ~(x <= x - 1)
    BY <2>4, <2>5
  <2>7. t[x - 1] = g[x - 1]
    <3>1. x - 1 \notin T
      <4> HIDE DEF T
      <4> QED
        BY <2>3, <2>6
    <3> QED
      BY <2>6, <3>1
  <2>8. x \in 1..Len(a)
    BY <2>4, <2>5
  <2>9. t[x] = t[x - 1] + a[x] /\ g[x] = g[x - 1] + a[x]
    BY <1>1, <1>5, <2>8
  <2> QED
    BY <2>4, <2>7, <2>9
<1>7. t = [m \in 0..Len(a) |-> t[m]]
  BY <1>4 DEF Sum, t
<1>8. t \in [0..Len(a) -> Int]
  BY <1>1, <1>6, <1>7
<1> QED
  BY <1>5, <1>8 DEF IsTotal, t

(* A longer list has the same totals as far as the shorter one goes. *)
LEMMA TotalsAgree ==
  ASSUME NEW a, NEW b, NEW t, NEW u, IsTotal(a, t), IsTotal(b, u),
         Len(a) \in Nat, Len(b) \in Nat, Len(a) <= Len(b),
         \A m \in 1..Len(a) : b[m] = a[m]
  PROVE  \A m \in 0..Len(a) : u[m] = t[m]
<1> DEFINE T == {m \in 0..Len(a) : u[m] # t[m]}
<1>1. SUFFICES ASSUME T # {} PROVE FALSE
  OBVIOUS
<1>2. T \subseteq Nat
  OBVIOUS
<1>3. PICK x \in T : \A y \in T : x <= y
  <2> HIDE DEF T
  <2> QED
    BY <1>1, <1>2, LeastNat
<1>4. x \in 0..Len(a) /\ u[x] # t[x]
  OBVIOUS
<1>5. x # 0
  BY <1>4 DEF IsTotal
<1>6. x - 1 \in 0..Len(a) /\ ~(x <= x - 1)
  BY <1>4, <1>5
<1>7. u[x - 1] = t[x - 1]
  <2>1. x - 1 \notin T
    <3> HIDE DEF T
    <3> QED
      BY <1>3, <1>6
  <2> QED
    BY <1>6, <2>1
<1>8. x \in 1..Len(a) /\ x \in 1..Len(b)
  BY <1>4, <1>5
<1>9. t[x] = t[x - 1] + a[x] /\ u[x] = u[x - 1] + b[x] /\ b[x] = a[x]
  BY <1>8 DEF IsTotal
<1> QED
  BY <1>4, <1>7, <1>9

(***************************************************************************)
(* The writes a ledger tells of.                                           *)
(***************************************************************************)
WriteTypes == {"state.mutation", "chaos.actor_mutation"}

(* The events of ledger s that tell of a write by an operation. *)
WritesOf(s, op) == {k \in DOMAIN s : s[k].type \in WriteTypes /\ s[k].op = op}

(* Ledger t is s and then only events of these types. *)
Continues(s, t, types) ==
    /\ IsSeq(s) /\ IsSeq(t)
    /\ Len(s) <= Len(t)
    /\ \A k \in 1..Len(s) : t[k] = s[k]
    /\ \A k \in (Len(s) + 1)..Len(t) : t[k].type \in types

(* t tells of the same writes of an operation as s. *)
SameWrites(s, t, op) ==
    /\ WritesOf(t, op) = WritesOf(s, op)
    /\ \A k \in WritesOf(s, op) : t[k] = s[k]

(* t tells of one more write of an operation, m. *)
OneMoreWrite(s, t, op, m) ==
    /\ Len(s) \in Nat
    /\ WritesOf(s, op) \subseteq 1..Len(s)
    /\ WritesOf(t, op) = WritesOf(s, op) \cup {Len(s) + 1}
    /\ \A k \in WritesOf(s, op) : t[k] = s[k]
    /\ t[Len(s) + 1] = m

LEMMA SeqFacts ==
  ASSUME NEW s, IsSeq(s)
  PROVE  Len(s) \in Nat /\ DOMAIN s = 1..Len(s)
  BY DEF IsSeq

LEMMA ContinuesRefl ==
  ASSUME NEW s, IsSeq(s), NEW types
  PROVE  Continues(s, s, types)
  BY SeqFacts DEF Continues

LEMMA ContinuesTrans ==
  ASSUME NEW s, NEW t, NEW u, NEW types, Continues(s, t, types), Continues(t, u, types)
  PROVE  Continues(s, u, types)
<1>1. Len(s) \in Nat /\ Len(t) \in Nat /\ Len(u) \in Nat
  BY SeqFacts DEF Continues
<1>2. ASSUME NEW k \in (Len(s) + 1)..Len(u) PROVE u[k].type \in types
  <2>1. CASE k \in 1..Len(t)
    BY <1>1, <2>1 DEF Continues
  <2>2. CASE k \notin 1..Len(t)
    BY <1>1, <2>2 DEF Continues
  <2> QED
    BY <2>1, <2>2
<1> QED
  BY <1>1, <1>2 DEF Continues

LEMMA ContinuesMore ==
  ASSUME NEW s, NEW t, NEW types, NEW more, types \subseteq more, Continues(s, t, types)
  PROVE  Continues(s, t, more)
  BY DEF Continues

LEMMA ContinuesAppend ==
  ASSUME NEW s, IsSeq(s), NEW e, NEW types, e.type \in types
  PROVE  Continues(s, Append(s, e), types)
<1> DEFINE t == Append(s, e)
<1>1. /\ IsSeq(t) /\ Len(s) \in Nat /\ Len(t) = Len(s) + 1
      /\ \A k \in 1..Len(s) : t[k] = s[k]
      /\ t[Len(s) + 1] = e
  BY AppendFacts
<1> HIDE DEF t
<1>2. Continues(s, t, types)
  BY <1>1 DEF Continues
<1> QED
  BY <1>2 DEF t

(* Other events tell of no write. *)
LEMMA SameWritesContinue ==
  ASSUME NEW s, NEW t, NEW types, Continues(s, t, types), types \cap WriteTypes = {}, NEW op
  PROVE  SameWrites(s, t, op)
<1>1. /\ Len(s) \in Nat /\ DOMAIN s = 1..Len(s)
      /\ Len(t) \in Nat /\ DOMAIN t = 1..Len(t)
  BY SeqFacts DEF Continues
<1>2. \A k \in DOMAIN t : k \in DOMAIN s \/ k \in (Len(s) + 1)..Len(t)
  BY <1>1
<1>3. \A k \in DOMAIN s : k \in DOMAIN t /\ t[k] = s[k]
  BY <1>1 DEF Continues
<1>4. \A k \in DOMAIN t : t[k].type \in WriteTypes => k \in DOMAIN s
  BY <1>2 DEF Continues
<1> QED
  BY <1>3, <1>4 DEF SameWrites, WritesOf

(* A write is told once, as a write of its operation. *)
LEMMA WriteAppend ==
  ASSUME NEW s, IsSeq(s), NEW m, m.type \in WriteTypes, NEW op
  PROVE  /\ m.op = op => OneMoreWrite(s, Append(s, m), op, m)
         /\ m.op # op => SameWrites(s, Append(s, m), op)
<1> DEFINE t == Append(s, m)
<1>1. /\ IsSeq(t) /\ Len(s) \in Nat /\ DOMAIN s = 1..Len(s) /\ DOMAIN t = 1..(Len(s) + 1)
      /\ \A k \in 1..Len(s) : t[k] = s[k]
      /\ t[Len(s) + 1] = m
  BY AppendFacts
<1> HIDE DEF t
<1>2. DOMAIN t = DOMAIN s \cup {Len(s) + 1} /\ Len(s) + 1 \notin DOMAIN s
  BY <1>1
<1>3. m.op = op => WritesOf(t, op) = WritesOf(s, op) \cup {Len(s) + 1}
  BY <1>1, <1>2 DEF WritesOf
<1>4. m.op # op => WritesOf(t, op) = WritesOf(s, op)
  BY <1>1, <1>2 DEF WritesOf
<1>5. WritesOf(s, op) \subseteq 1..Len(s)
  BY <1>1 DEF WritesOf
<1> QED
  BY <1>1, <1>3, <1>4, <1>5 DEF OneMoreWrite, SameWrites, t

(* What a write's event says. *)
LEMMA MutationFacts ==
  ASSUME NEW type, NEW row, NEW call
  PROVE  LET m == Mutation(type, row, call)
         IN  /\ m.type = type /\ m.op = call.op /\ m.row = row
             /\ m.target = call.target /\ m.amount = call.amount
             /\ call.op \in {"crmUpdateAccountStatus", "ticketTransitionIssue"} => m.text = call.text
  BY Zenon DEF Mutation

(***************************************************************************)
(* What a handler that wrote has done to the world.                        *)
(***************************************************************************)
Leaves(w, v, tables) == DOMAIN v = Tables /\ \A t \in Tables \ tables : v[t] = w[t]

Refunded(seed, w, row, call, v) ==
    /\ call.op = "createRefund"
    /\ call.target \in ChargeIds(seed)
    /\ ~(call.amount > Charged(seed, call.target) - w.refunded[call.target])
    /\ v.refunds = w.refunds \cup {[id |-> row, charge |-> call.target, amount |-> call.amount]}
    /\ v.refunded = [w.refunded EXCEPT ![call.target] = w.refunded[call.target] + call.amount]
    /\ Leaves(w, v, {"refunds", "refunded"})

Noted(seed, w, row, call, v) ==
    /\ call.op = "crmAddAccountNote"
    /\ v.notes = w.notes \cup {[id |-> row, account |-> call.target, body |-> call.text]}
    /\ Leaves(w, v, {"notes"})

StatusSet(seed, w, row, call, v) ==
    /\ call.op = "crmUpdateAccountStatus"
    /\ call.target \in DOMAIN seed.accounts
    /\ v.status = [w.status EXCEPT ![call.target] = call.text]
    /\ Leaves(w, v, {"status"})

Opened(seed, w, row, call, v) ==
    /\ call.op = "ticketCreateIssue"
    /\ v.issues = w.issues \cup {NewIssue(row, call)}
    /\ Leaves(w, v, {"issues"})

Commented(seed, w, row, call, v) ==
    /\ call.op = "ticketAddComment"
    /\ v.comments = w.comments \cup {[id |-> row, issue |-> call.target, body |-> call.text]}
    /\ Leaves(w, v, {"comments"})

Moved(seed, w, row, call, v) ==
    /\ call.op = "ticketTransitionIssue"
    /\ \E i \in w.issues :
          /\ i.id = call.target
          /\ <<i.status, call.text>> \in Transitions
          /\ v.issues = (w.issues \ {i}) \cup {[i EXCEPT !.status = call.text]}
    /\ Leaves(w, v, {"issues"})

Posted(seed, w, row, call, v) ==
    /\ call.op = "messagePostMessage"
    /\ v.messages = w.messages \cup {[id |-> row, channel |-> call.target, body |-> call.text]}
    /\ Leaves(w, v, {"messages"})

Wrote(seed, w, row, call, v) ==
    \/ Refunded(seed, w, row, call, v)
    \/ Noted(seed, w, row, call, v)
    \/ StatusSet(seed, w, row, call, v)
    \/ Opened(seed, w, row, call, v)
    \/ Commented(seed, w, row, call, v)
    \/ Moved(seed, w, row, call, v)
    \/ Posted(seed, w, row, call, v)

(* A handler's report: it wrote, or left the world as it was. *)
Reports(seed, w, row, call, h) ==
    /\ h.mutated => Wrote(seed, w, row, call, h.world)
    /\ ~h.mutated => h.world = w

LEMMA ReadReports ==
  ASSUME NEW seed, NEW w, NEW row, NEW call
  PROVE  /\ \A answer : Reports(seed, w, row, call, Read(w, answer))
         /\ \A status, text : Reports(seed, w, row, call, Refuse(w, status, text))
  BY DEF Reports, Read, Refuse, Handled

LEMMA BillingReports ==
  ASSUME NEW seed, NEW w, DOMAIN w = Tables, NEW row, NEW call, call.op \in Billing
  PROVE  Reports(seed, w, row, call, BillingHandle(seed, w, row, call))
<1> DEFINE h == BillingHandle(seed, w, row, call)
           c == createRefund(seed, w, row, call)
           Fine(x) == \/ \E answer : x = Read(w, answer)
                      \/ \E status, text : x = Refuse(w, status, text)
                      \/ call.op = "createRefund" /\ call.target \in ChargeIds(seed) /\ x = c
<1>1. Fine(h)
  <2>1. /\ \A answer : Fine(Read(w, answer))
        /\ \A status, text : Fine(Refuse(w, status, text))
        /\ call.op = "createRefund" /\ call.target \in ChargeIds(seed) => Fine(c)
    BY Zenon
  <2> HIDE DEF Fine
  <2>2. CASE call.op = "getCustomer"
    BY <2>1, <2>2, ZenonT(60) DEF BillingHandle
  <2>3. CASE call.op = "getSubscription"
    BY <2>1, <2>3, ZenonT(60) DEF BillingHandle
  <2>4. CASE call.op = "listInvoices"
    BY <2>1, <2>4, ZenonT(60) DEF BillingHandle
  <2>5. CASE call.op = "listCharges"
    BY <2>1, <2>5, ZenonT(60) DEF BillingHandle
  <2>6. CASE call.op = "getCharge"
    BY <2>1, <2>6, ZenonT(60) DEF BillingHandle
  <2>7. CASE call.op = "createRefund" /\ (call.target = "" \/ call.text = "")
    BY <2>1, <2>7, ZenonT(60) DEF BillingHandle
  <2>8. CASE call.op = "createRefund" /\ call.target # "" /\ call.text # "" /\ call.amount <= 0
    BY <2>1, <2>8, ZenonT(60) DEF BillingHandle
  <2>9. CASE call.op = "createRefund" /\ call.target # "" /\ call.text # "" /\ ~(call.amount <= 0)
    BY <2>1, <2>9, ZenonT(60) DEF BillingHandle
  <2> QED
    BY <2>2, <2>3, <2>4, <2>5, <2>6, <2>7, <2>8, <2>9, Zenon DEF Billing
<1>2. ASSUME call.op = "createRefund", call.target \in ChargeIds(seed)
      PROVE  Reports(seed, w, row, call, c)
  <2> DEFINE v == [w EXCEPT !.refunds = w.refunds \cup {[id |-> row, charge |-> call.target, amount |-> call.amount]},
                            !.refunded = [w.refunded EXCEPT ![call.target] = w.refunded[call.target] + call.amount]]
  <2>1. \/ \E status, text : c = Refuse(w, status, text)
        \/ /\ ~(call.amount > Charged(seed, call.target) - w.refunded[call.target])
           /\ c.mutated = TRUE /\ c.world = v
    BY DEF createRefund, Handled
  <2>2. /\ v.refunds = w.refunds \cup {[id |-> row, charge |-> call.target, amount |-> call.amount]}
        /\ v.refunded = [w.refunded EXCEPT ![call.target] = w.refunded[call.target] + call.amount]
        /\ Leaves(w, v, {"refunds", "refunded"})
    BY DEF Leaves, Tables
  <2> HIDE DEF c, v
  <2>3. ASSUME ~(call.amount > Charged(seed, call.target) - w.refunded[call.target]),
               c.mutated = TRUE, c.world = v
        PROVE  Reports(seed, w, row, call, c)
    <3>1. Refunded(seed, w, row, call, v)
      BY <1>2, <2>2, <2>3 DEF Refunded
    <3> QED
      BY <2>3, <3>1 DEF Reports, Wrote
  <2> QED
    BY <2>1, <2>3, ReadReports
<1> HIDE DEF h, c
<1>3. Reports(seed, w, row, call, h)
  BY <1>1, <1>2, ReadReports
<1> QED
  BY <1>3 DEF h

LEMMA CrmReports ==
  ASSUME NEW seed, NEW w, DOMAIN w = Tables, NEW row, NEW call, call.op \in Crm
  PROVE  Reports(seed, w, row, call, CrmHandle(seed, w, row, call))
<1> DEFINE h == CrmHandle(seed, w, row, call)
           n == [w EXCEPT !.notes = w.notes \cup {[id |-> row, account |-> call.target, body |-> call.text]}]
           u == [w EXCEPT !.status = [w.status EXCEPT ![call.target] = call.text]]
           Fine(x) == \/ \E answer : x = Read(w, answer)
                      \/ \E status, text : x = Refuse(w, status, text)
                      \/ call.op = "crmAddAccountNote" /\ \E answer : x = Handled(n, answer, TRUE)
                      \/ /\ call.op = "crmUpdateAccountStatus" /\ call.target \in DOMAIN seed.accounts
                         /\ \E answer : x = Handled(u, answer, TRUE)
           Bad == \/ call.target = ""
                  \/ call.op = "crmAddAccountNote" /\ call.text = ""
                  \/ call.op = "crmUpdateAccountStatus" /\ call.text \notin AccountStatuses
<1>1. Fine(h)
  <2>1. /\ \A answer : Fine(Read(w, answer))
        /\ \A status, text : Fine(Refuse(w, status, text))
        /\ call.op = "crmAddAccountNote" => \A answer : Fine(Handled(n, answer, TRUE))
        /\ call.op = "crmUpdateAccountStatus" /\ call.target \in DOMAIN seed.accounts =>
              \A answer : Fine(Handled(u, answer, TRUE))
    BY Zenon
  <2> HIDE DEF Fine
  <2>2. CASE call.op = "crmSearchAccounts"
    BY <2>1, <2>2, ZenonT(60) DEF CrmHandle
  <2>3. CASE call.op # "crmSearchAccounts" /\ Bad
    BY <2>1, <2>3, ZenonT(60) DEF CrmHandle
  <2>4. CASE call.op = "crmGetAccount" /\ ~Bad
    BY <2>1, <2>4, ZenonT(60) DEF CrmHandle
  <2>5. CASE call.op = "crmAddAccountNote" /\ ~Bad
    BY <2>1, <2>5, ZenonT(60) DEF CrmHandle
  <2>6. CASE call.op = "crmUpdateAccountStatus" /\ ~Bad
    BY <2>1, <2>6, ZenonT(60) DEF CrmHandle
  <2> QED
    BY <2>2, <2>3, <2>4, <2>5, <2>6, Zenon DEF Crm
<1>2. /\ n.notes = w.notes \cup {[id |-> row, account |-> call.target, body |-> call.text]}
      /\ Leaves(w, n, {"notes"})
  BY DEF Leaves, Tables
<1>3. /\ u.status = [w.status EXCEPT ![call.target] = call.text]
      /\ Leaves(w, u, {"status"})
  BY DEF Leaves, Tables
<1> HIDE DEF h, n, u
<1>4. ASSUME call.op = "crmAddAccountNote", NEW answer, h = Handled(n, answer, TRUE)
      PROVE  Reports(seed, w, row, call, h)
  <2>1. h.mutated = TRUE /\ h.world = n
    BY <1>4 DEF Handled
  <2>2. Noted(seed, w, row, call, n)
    BY <1>2, <1>4 DEF Noted
  <2> QED
    BY <2>1, <2>2 DEF Reports, Wrote
<1>5. ASSUME call.op = "crmUpdateAccountStatus", call.target \in DOMAIN seed.accounts,
             NEW answer, h = Handled(u, answer, TRUE)
      PROVE  Reports(seed, w, row, call, h)
  <2>1. h.mutated = TRUE /\ h.world = u
    BY <1>5 DEF Handled
  <2>2. StatusSet(seed, w, row, call, u)
    BY <1>3, <1>5 DEF StatusSet
  <2> QED
    BY <2>1, <2>2 DEF Reports, Wrote
<1>6. Reports(seed, w, row, call, h)
  BY <1>1, <1>4, <1>5, ReadReports
<1> QED
  BY <1>6 DEF h

LEMMA TicketReports ==
  ASSUME NEW seed, NEW w, DOMAIN w = Tables, NEW row, NEW call, call.op \in Ticketing
  PROVE  Reports(seed, w, row, call, TicketHandle(seed, w, row, call))
<1> DEFINE h == TicketHandle(seed, w, row, call)
           n == [w EXCEPT !.issues = w.issues \cup {NewIssue(row, call)}]
           i == CHOOSE j \in loadIssue(w, call.target) : TRUE
           o == OnIssue(w, row, call, i)
           c == [w EXCEPT !.comments = w.comments \cup {[id |-> row, issue |-> i.id, body |-> call.text]}]
           u == [w EXCEPT !.issues = (w.issues \ {i}) \cup {[i EXCEPT !.status = call.text]}]
           Fine(x) == \/ \E answer : x = Read(w, answer)
                      \/ \E status, text : x = Refuse(w, status, text)
                      \/ call.op = "ticketCreateIssue" /\ \E answer : x = Handled(n, answer, TRUE)
                      \/ /\ call.op \in {"ticketAddComment", "ticketTransitionIssue"}
                         /\ loadIssue(w, call.target) # {} /\ x = o
           Bad == \/ call.target = ""
                  \/ call.op \in {"ticketCreateIssue", "ticketAddComment"} /\ call.text = ""
                  \/ call.op = "ticketTransitionIssue" /\ call.text \notin IssueStatuses
<1>1. Fine(h)
  <2>1. /\ \A answer : Fine(Read(w, answer))
        /\ \A status, text : Fine(Refuse(w, status, text))
        /\ call.op = "ticketCreateIssue" => \A answer : Fine(Handled(n, answer, TRUE))
        /\ call.op \in {"ticketAddComment", "ticketTransitionIssue"} /\ loadIssue(w, call.target) # {} => Fine(o)
    BY Zenon
  <2> HIDE DEF Fine
  <2>2. CASE Bad
    BY <2>1, <2>2, ZenonT(60) DEF TicketHandle
  <2>3. CASE ~Bad /\ call.op = "ticketCreateIssue"
    BY <2>1, <2>3, ZenonT(60) DEF TicketHandle
  <2>4. CASE ~Bad /\ call.op = "ticketSearchIssues"
    BY <2>1, <2>4, ZenonT(60) DEF TicketHandle
  <2>5. CASE ~Bad /\ call.op = "ticketGetIssue"
    BY <2>1, <2>5, ZenonT(60) DEF TicketHandle
  <2>6. CASE ~Bad /\ call.op \in {"ticketAddComment", "ticketTransitionIssue"}
    BY <2>1, <2>6, ZenonT(60) DEF TicketHandle
  <2> QED
    BY <2>2, <2>3, <2>4, <2>5, <2>6, Zenon DEF Ticketing
<1>2. n.issues = w.issues \cup {NewIssue(row, call)} /\ Leaves(w, n, {"issues"})
  BY DEF Leaves, Tables
<1>3. /\ c.comments = w.comments \cup {[id |-> row, issue |-> i.id, body |-> call.text]}
      /\ Leaves(w, c, {"comments"})
  BY DEF Leaves, Tables
<1>4. /\ u.issues = (w.issues \ {i}) \cup {[i EXCEPT !.status = call.text]}
      /\ Leaves(w, u, {"issues"})
  BY DEF Leaves, Tables
<1>5. \/ call.op = "ticketAddComment" /\ \E answer : o = Handled(c, answer, TRUE)
      \/ call.op # "ticketAddComment" /\ \E status, text : o = Refuse(w, status, text)
      \/ /\ call.op # "ticketAddComment" /\ <<i.status, call.text>> \in Transitions
         /\ \E answer : o = Handled(u, answer, TRUE)
  <2> HIDE DEF i
  <2>1. CASE call.op = "ticketAddComment"
    <3>1. o = Handled(c, Answer(201, "comment", 0), TRUE)
      BY <2>1 DEF OnIssue
    <3> QED
      BY <2>1, <3>1
  <2>2. CASE call.op # "ticketAddComment" /\ <<i.status, call.text>> \notin Transitions
    <3>1. \E status, text : o = Refuse(w, status, text)
      BY <2>2, ZenonT(30) DEF OnIssue
    <3> QED
      BY <2>2, <3>1
  <2>3. CASE call.op # "ticketAddComment" /\ <<i.status, call.text>> \in Transitions
    <3>1. o = Handled(u, IssueBody(200, [i EXCEPT !.status = call.text]), TRUE)
      BY <2>3 DEF OnIssue
    <3> QED
      BY <2>3, <3>1
  <2> QED
    BY <2>1, <2>2, <2>3
<1>6. loadIssue(w, call.target) # {} => i \in w.issues /\ i.id = call.target
  BY DEF loadIssue
<1> HIDE DEF h, n, c, u, i, o
<1>7. ASSUME call.op = "ticketCreateIssue", NEW answer, h = Handled(n, answer, TRUE)
      PROVE  Reports(seed, w, row, call, h)
  <2>1. h.mutated = TRUE /\ h.world = n
    BY <1>7 DEF Handled
  <2>2. Opened(seed, w, row, call, n)
    BY <1>2, <1>7 DEF Opened
  <2> QED
    BY <2>1, <2>2 DEF Reports, Wrote
<1>8. ASSUME call.op = "ticketAddComment", loadIssue(w, call.target) # {}, NEW answer, o = Handled(c, answer, TRUE)
      PROVE  Reports(seed, w, row, call, o)
  <2>1. o.mutated = TRUE /\ o.world = c
    BY <1>8 DEF Handled
  <2>2. Commented(seed, w, row, call, c)
    BY <1>3, <1>6, <1>8 DEF Commented
  <2> QED
    BY <2>1, <2>2 DEF Reports, Wrote
<1>9. ASSUME call.op = "ticketTransitionIssue", loadIssue(w, call.target) # {},
             <<i.status, call.text>> \in Transitions, NEW answer, o = Handled(u, answer, TRUE)
      PROVE  Reports(seed, w, row, call, o)
  <2>1. o.mutated = TRUE /\ o.world = u
    BY <1>9 DEF Handled
  <2>2. Moved(seed, w, row, call, u)
    BY <1>4, <1>6, <1>9 DEF Moved
  <2> QED
    BY <2>1, <2>2 DEF Reports, Wrote
<1>10. Reports(seed, w, row, call, h)
  BY <1>1, <1>5, <1>7, <1>8, <1>9, ReadReports
<1> QED
  BY <1>10 DEF h

LEMMA MessageReports ==
  ASSUME NEW seed, NEW w, DOMAIN w = Tables, NEW row, NEW call, call.op \in Messaging
  PROVE  Reports(seed, w, row, call, MessageHandle(seed, w, row, call))
<1> DEFINE h == MessageHandle(seed, w, row, call)
           n == [w EXCEPT !.messages = w.messages \cup {[id |-> row, channel |-> call.target, body |-> call.text]}]
           Fine(x) == \/ \E answer : x = Read(w, answer)
                      \/ \E status, text : x = Refuse(w, status, text)
                      \/ call.op = "messagePostMessage" /\ \E answer : x = Handled(n, answer, TRUE)
<1>1. Fine(h)
  <2>1. /\ \A answer : Fine(Read(w, answer))
        /\ \A status, text : Fine(Refuse(w, status, text))
        /\ call.op = "messagePostMessage" => \A answer : Fine(Handled(n, answer, TRUE))
    BY Zenon
  <2> HIDE DEF Fine
  <2>2. CASE call.op = "messageListChannels"
    BY <2>1, <2>2, ZenonT(60) DEF MessageHandle
  <2>3. CASE call.op = "messageReadChannel"
    BY <2>1, <2>3, ZenonT(60) DEF MessageHandle
  <2>4. CASE call.op = "messagePostMessage"
    BY <2>1, <2>4, ZenonT(60) DEF MessageHandle
  <2> QED
    BY <2>2, <2>3, <2>4, Zenon DEF Messaging
<1>2. /\ n.messages = w.messages \cup {[id |-> row, channel |-> call.target, body |-> call.text]}
      /\ Leaves(w, n, {"messages"})
  BY DEF Leaves, Tables
<1> HIDE DEF h, n
<1>3. ASSUME call.op = "messagePostMessage", NEW answer, h = Handled(n, answer, TRUE)
      PROVE  Reports(seed, w, row, call, h)
  <2>1. h.mutated = TRUE /\ h.world = n
    BY <1>3 DEF Handled
  <2>2. Posted(seed, w, row, call, n)
    BY <1>2, <1>3 DEF Posted
  <2> QED
    BY <2>1, <2>2 DEF Reports, Wrote
<1>4. Reports(seed, w, row, call, h)
  BY <1>1, <1>3, ReadReports
<1> QED
  BY <1>4 DEF h

(* The registered behaviours write what their operations say, and say so. *)
LEMMA HandleReports ==
  ASSUME NEW seed, NEW w, DOMAIN w = Tables, NEW row, NEW call, call.op \in Operations
  PROVE  Reports(seed, w, row, call, Handle(seed, w, row, call))
  BY BillingReports, CrmReports, TicketReports, MessageReports DEF Handle, Operations

(***************************************************************************)
(* The books: what the ledger s says of the tables of world w, one         *)
(* operation at a time.                                                    *)
(***************************************************************************)
RefundRow(m) == [id |-> m.row, charge |-> m.target, amount |-> m.amount]

RefundsBooked(w, s) ==
    LET told == WritesOf(s, "createRefund")
    IN  /\ w.refunds = {RefundRow(s[k]) : k \in told}
        /\ IsFiniteSet(told) /\ IsFiniteSet(w.refunds)
        /\ Cardinality(told) = Cardinality(w.refunds)

MoneyBooked(seed, w, s) ==
    /\ w.refunded \in [ChargeIds(seed) -> Int]
    /\ \A k \in WritesOf(s, "createRefund") : s[k].amount \in Int
    /\ \A c \in ChargeIds(seed) :
          /\ w.refunded[c] = Total(RefundsIn(s, c))[Len(s)]
          /\ w.refunded[c] <= Charged(seed, c)

MadeIn(s, op) == {<<s[k].row, s[k].target>> : k \in WritesOf(s, op)}

NotesBooked(seed, w, s) ==
    {<<n.id, n.account>> : n \in w.notes \ seed.notes} = MadeIn(s, "crmAddAccountNote")

MessagesBooked(w, s) ==
    {<<m.id, m.channel>> : m \in w.messages} = MadeIn(s, "messagePostMessage")

CommentsBooked(seed, w, s) ==
    {<<c.id, c.issue>> : c \in w.comments \ seed.comments} = MadeIn(s, "ticketAddComment")

IssueIds(w) == {i.id : i \in w.issues}

IssuesBooked(seed, w, s) ==
    /\ IssueIds(w) = IssueIds(seed) \cup {IssueName(made[1]) : made \in MadeIn(s, "ticketCreateIssue")}
    /\ \A i \in w.issues : DOMAIN i = {"id", "project", "account", "status"}
    /\ \A i, j \in w.issues : i.id = j.id => i = j

(* The writes of an operation on one target. *)
WritesOn(s, op, target) == {k \in WritesOf(s, op) : s[k].target = target}

StatusBooked(seed, w, s) ==
    /\ DOMAIN w.status = DOMAIN seed.accounts
    /\ \A a \in DOMAIN seed.accounts :
          LET set == WritesOn(s, "crmUpdateAccountStatus", a)
          IN  w.status[a] = IF set = {} THEN seed.accounts[a].status ELSE s[Max(set)].text

(* An issue has come as far as its moves tell. *)
HasMoved(s, i) ==
    LET moves == WritesOn(s, "ticketTransitionIssue", i.id)
    IN  \/ i.status = "open" /\ moves = {}
        \/ i.status = "in_progress" /\ \E a : moves = {a} /\ s[a].text = "in_progress"
        \/ /\ i.status = "resolved"
           /\ \E a, b : /\ moves = {a, b} /\ a < b
                        /\ s[a].text = "in_progress" /\ s[b].text = "resolved"

MovesBooked(w, s) ==
    /\ \A k \in WritesOf(s, "ticketTransitionIssue") : s[k].target \in IssueIds(w)
    /\ \A i \in w.issues : HasMoved(s, i)

Booked(seed, w, s) ==
    /\ RefundsBooked(w, s)
    /\ MoneyBooked(seed, w, s)
    /\ NotesBooked(seed, w, s)
    /\ MessagesBooked(w, s)
    /\ CommentsBooked(seed, w, s)
    /\ IssuesBooked(seed, w, s)
    /\ StatusBooked(seed, w, s)
    /\ MovesBooked(w, s)

(* The seed's rows are keyed and whole, and named apart from a run's. *)
Seeded(seed) ==
    /\ \A i \in DOMAIN seed.charges : seed.charges[i].amount \in Nat
    /\ \A row \in seed.notes \cup seed.comments : row.id.run = "SEED"
    /\ \A i \in seed.issues : DOMAIN i = {"id", "project", "account", "status"} /\ i.status = "open"
    /\ \A i, j \in seed.issues : i.id = j.id => i = j

LEMMA ChargedNat ==
  ASSUME NEW seed, Seeded(seed), NEW c \in ChargeIds(seed)
  PROVE  Charged(seed, c) \in Nat
<1> DEFINE S == seed.charges
           i == CHOOSE j \in DOMAIN S : S[j].id = c
<1>1. i \in DOMAIN S
  BY DEF ChargeIds
<1> QED
  BY <1>1 DEF Charged, ChargeOf, Seeded

-------------------------------------------------------------------------------
(* Each book but the money is kept by what changes neither its table nor   *)
(* the writes of its operation.                                            *)
LEMMA RefundsKept ==
  ASSUME NEW w, NEW s, RefundsBooked(w, s), NEW v, NEW t,
         v.refunds = w.refunds, SameWrites(s, t, "createRefund")
  PROVE  RefundsBooked(v, t)
<1>1. {RefundRow(t[k]) : k \in WritesOf(t, "createRefund")} = {RefundRow(s[k]) : k \in WritesOf(s, "createRefund")}
  BY DEF SameWrites
<1> QED
  BY <1>1 DEF RefundsBooked, SameWrites

LEMMA MadeKept ==
  ASSUME NEW s, NEW t, NEW op, SameWrites(s, t, op)
  PROVE  MadeIn(t, op) = MadeIn(s, op)
  BY DEF SameWrites, MadeIn

LEMMA IssuesKept ==
  ASSUME NEW seed, NEW w, NEW s, IssuesBooked(seed, w, s), NEW v, NEW t,
         v.issues = w.issues, SameWrites(s, t, "ticketCreateIssue")
  PROVE  IssuesBooked(seed, v, t)
  BY MadeKept DEF IssuesBooked, IssueIds

LEMMA OnKept ==
  ASSUME NEW s, NEW t, NEW op, SameWrites(s, t, op), NEW target
  PROVE  /\ WritesOn(t, op, target) = WritesOn(s, op, target)
         /\ \A k \in WritesOn(s, op, target) : t[k] = s[k]
  BY DEF SameWrites, WritesOn

(* The latest of some events. *)
LEMMA MaxFacts ==
  ASSUME NEW S, S \subseteq Nat, NEW x \in S, \A y \in S : y <= x
  PROVE  Max(S) = x
<1> DEFINE P(z) == z \in S /\ \A y \in S : z >= y
<1>1. P(x)
  OBVIOUS
<1>2. \A z : P(z) => z = x
  <2> SUFFICES ASSUME NEW z, P(z) PROVE z = x
    OBVIOUS
  <2> QED
    BY <1>1
<1>3. Max(S) = CHOOSE z \in S : \A y \in S : z >= y
  BY DEF Max
<1> QED
  BY <1>1, <1>2, <1>3

LEMMA LatestNat ==
  ASSUME NEW n \in Nat, NEW S, S \subseteq 1..n, S # {}
  PROVE  Max(S) \in S /\ \A y \in S : y <= Max(S)
<1> DEFINE T == {n - y : y \in S}
<1>1. T \subseteq Nat /\ T # {}
  <2>1. \A y \in S : n - y \in Nat
    OBVIOUS
  <2>2. PICK y : y \in S
    OBVIOUS
  <2>3. n - y \in T
    BY <2>2
  <2> QED
    BY <2>1, <2>3
<1>2. PICK z \in T : \A y \in T : z <= y
  <2> HIDE DEF T
  <2> QED
    BY <1>1, LeastNat
<1>3. PICK x \in S : z = n - x
  OBVIOUS
<1>4. \A y \in S : y <= x
  <2> TAKE y \in S
  <2>1. n - y \in T
    OBVIOUS
  <2>2. z <= n - y
    <3> HIDE DEF T
    <3> QED
      BY <1>2, <2>1
  <2> QED
    BY <1>3, <2>2
<1>5. Max(S) = x
  <2>1. S \subseteq Nat
    OBVIOUS
  <2> HIDE DEF T
  <2> QED
    BY <1>4, <2>1, MaxFacts
<1> QED
  BY <1>4, <1>5

LEMMA StatusKept ==
  ASSUME NEW seed, NEW w, NEW s, IsSeq(s), StatusBooked(seed, w, s), NEW v, NEW t,
         v.status = w.status, SameWrites(s, t, "crmUpdateAccountStatus")
  PROVE  StatusBooked(seed, v, t)
<1> SUFFICES ASSUME NEW a \in DOMAIN seed.accounts
             PROVE  LET set == WritesOn(t, "crmUpdateAccountStatus", a)
                    IN  v.status[a] = IF set = {} THEN seed.accounts[a].status ELSE t[Max(set)].text
  BY DEF StatusBooked
<1> DEFINE set == WritesOn(s, "crmUpdateAccountStatus", a)
<1>1. /\ WritesOn(t, "crmUpdateAccountStatus", a) = set
      /\ \A k \in set : t[k] = s[k]
  BY OnKept
<1>2. set \subseteq 1..Len(s) /\ Len(s) \in Nat
  BY SeqFacts DEF WritesOn, WritesOf
<1>3. set # {} => Max(set) \in set
  <2> HIDE DEF set
  <2> QED
    BY <1>2, LatestNat
<1>4. v.status[a] = IF set = {} THEN seed.accounts[a].status ELSE s[Max(set)].text
  BY DEF StatusBooked
<1> HIDE DEF set
<1> QED
  BY <1>1, <1>3, <1>4

LEMMA MovesKept ==
  ASSUME NEW w, NEW s, MovesBooked(w, s), NEW v, NEW t,
         v.issues = w.issues, SameWrites(s, t, "ticketTransitionIssue")
  PROVE  MovesBooked(v, t)
<1>1. ASSUME NEW i \in w.issues PROVE HasMoved(t, i)
  <2> DEFINE moves == WritesOn(s, "ticketTransitionIssue", i.id)
  <2>1. WritesOn(t, "ticketTransitionIssue", i.id) = moves /\ \A k \in moves : t[k] = s[k]
    BY OnKept
  <2>2. HasMoved(s, i)
    BY DEF MovesBooked
  <2> QED
    BY <2>1, <2>2 DEF HasMoved
<1>2. \A k \in WritesOf(t, "ticketTransitionIssue") : t[k].target \in IssueIds(v)
  BY DEF MovesBooked, SameWrites, IssueIds
<1> QED
  BY <1>1, <1>2 DEF MovesBooked

-------------------------------------------------------------------------------
(* The money.                                                              *)

(* A list is as long as the amounts taken from it. *)
LEMMA RefundsInFacts ==
  ASSUME NEW s, IsSeq(s), \A k \in WritesOf(s, "createRefund") : s[k].amount \in Int, NEW c
  PROVE  LET a == RefundsIn(s, c)
         IN  /\ Len(a) = Len(s) /\ Len(s) \in Nat
             /\ \A m \in 1..Len(s) : a[m] \in Int
             /\ \A m \in 1..Len(s) :
                   a[m] = IF m \in WritesOf(s, "createRefund") /\ s[m].target = c THEN s[m].amount ELSE 0
             /\ IsTotal(a, Total(a))
<1> DEFINE a == RefundsIn(s, c)
<1>1. Len(s) \in Nat /\ DOMAIN s = 1..Len(s)
  BY SeqFacts
<1>2. \A m \in 1..Len(s) :
          a[m] = IF m \in WritesOf(s, "createRefund") /\ s[m].target = c THEN s[m].amount ELSE 0
  BY <1>1 DEF RefundsIn, WritesOf, WriteTypes
<1>3. a = [m \in 1..Len(s) |-> a[m]]
  BY <1>1 DEF RefundsIn
<1> HIDE DEF a
<1>4. \A m \in 1..Len(s) : a[m] \in Int
  BY <1>2
<1>5. Len(a) = Len(s)
  BY <1>1, <1>3, <1>4
<1>6. IsTotal(a, Total(a))
  BY <1>1, <1>4, <1>5, TotalFacts
<1> QED
  BY <1>1, <1>2, <1>4, <1>5, <1>6 DEF a

(* A total stands still while nothing is added. *)
LEMMA TotalFlat ==
  ASSUME NEW a, NEW t, IsTotal(a, t), Len(a) \in Nat, NEW n \in 0..Len(a),
         \A m \in (n + 1)..Len(a) : a[m] = 0
  PROVE  t[Len(a)] = t[n]
<1> DEFINE T == {m \in n..Len(a) : t[m] # t[n]}
<1>1. SUFFICES ASSUME T # {} PROVE FALSE
  <2>1. Len(a) \in n..Len(a)
    OBVIOUS
  <2> QED
    BY <2>1
<1>2. T \subseteq Nat
  OBVIOUS
<1>3. PICK x \in T : \A y \in T : x <= y
  <2> HIDE DEF T
  <2> QED
    BY <1>1, <1>2, LeastNat
<1>4. x \in n..Len(a) /\ t[x] # t[n]
  OBVIOUS
<1>5. x # n /\ x - 1 \in n..Len(a) /\ ~(x <= x - 1) /\ x \in (n + 1)..Len(a) /\ x \in 1..Len(a)
  BY <1>4
<1>6. t[x - 1] = t[n]
  <2>1. x - 1 \notin T
    <3> HIDE DEF T
    <3> QED
      BY <1>3, <1>5
  <2> QED
    BY <1>5, <2>1
<1>7. t[x] = t[x - 1] + a[x] /\ a[x] = 0 /\ t[x - 1] \in Int
  BY <1>5 DEF IsTotal
<1> QED
  BY <1>4, <1>6, <1>7

(* Events that refund nothing move no money. *)
LEMMA TotalKept ==
  ASSUME NEW s, NEW t, IsSeq(s), IsSeq(t), Len(s) <= Len(t), \A k \in 1..Len(s) : t[k] = s[k],
         SameWrites(s, t, "createRefund"),
         \A k \in WritesOf(s, "createRefund") : s[k].amount \in Int, NEW c
  PROVE  /\ \A k \in WritesOf(t, "createRefund") : t[k].amount \in Int
         /\ Total(RefundsIn(t, c))[Len(t)] = Total(RefundsIn(s, c))[Len(s)]
<1> DEFINE a == RefundsIn(s, c)
           b == RefundsIn(t, c)
<1>1. \A k \in WritesOf(t, "createRefund") : t[k].amount \in Int
  BY DEF SameWrites
<1>2. /\ Len(a) = Len(s) /\ Len(s) \in Nat /\ IsTotal(a, Total(a))
      /\ \A m \in 1..Len(s) :
            a[m] = IF m \in WritesOf(s, "createRefund") /\ s[m].target = c THEN s[m].amount ELSE 0
  BY RefundsInFacts
<1>3. /\ Len(b) = Len(t) /\ Len(t) \in Nat /\ IsTotal(b, Total(b))
      /\ \A m \in 1..Len(t) :
            b[m] = IF m \in WritesOf(t, "createRefund") /\ t[m].target = c THEN t[m].amount ELSE 0
  BY <1>1, RefundsInFacts
<1> HIDE DEF a, b
<1>4. \A m \in 1..Len(a) : b[m] = a[m]
  BY <1>2, <1>3 DEF SameWrites
<1>5. \A m \in (Len(s) + 1)..Len(b) : b[m] = 0
  <2>1. WritesOf(s, "createRefund") \subseteq 1..Len(s)
    BY SeqFacts DEF WritesOf
  <2>2. \A m \in (Len(s) + 1)..Len(b) : m \in 1..Len(t) /\ m \notin WritesOf(t, "createRefund")
    BY <1>2, <1>3, <2>1 DEF SameWrites
  <2> QED
    BY <1>3, <2>2
<1>6. Len(s) \in 0..Len(b) /\ Len(s) \in 0..Len(a)
  BY <1>2, <1>3
<1>7. Total(b)[Len(s)] = Total(a)[Len(s)]
  BY <1>2, <1>3, <1>4, <1>6, TotalsAgree
<1>8. Total(b)[Len(b)] = Total(b)[Len(s)]
  BY <1>3, <1>5, <1>6, TotalFlat
<1> QED
  BY <1>1, <1>3, <1>7, <1>8 DEF a, b

LEMMA MoneyKept ==
  ASSUME NEW seed, NEW w, NEW s, MoneyBooked(seed, w, s), NEW v, NEW t,
         IsSeq(s), IsSeq(t), Len(s) <= Len(t), \A k \in 1..Len(s) : t[k] = s[k],
         v.refunded = w.refunded, SameWrites(s, t, "createRefund")
  PROVE  MoneyBooked(seed, v, t)
<1>1. \A k \in WritesOf(s, "createRefund") : s[k].amount \in Int
  BY DEF MoneyBooked
<1>2. \A k \in WritesOf(t, "createRefund") : t[k].amount \in Int
  BY <1>1, TotalKept
<1>3. ASSUME NEW c \in ChargeIds(seed)
      PROVE  v.refunded[c] = Total(RefundsIn(t, c))[Len(t)] /\ v.refunded[c] <= Charged(seed, c)
  <2>1. Total(RefundsIn(t, c))[Len(t)] = Total(RefundsIn(s, c))[Len(s)]
    BY <1>1, TotalKept
  <2> QED
    BY <2>1 DEF MoneyBooked
<1> QED
  BY <1>2, <1>3 DEF MoneyBooked

(* A refund moves what its event says, on its charge alone. *)
LEMMA MoneyMoves ==
  ASSUME NEW seed, Seeded(seed), NEW w, NEW s, MoneyBooked(seed, w, s), NEW v, IsSeq(s),
         NEW row, NEW call, call.amount \in Int, Refunded(seed, w, row, call, v),
         NEW m, m.type \in WriteTypes, m.op = "createRefund", m.target = call.target, m.amount = call.amount
  PROVE  MoneyBooked(seed, v, Append(s, m))
<1> DEFINE t == Append(s, m)
           n == Len(s) + 1
<1>1. OneMoreWrite(s, t, "createRefund", m)
  BY WriteAppend
<1>2. /\ IsSeq(t) /\ Len(s) \in Nat /\ Len(t) = n /\ t[n] = m
      /\ \A k \in 1..Len(s) : t[k] = s[k]
  BY AppendFacts
<1> HIDE DEF t
<1>3. \A k \in WritesOf(t, "createRefund") : t[k].amount \in Int
  <2>1. \A k \in WritesOf(s, "createRefund") : s[k].amount \in Int
    BY DEF MoneyBooked
  <2> QED
    BY <1>1, <1>2, <2>1 DEF OneMoreWrite
<1>4. v.refunded = [w.refunded EXCEPT ![call.target] = w.refunded[call.target] + call.amount]
  BY DEF Refunded
<1>5. call.target \in ChargeIds(seed) /\ w.refunded \in [ChargeIds(seed) -> Int]
  BY DEF Refunded, MoneyBooked
<1>6. v.refunded \in [ChargeIds(seed) -> Int]
  BY <1>4, <1>5
<1>7. ASSUME NEW c \in ChargeIds(seed)
      PROVE  v.refunded[c] = Total(RefundsIn(t, c))[Len(t)] /\ v.refunded[c] <= Charged(seed, c)
  <2> DEFINE a == RefundsIn(s, c)
             b == RefundsIn(t, c)
  <2>1. /\ Len(a) = Len(s) /\ IsTotal(a, Total(a))
        /\ \A k \in 1..Len(s) :
              a[k] = IF k \in WritesOf(s, "createRefund") /\ s[k].target = c THEN s[k].amount ELSE 0
    BY RefundsInFacts DEF MoneyBooked
  <2>2. /\ Len(b) = n /\ IsTotal(b, Total(b))
        /\ \A k \in 1..n :
              b[k] = IF k \in WritesOf(t, "createRefund") /\ t[k].target = c THEN t[k].amount ELSE 0
    BY <1>2, <1>3, RefundsInFacts
  <2> HIDE DEF a, b
  <2>3. \A k \in 1..Len(a) : b[k] = a[k]
    <3> TAKE k \in 1..Len(a)
    <3>1. k \in 1..n /\ k # n /\ k \in 1..Len(s)
      BY <1>2, <2>1
    <3>2. t[k] = s[k] /\ (k \in WritesOf(t, "createRefund") <=> k \in WritesOf(s, "createRefund"))
      BY <1>1, <1>2, <3>1 DEF OneMoreWrite
    <3> QED
      BY <2>1, <2>2, <3>1, <3>2
  <2>4. Total(b)[Len(s)] = Total(a)[Len(s)]
    <3>1. Len(s) \in 0..Len(a) /\ Len(a) \in Nat /\ Len(b) \in Nat /\ Len(a) <= Len(b)
      BY <1>2, <2>1, <2>2
    <3> QED
      BY <2>1, <2>2, <2>3, <3>1, TotalsAgree
  <2>5. n \in 1..Len(b) /\ n - 1 = Len(s)
    BY <1>2, <2>2
  <2>6. Total(b)[n] = Total(b)[Len(s)] + b[n]
    BY <2>2, <2>5 DEF IsTotal
  <2>7. b[n] = IF c = call.target THEN call.amount ELSE 0
    BY <1>1, <1>2, <2>2, <2>5 DEF OneMoreWrite
  <2>8. w.refunded[c] = Total(a)[Len(s)] /\ w.refunded[c] <= Charged(seed, c)
    BY DEF MoneyBooked, a
  <2>9. v.refunded[c] = w.refunded[c] + b[n] /\ w.refunded[c] \in Int
    BY <1>4, <1>5, <2>7
  <2>10. v.refunded[c] <= Charged(seed, c)
    <3>1. Charged(seed, c) \in Nat /\ Charged(seed, call.target) \in Nat
      BY <1>5, ChargedNat
    <3>2. CASE c = call.target
      <4>1. ~(call.amount > Charged(seed, c) - w.refunded[c])
        BY <3>2 DEF Refunded
      <4> QED
        BY <2>7, <2>9, <3>1, <3>2, <4>1
    <3>3. CASE c # call.target
      BY <2>7, <2>8, <2>9, <3>1, <3>3
    <3> QED
      BY <3>2, <3>3
  <2>11. v.refunded[c] = Total(b)[n]
    BY <2>4, <2>6, <2>8, <2>9
  <2> QED
    BY <1>2, <2>10, <2>11 DEF b
<1>8. MoneyBooked(seed, v, t)
  BY <1>3, <1>6, <1>7 DEF MoneyBooked
<1> QED
  BY <1>8 DEF t

-------------------------------------------------------------------------------
(* A write is booked.                                                      *)

(* m is the event of a write by this call, which named its row. *)
Tells(m, row, call) ==
    /\ m.type \in WriteTypes /\ m.op = call.op /\ m.row = row
    /\ m.target = call.target /\ m.amount = call.amount
    /\ call.op \in {"crmUpdateAccountStatus", "ticketTransitionIssue"} => m.text = call.text

(* No write the ledger tells of made this row. *)
NewRow(s, row) == \A k \in DOMAIN s : s[k].type \in WriteTypes => s[k].row # row

LEMMA RefundBooks ==
  ASSUME NEW seed, NEW w, NEW s, IsSeq(s), RefundsBooked(w, s), NEW v, NEW row, NEW call,
         Refunded(seed, w, row, call, v), NEW m, Tells(m, row, call), NewRow(s, row)
  PROVE  RefundsBooked(v, Append(s, m))
<1> DEFINE t == Append(s, m)
           told == WritesOf(s, "createRefund")
           n == Len(s) + 1
           new == [id |-> row, charge |-> call.target, amount |-> call.amount]
<1>1. OneMoreWrite(s, t, "createRefund", m)
  BY WriteAppend DEF Refunded, Tells
<1>2. n \notin told /\ WritesOf(t, "createRefund") = told \cup {n}
  BY <1>1 DEF OneMoreWrite
<1>3. RefundRow(m) = new
  BY DEF RefundRow, Tells
<1>4. v.refunds = w.refunds \cup {new}
  BY DEF Refunded
<1>5. new \notin w.refunds
  <2> SUFFICES ASSUME NEW k \in told, new = RefundRow(s[k]) PROVE FALSE
    BY DEF RefundsBooked
  <2>1. s[k].row = row
    BY DEF RefundRow
  <2> QED
    BY <2>1 DEF NewRow, WritesOf
<1>6. /\ \A k \in told : t[k] = s[k]
      /\ t[n] = m
  BY <1>1 DEF OneMoreWrite
<1>7. w.refunds = {RefundRow(s[k]) : k \in told}
  BY DEF RefundsBooked
<1>8. IsFiniteSet(told) /\ IsFiniteSet(w.refunds) /\ Cardinality(told) = Cardinality(w.refunds)
  BY DEF RefundsBooked
<1> HIDE DEF t, told, n, new
<1>9. v.refunds = {RefundRow(t[k]) : k \in WritesOf(t, "createRefund")}
  BY <1>2, <1>3, <1>4, <1>6, <1>7
<1>10. /\ IsFiniteSet(told \cup {n}) /\ Cardinality(told \cup {n}) = Cardinality(told) + 1
       /\ IsFiniteSet(w.refunds \cup {new}) /\ Cardinality(w.refunds \cup {new}) = Cardinality(w.refunds) + 1
  BY <1>2, <1>5, <1>8, FS_AddElement
<1>11. RefundsBooked(v, t)
  BY <1>2, <1>4, <1>8, <1>9, <1>10 DEF RefundsBooked
<1> QED
  BY <1>11 DEF t

LEMMA MadeGrows ==
  ASSUME NEW s, NEW t, NEW op, NEW m, OneMoreWrite(s, t, op, m)
  PROVE  MadeIn(t, op) = MadeIn(s, op) \cup {<<m.row, m.target>>}
  BY DEF OneMoreWrite, MadeIn

LEMMA NoteBooks ==
  ASSUME NEW seed, Seeded(seed), NEW w, NEW s, IsSeq(s), NotesBooked(seed, w, s), NEW v, NEW row, NEW call,
         Noted(seed, w, row, call, v), NEW m, Tells(m, row, call), row.run # "SEED"
  PROVE  NotesBooked(seed, v, Append(s, m))
<1> DEFINE t == Append(s, m)
           new == [id |-> row, account |-> call.target, body |-> call.text]
<1>1. OneMoreWrite(s, t, "crmAddAccountNote", m)
  BY WriteAppend DEF Noted, Tells
<1>2. MadeIn(t, "crmAddAccountNote") = MadeIn(s, "crmAddAccountNote") \cup {<<row, call.target>>}
  BY <1>1, MadeGrows DEF Tells
<1>3. new \notin seed.notes /\ new.id = row /\ new.account = call.target
  BY DEF Seeded
<1>4. v.notes = w.notes \cup {new}
  BY DEF Noted
<1> HIDE DEF t, new
<1>5. v.notes \ seed.notes = (w.notes \ seed.notes) \cup {new}
  BY <1>3, <1>4
<1>6. {<<n.id, n.account>> : n \in v.notes \ seed.notes} =
          {<<n.id, n.account>> : n \in w.notes \ seed.notes} \cup {<<row, call.target>>}
  BY <1>3, <1>5
<1> QED
  BY <1>2, <1>6 DEF NotesBooked, t

LEMMA CommentBooks ==
  ASSUME NEW seed, Seeded(seed), NEW w, NEW s, IsSeq(s), CommentsBooked(seed, w, s), NEW v, NEW row, NEW call,
         Commented(seed, w, row, call, v), NEW m, Tells(m, row, call), row.run # "SEED"
  PROVE  CommentsBooked(seed, v, Append(s, m))
<1> DEFINE t == Append(s, m)
           new == [id |-> row, issue |-> call.target, body |-> call.text]
<1>1. OneMoreWrite(s, t, "ticketAddComment", m)
  BY WriteAppend DEF Commented, Tells
<1>2. MadeIn(t, "ticketAddComment") = MadeIn(s, "ticketAddComment") \cup {<<row, call.target>>}
  BY <1>1, MadeGrows DEF Tells
<1>3. new \notin seed.comments /\ new.id = row /\ new.issue = call.target
  BY DEF Seeded
<1>4. v.comments = w.comments \cup {new}
  BY DEF Commented
<1> HIDE DEF t, new
<1>5. v.comments \ seed.comments = (w.comments \ seed.comments) \cup {new}
  BY <1>3, <1>4
<1>6. {<<c.id, c.issue>> : c \in v.comments \ seed.comments} =
          {<<c.id, c.issue>> : c \in w.comments \ seed.comments} \cup {<<row, call.target>>}
  BY <1>3, <1>5
<1> QED
  BY <1>2, <1>6 DEF CommentsBooked, t

LEMMA MessageBooks ==
  ASSUME NEW seed, NEW w, NEW s, IsSeq(s), MessagesBooked(w, s), NEW v, NEW row, NEW call,
         Posted(seed, w, row, call, v), NEW m, Tells(m, row, call)
  PROVE  MessagesBooked(v, Append(s, m))
<1> DEFINE t == Append(s, m)
           new == [id |-> row, channel |-> call.target, body |-> call.text]
<1>1. OneMoreWrite(s, t, "messagePostMessage", m)
  BY WriteAppend DEF Posted, Tells
<1>2. MadeIn(t, "messagePostMessage") = MadeIn(s, "messagePostMessage") \cup {<<row, call.target>>}
  BY <1>1, MadeGrows DEF Tells
<1>3. new.id = row /\ new.channel = call.target
  OBVIOUS
<1>4. v.messages = w.messages \cup {new}
  BY DEF Posted
<1> HIDE DEF t, new
<1>5. {<<n.id, n.channel>> : n \in v.messages} =
          {<<n.id, n.channel>> : n \in w.messages} \cup {<<row, call.target>>}
  BY <1>3, <1>4
<1> QED
  BY <1>2, <1>5 DEF MessagesBooked, t

(* A new issue is known by the name of its row. *)
LEMMA IssueBooks ==
  ASSUME NEW seed, NEW w, NEW s, IsSeq(s), IssuesBooked(seed, w, s), MovesBooked(w, s), NEW v, NEW row, NEW call,
         Opened(seed, w, row, call, v), NEW m, Tells(m, row, call), IssueName(row) \notin IssueIds(w)
  PROVE  IssuesBooked(seed, v, Append(s, m)) /\ MovesBooked(v, Append(s, m))
<1> DEFINE t == Append(s, m)
           new == NewIssue(row, call)
           op == "ticketCreateIssue"
<1>1. OneMoreWrite(s, t, op, m) /\ SameWrites(s, t, "ticketTransitionIssue")
  BY WriteAppend DEF Opened, Tells
<1>2. MadeIn(t, op) = MadeIn(s, op) \cup {<<row, call.target>>}
  BY <1>1, MadeGrows DEF Tells
<1>3. new.id = IssueName(row) /\ DOMAIN new = {"id", "project", "account", "status"} /\ new.status = "open"
  BY DEF NewIssue
<1>4. v.issues = w.issues \cup {new}
  BY DEF Opened
<1> HIDE DEF t, new, op
<1>5. IssueIds(v) = IssueIds(w) \cup {IssueName(row)}
  BY <1>3, <1>4 DEF IssueIds
<1>6. {IssueName(made[1]) : made \in MadeIn(t, op)} = {IssueName(made[1]) : made \in MadeIn(s, op)} \cup {IssueName(row)}
  <2> DEFINE pair == <<row, call.target>>
  <2>1. pair[1] = row /\ MadeIn(t, op) = MadeIn(s, op) \cup {pair}
    BY <1>2
  <2> HIDE DEF pair
  <2> QED
    BY <2>1
<1>7. \A i, j \in v.issues : i.id = j.id => i = j
  BY <1>3, <1>4 DEF IssuesBooked, IssueIds
<1>8. IssuesBooked(seed, v, t)
  BY <1>3, <1>4, <1>5, <1>6, <1>7 DEF IssuesBooked, op
<1>9. MovesBooked(w, t)
  BY <1>1, MovesKept
<1>10. HasMoved(t, new)
  <2>1. WritesOn(t, "ticketTransitionIssue", IssueName(row)) = {}
    BY <1>9 DEF WritesOn, MovesBooked
  <2> QED
    BY <1>3, <2>1 DEF HasMoved
<1>11. MovesBooked(v, t)
  BY <1>4, <1>5, <1>9, <1>10 DEF MovesBooked
<1> QED
  BY <1>8, <1>11 DEF t

(* The writes on a target when there is one more. *)
LEMMA OnGrows ==
  ASSUME NEW s, NEW t, NEW op, NEW m, OneMoreWrite(s, t, op, m), NEW target
  PROVE  /\ m.target = target => WritesOn(t, op, target) = WritesOn(s, op, target) \cup {Len(s) + 1}
         /\ m.target # target => WritesOn(t, op, target) = WritesOn(s, op, target)
         /\ \A k \in WritesOn(s, op, target) : t[k] = s[k] /\ k \in 1..Len(s)
  BY DEF OneMoreWrite, WritesOn

LEMMA AccountBooks ==
  ASSUME NEW seed, NEW w, NEW s, IsSeq(s), StatusBooked(seed, w, s), NEW v, NEW row, NEW call,
         StatusSet(seed, w, row, call, v), NEW m, Tells(m, row, call)
  PROVE  StatusBooked(seed, v, Append(s, m))
<1> DEFINE t == Append(s, m)
           op == "crmUpdateAccountStatus"
           n == Len(s) + 1
<1>1. OneMoreWrite(s, t, op, m)
  BY WriteAppend DEF StatusSet, Tells
<1>2. v.status = [w.status EXCEPT ![call.target] = call.text] /\ call.target \in DOMAIN seed.accounts
  BY DEF StatusSet
<1>3. DOMAIN v.status = DOMAIN seed.accounts
  BY <1>2 DEF StatusBooked
<1> HIDE DEF t
<1>4. ASSUME NEW a \in DOMAIN seed.accounts
      PROVE  LET set == WritesOn(t, op, a)
             IN  v.status[a] = IF set = {} THEN seed.accounts[a].status ELSE t[Max(set)].text
  <2> DEFINE old == WritesOn(s, op, a)
             set == WritesOn(t, op, a)
  <2>1. /\ call.target = a => set = old \cup {n}
        /\ call.target # a => set = old
        /\ \A k \in old : t[k] = s[k] /\ k \in 1..Len(s)
    BY <1>1, OnGrows DEF Tells
  <2>2. Len(s) \in Nat /\ t[n] = m /\ m.text = call.text
    BY <1>1 DEF OneMoreWrite, Tells, StatusSet
  <2>3. w.status[a] = IF old = {} THEN seed.accounts[a].status ELSE s[Max(old)].text
    BY DEF StatusBooked
  <2> HIDE DEF old, set
  <2>4. CASE call.target = a
    <3>1. set \subseteq Nat /\ n \in set /\ \A k \in set : k <= n
      BY <2>1, <2>2, <2>4
    <3>2. Max(set) = n
      BY <3>1, MaxFacts
    <3>3. v.status[a] = call.text
      BY <1>2, <1>3, <2>4
    <3> QED
      BY <2>2, <3>1, <3>2, <3>3 DEF set
  <2>5. CASE call.target # a
    <3>1. v.status[a] = w.status[a]
      BY <1>2, <1>3, <2>5
    <3>2. old # {} => Max(old) \in old
      BY <2>1, <2>2, LatestNat
    <3> QED
      BY <2>1, <2>3, <2>5, <3>1, <3>2 DEF set
  <2> QED
    BY <2>4, <2>5
<1>5. StatusBooked(seed, v, t)
  BY <1>3, <1>4 DEF StatusBooked
<1> QED
  BY <1>5 DEF t

(* A move takes its issue one status on. *)
LEMMA MoveBooks ==
  ASSUME NEW seed, NEW w, NEW s, IsSeq(s), IssuesBooked(seed, w, s), MovesBooked(w, s), NEW v, NEW row, NEW call,
         Moved(seed, w, row, call, v), NEW m, Tells(m, row, call)
  PROVE  IssuesBooked(seed, v, Append(s, m)) /\ MovesBooked(v, Append(s, m))
<1> DEFINE t == Append(s, m)
           op == "ticketTransitionIssue"
           n == Len(s) + 1
<1>1. OneMoreWrite(s, t, op, m) /\ SameWrites(s, t, "ticketCreateIssue")
  BY WriteAppend DEF Moved, Tells
<1>2. PICK i \in w.issues : /\ i.id = call.target
                            /\ <<i.status, call.text>> \in Transitions
                            /\ v.issues = (w.issues \ {i}) \cup {[i EXCEPT !.status = call.text]}
  BY DEF Moved
<1> DEFINE new == [i EXCEPT !.status = call.text]
<1>3. DOMAIN i = {"id", "project", "account", "status"}
  BY DEF IssuesBooked
<1>4. DOMAIN new = {"id", "project", "account", "status"} /\ new.id = i.id /\ new.status = call.text
  BY <1>3
<1>5. v.issues = (w.issues \ {i}) \cup {new}
  BY <1>2
<1>6. Len(s) \in Nat /\ t[n] = m /\ m.text = call.text /\ m.target = i.id
  BY <1>1, <1>2 DEF OneMoreWrite, Tells, Moved
<1> HIDE DEF t, new, op
<1>7. IssueIds(v) = IssueIds(w)
  BY <1>4, <1>5 DEF IssueIds
<1>8. \A j, k \in v.issues : j.id = k.id => j = k
  BY <1>4, <1>5 DEF IssuesBooked
<1>9. IssuesBooked(seed, v, t)
  BY <1>1, <1>4, <1>5, <1>7, <1>8, MadeKept DEF IssuesBooked
<1>10. \A k \in WritesOf(t, op) : t[k].target \in IssueIds(v)
  <2>1. i.id \in IssueIds(w)
    BY DEF IssueIds
  <2> QED
    BY <1>1, <1>6, <1>7, <2>1 DEF OneMoreWrite, MovesBooked, op
<1>11. HasMoved(t, new)
  <2> DEFINE old == WritesOn(s, op, i.id)
             moves == WritesOn(t, op, i.id)
  <2>1. moves = old \cup {n} /\ \A k \in old : t[k] = s[k] /\ k \in 1..Len(s)
    <3>1. OneMoreWrite(s, t, op, m) /\ m.target = i.id
      BY <1>1, <1>6
    <3> QED
      BY <3>1, OnGrows
  <2>2. HasMoved(s, i)
    BY DEF MovesBooked
  <2>3. \/ i.status = "open" /\ call.text = "in_progress"
        \/ i.status = "in_progress" /\ call.text = "resolved"
    BY <1>2 DEF Transitions
  <2>4. CASE i.status = "open" /\ call.text = "in_progress"
    <3>1. old = {}
      BY <2>2, <2>4 DEF HasMoved, op
    <3>2. moves = {n} /\ t[n].text = "in_progress"
      BY <1>6, <2>1, <2>4, <3>1
    <3> QED
      BY <1>4, <2>4, <3>2 DEF HasMoved, op
  <2>5. CASE i.status = "in_progress" /\ call.text = "resolved"
    <3>1. PICK a : old = {a} /\ s[a].text = "in_progress"
      BY <2>2, <2>5 DEF HasMoved, op
    <3>2. moves = {a, n} /\ a < n /\ t[a].text = "in_progress" /\ t[n].text = "resolved"
      BY <1>6, <2>1, <2>5, <3>1
    <3> QED
      BY <1>4, <2>5, <3>2 DEF HasMoved, op
  <2> QED
    BY <2>3, <2>4, <2>5
<1>12. ASSUME NEW j \in w.issues, j # i PROVE HasMoved(t, j)
  <2> DEFINE moves == WritesOn(s, op, j.id)
  <2>1. j.id # i.id
    BY <1>12 DEF IssuesBooked
  <2>2. WritesOn(t, op, j.id) = moves /\ \A k \in moves : t[k] = s[k]
    BY <1>1, <1>6, <2>1, OnGrows
  <2>3. HasMoved(s, j)
    BY DEF MovesBooked
  <2> QED
    BY <2>2, <2>3 DEF HasMoved, op
<1>13. MovesBooked(v, t)
  BY <1>5, <1>10, <1>11, <1>12 DEF MovesBooked, op
<1> QED
  BY <1>9, <1>13 DEF t

-------------------------------------------------------------------------------
(* The books are kept by every event that tells of no write.               *)
LEMMA BookedAside ==
  ASSUME NEW seed, NEW w, NEW s, Booked(seed, w, s),
         NEW t, NEW types, Continues(s, t, types), types \cap WriteTypes = {}
  PROVE  Booked(seed, w, t)
<1>1. \A op : SameWrites(s, t, op)
  BY SameWritesContinue
<1>2. /\ IsSeq(s) /\ IsSeq(t) /\ Len(s) <= Len(t)
      /\ \A k \in 1..Len(s) : t[k] = s[k]
  BY DEF Continues
<1>3. RefundsBooked(w, t)
  BY <1>1, RefundsKept DEF Booked
<1>4. MoneyBooked(seed, w, t)
  BY <1>1, <1>2, MoneyKept DEF Booked
<1>5. \A op : MadeIn(t, op) = MadeIn(s, op)
  BY <1>1, MadeKept
<1>6. NotesBooked(seed, w, t) /\ MessagesBooked(w, t) /\ CommentsBooked(seed, w, t)
  BY <1>5 DEF Booked, NotesBooked, MessagesBooked, CommentsBooked
<1>7. IssuesBooked(seed, w, t)
  BY <1>1, IssuesKept DEF Booked
<1>8. StatusBooked(seed, w, t)
  BY <1>1, <1>2, StatusKept DEF Booked
<1>9. MovesBooked(w, t)
  BY <1>1, MovesKept DEF Booked
<1> QED
  BY <1>3, <1>4, <1>6, <1>7, <1>8, <1>9 DEF Booked

(* A write leaves the tables of other operations alone. *)
LEMMA LeavesTables ==
  ASSUME NEW w, NEW v, NEW tables, Leaves(w, v, tables)
  PROVE  /\ "refunds" \notin tables => v.refunds = w.refunds
         /\ "refunded" \notin tables => v.refunded = w.refunded
         /\ "status" \notin tables => v.status = w.status
         /\ "notes" \notin tables => v.notes = w.notes
         /\ "issues" \notin tables => v.issues = w.issues
         /\ "comments" \notin tables => v.comments = w.comments
         /\ "messages" \notin tables => v.messages = w.messages
<1>1. \A t \in Tables : t \notin tables => v[t] = w[t]
  BY DEF Leaves
<1> QED
  BY <1>1 DEF Tables

(* The books are kept by every write and the event that tells of it. *)
LEMMA BookedWrite ==
  ASSUME NEW seed, Seeded(seed), NEW w, NEW s, IsSeq(s), Booked(seed, w, s), NEW v, NEW row, NEW call,
         Wrote(seed, w, row, call, v), NEW m, Tells(m, row, call),
         NewRow(s, row), row.run # "SEED", call.amount \in Int,
         call.op = "ticketCreateIssue" => IssueName(row) \notin IssueIds(w)
  PROVE  Booked(seed, v, Append(s, m))
<1> DEFINE t == Append(s, m)
<1>1. m.type \in WriteTypes /\ m.op = call.op
  BY DEF Tells
<1>2. \A op : call.op # op => SameWrites(s, t, op)
  BY <1>1, WriteAppend
<1>3. /\ IsSeq(t) /\ Len(s) <= Len(t)
      /\ \A k \in 1..Len(s) : t[k] = s[k]
  BY AppendFacts
<1> SUFFICES Booked(seed, v, t)
  OBVIOUS
<1> HIDE DEF t
<1>4. ASSUME call.op # "createRefund", v.refunds = w.refunds, v.refunded = w.refunded
      PROVE  RefundsBooked(v, t) /\ MoneyBooked(seed, v, t)
  <2>1. SameWrites(s, t, "createRefund")
    BY <1>2, <1>4
  <2>2. RefundsBooked(v, t)
    BY <1>4, <2>1, RefundsKept DEF Booked
  <2>3. MoneyBooked(seed, v, t)
    BY <1>3, <1>4, <2>1, MoneyKept DEF Booked
  <2> QED
    BY <2>2, <2>3
<1>5. ASSUME call.op # "crmAddAccountNote", v.notes = w.notes PROVE NotesBooked(seed, v, t)
  BY <1>2, <1>5, MadeKept DEF Booked, NotesBooked
<1>6. ASSUME call.op # "messagePostMessage", v.messages = w.messages PROVE MessagesBooked(v, t)
  BY <1>2, <1>6, MadeKept DEF Booked, MessagesBooked
<1>7. ASSUME call.op # "ticketAddComment", v.comments = w.comments PROVE CommentsBooked(seed, v, t)
  BY <1>2, <1>7, MadeKept DEF Booked, CommentsBooked
<1>8. ASSUME call.op \notin {"ticketCreateIssue", "ticketTransitionIssue"}, v.issues = w.issues
      PROVE  IssuesBooked(seed, v, t) /\ MovesBooked(v, t)
  <2>1. SameWrites(s, t, "ticketCreateIssue") /\ SameWrites(s, t, "ticketTransitionIssue")
    BY <1>2, <1>8
  <2>2. IssuesBooked(seed, v, t)
    BY <1>8, <2>1, IssuesKept DEF Booked
  <2>3. MovesBooked(v, t)
    BY <1>8, <2>1, MovesKept DEF Booked
  <2> QED
    BY <2>2, <2>3
<1>9. ASSUME call.op # "crmUpdateAccountStatus", v.status = w.status PROVE StatusBooked(seed, v, t)
  <2>1. SameWrites(s, t, "crmUpdateAccountStatus")
    BY <1>2, <1>9
  <2> QED
    BY <1>9, <2>1, StatusKept DEF Booked
<1>10. CASE Refunded(seed, w, row, call, v)
  <2>1. call.op = "createRefund" /\ Leaves(w, v, {"refunds", "refunded"})
    BY <1>10 DEF Refunded
  <2>2. RefundsBooked(v, t)
    BY <1>10, RefundBooks DEF Booked, t
  <2>3. MoneyBooked(seed, v, t)
    BY <1>10, <2>1, MoneyMoves DEF Booked, t, Tells
  <2> QED
    BY <1>5, <1>6, <1>7, <1>8, <1>9, <2>1, <2>2, <2>3, LeavesTables DEF Booked
<1>11. CASE Noted(seed, w, row, call, v)
  <2>1. call.op = "crmAddAccountNote" /\ Leaves(w, v, {"notes"})
    BY <1>11 DEF Noted
  <2>2. NotesBooked(seed, v, t)
    BY <1>11, NoteBooks DEF Booked, t
  <2> QED
    BY <1>4, <1>6, <1>7, <1>8, <1>9, <2>1, <2>2, LeavesTables DEF Booked
<1>12. CASE StatusSet(seed, w, row, call, v)
  <2>1. call.op = "crmUpdateAccountStatus" /\ Leaves(w, v, {"status"})
    BY <1>12 DEF StatusSet
  <2>2. StatusBooked(seed, v, t)
    BY <1>12, AccountBooks DEF Booked, t
  <2> QED
    BY <1>4, <1>5, <1>6, <1>7, <1>8, <2>1, <2>2, LeavesTables DEF Booked
<1>13. CASE Opened(seed, w, row, call, v)
  <2>1. call.op = "ticketCreateIssue" /\ Leaves(w, v, {"issues"})
    BY <1>13 DEF Opened
  <2>2. IssuesBooked(seed, v, t) /\ MovesBooked(v, t)
    BY <1>13, <2>1, IssueBooks DEF Booked, t
  <2> QED
    BY <1>4, <1>5, <1>6, <1>7, <1>9, <2>1, <2>2, LeavesTables DEF Booked
<1>14. CASE Commented(seed, w, row, call, v)
  <2>1. call.op = "ticketAddComment" /\ Leaves(w, v, {"comments"})
    BY <1>14 DEF Commented
  <2>2. CommentsBooked(seed, v, t)
    BY <1>14, CommentBooks DEF Booked, t
  <2> QED
    BY <1>4, <1>5, <1>6, <1>8, <1>9, <2>1, <2>2, LeavesTables DEF Booked
<1>15. CASE Moved(seed, w, row, call, v)
  <2>1. call.op = "ticketTransitionIssue" /\ Leaves(w, v, {"issues"})
    BY <1>15 DEF Moved
  <2>2. IssuesBooked(seed, v, t) /\ MovesBooked(v, t)
    BY <1>15, MoveBooks DEF Booked, t
  <2> QED
    BY <1>4, <1>5, <1>6, <1>7, <1>9, <2>1, <2>2, LeavesTables DEF Booked
<1>16. CASE Posted(seed, w, row, call, v)
  <2>1. call.op = "messagePostMessage" /\ Leaves(w, v, {"messages"})
    BY <1>16 DEF Posted
  <2>2. MessagesBooked(v, t)
    BY <1>16, MessageBooks DEF Booked, t
  <2> QED
    BY <1>4, <1>5, <1>7, <1>8, <1>9, <2>1, <2>2, LeavesTables DEF Booked
<1> QED
  BY <1>10, <1>11, <1>12, <1>13, <1>14, <1>15, <1>16 DEF Wrote

(* A fresh world and a ledger that tells of no write. *)
LEMMA NewBooked ==
  ASSUME NEW seed, Seeded(seed), NEW s, IsSeq(s), \A op : WritesOf(s, op) = {}
  PROVE  Booked(seed, World(seed), s)
<1> DEFINE w == World(seed)
<1>1. /\ w.refunded = [c \in ChargeIds(seed) |-> 0]
      /\ w.refunds = {} /\ w.messages = {}
      /\ w.status = [a \in DOMAIN seed.accounts |-> seed.accounts[a].status]
      /\ w.notes = seed.notes /\ w.issues = seed.issues /\ w.comments = seed.comments
  BY DEF World
<1> HIDE DEF w
<1>2. RefundsBooked(w, s)
  BY <1>1, FS_EmptySet DEF RefundsBooked
<1>3. MoneyBooked(seed, w, s)
  <2>1. ASSUME NEW c \in ChargeIds(seed)
        PROVE  w.refunded[c] = Total(RefundsIn(s, c))[Len(s)] /\ w.refunded[c] <= Charged(seed, c)
    <3> DEFINE a == RefundsIn(s, c)
    <3>1. /\ Len(a) = Len(s) /\ Len(s) \in Nat /\ IsTotal(a, Total(a))
          /\ \A m \in 1..Len(s) :
                a[m] = IF m \in WritesOf(s, "createRefund") /\ s[m].target = c THEN s[m].amount ELSE 0
      BY RefundsInFacts
    <3> HIDE DEF a
    <3>2. Total(a)[Len(a)] = Total(a)[0]
      <4>1. 0 \in 0..Len(a) /\ \A m \in (0 + 1)..Len(a) : a[m] = 0
        BY <3>1
      <4> QED
        BY <3>1, <4>1, TotalFlat
    <3>3. Total(a)[Len(s)] = 0
      BY <3>1, <3>2 DEF IsTotal
    <3> QED
      BY <1>1, <3>3, ChargedNat DEF a
  <2> QED
    BY <1>1, <2>1 DEF MoneyBooked
<1>4. \A op : MadeIn(s, op) = {}
  BY DEF MadeIn
<1>5. NotesBooked(seed, w, s) /\ MessagesBooked(w, s) /\ CommentsBooked(seed, w, s)
  BY <1>1, <1>4 DEF NotesBooked, MessagesBooked, CommentsBooked
<1>6. IssuesBooked(seed, w, s)
  BY <1>1, <1>4 DEF IssuesBooked, IssueIds, Seeded
<1>7. \A op, target : WritesOn(s, op, target) = {}
  BY DEF WritesOn
<1>8. StatusBooked(seed, w, s)
  BY <1>1, <1>7 DEF StatusBooked
<1>9. MovesBooked(w, s)
  BY <1>1, <1>7 DEF MovesBooked, HasMoved, Seeded
<1> QED
  BY <1>2, <1>3, <1>5, <1>6, <1>8, <1>9 DEF Booked, w

(***************************************************************************)
(* A call on its way through the world and the ledger.                     *)
(***************************************************************************)
Asides == {"retry", "chaos.injected", "error"}

Audits == {"authorization.allowed", "authorization.denied"}

Whole(d) == DOMAIN d = Rows /\ IsSeq(d.events)

(* The call has gone from d to e with nothing but asides in the ledger. *)
Onward(d, e) ==
    /\ Whole(e)
    /\ e.run = d.run
    /\ e.callIndex = d.callIndex
    /\ e.world = d.world
    /\ Continues(d.events, e.events, Asides)

LEMMA OnwardRefl ==
  ASSUME NEW d, Whole(d)
  PROVE  Onward(d, d)
  BY ContinuesRefl DEF Onward, Whole

LEMMA OnwardTrans ==
  ASSUME NEW d, NEW e, NEW f, Onward(d, e), Onward(e, f)
  PROVE  Onward(d, f)
  BY ContinuesTrans DEF Onward

(* Other rows than these may change. *)
LEMMA OnwardKept ==
  ASSUME NEW d, Whole(d), NEW e, DOMAIN e = Rows,
         e.run = d.run, e.callIndex = d.callIndex, e.world = d.world, e.events = d.events
  PROVE  Onward(d, e)
  BY ContinuesRefl DEF Onward, Whole

LEMMA OnwardEmit ==
  ASSUME NEW d, Whole(d), NEW e, e.type \in Asides
  PROVE  Onward(d, Emit(d, e))
<1> DEFINE f == Emit(d, e)
<1>1. /\ DOMAIN f = Rows /\ f.events = Append(d.events, e)
      /\ f.run = d.run /\ f.callIndex = d.callIndex /\ f.world = d.world
  BY DEF Emit, Rows, Whole
<1>2. IsSeq(Append(d.events, e)) /\ Continues(d.events, Append(d.events, e), Asides)
  BY AppendFacts, ContinuesAppend DEF Whole
<1> HIDE DEF f
<1>3. Onward(d, f)
  BY <1>1, <1>2 DEF Onward, Whole
<1> QED
  BY <1>3 DEF f

(* The policy lets the call go ahead under this number. *)
Screened(conf, w, call, index) ==
    /\ grantReason(conf.auth, Permission(call.op), index) = ""
    /\ resourceReason(conf, [world |-> w], call) = ""

(* The checks take the call from d to c.db: they spend a call number and   *)
(* audit it, or do neither; a call that is let through was screened.       *)
Checks(conf, d, call, c) ==
    /\ Whole(c.db) /\ c.db.run = d.run /\ c.db.world = d.world
    /\ \/ /\ c.db.callIndex = d.callIndex /\ c.db.events = d.events
          /\ Open(c) => ~conf.auth.enforced
       \/ /\ conf.auth.enforced
          /\ c.db.callIndex = d.callIndex + 1
          /\ \E audit : audit.type \in Audits /\ c.db.events = Append(d.events, audit)
          /\ Open(c) => Screened(conf, d.world, call, d.callIndex + 1)

LEMMA JudgedChecks ==
  ASSUME NEW conf, conf.auth.enforced, NEW d, Whole(d), NEW call
  PROVE  Checks(conf, d, call, Judged([d EXCEPT !.callIndex = d.callIndex + 1], call,
                                     Screen(conf, d, call, d.callIndex + 1)))
<1> DEFINE e == [d EXCEPT !.callIndex = d.callIndex + 1]
           reason == Screen(conf, d, call, d.callIndex + 1)
           audit(type) == [type |-> type, call |-> call.id, op |-> call.op, index |-> e.callIndex]
           allow == audit("authorization.allowed")
           deny == audit("authorization.denied")
           c == Judged(e, call, reason)
<1>1. \/ c = Stage(Emit(e, allow), Unanswered) /\ reason = ""
      \/ c = Stage(Emit(e, deny), Answer(403, reason, 0))
  BY Zenon DEF Judged
<1>2. reason = "" => Screened(conf, d.world, call, d.callIndex + 1)
  <2>1. resourceReason(conf, [world |-> d.world], call) = resourceReason(conf, d, call)
    <3>1. [world |-> d.world].world = d.world
      OBVIOUS
    <3> QED
      BY <3>1, Zenon DEF resourceReason
  <2> QED
    BY <2>1, Zenon DEF Screen, Screened
<1> DEFINE Granted == Screened(conf, d.world, call, d.callIndex + 1)
<1>3. \/ c = Stage(Emit(e, allow), Unanswered) /\ Granted
      \/ c = Stage(Emit(e, deny), Answer(403, reason, 0))
  BY <1>1, <1>2, Zenon
<1>4. allow.type \in Audits /\ deny.type \in Audits
  BY DEF Audits
<1>5. /\ DOMAIN e = Rows /\ e.run = d.run /\ e.world = d.world /\ e.events = d.events
      /\ e.callIndex = d.callIndex + 1
  BY DEF Whole, Rows
<1> HIDE DEF e, reason, allow, deny, c, Granted
<1>6. ASSUME NEW a, a.type \in Audits
      PROVE  LET f == Emit(e, a)
             IN  /\ Whole(f) /\ f.run = d.run /\ f.world = d.world
                 /\ f.callIndex = d.callIndex + 1 /\ f.events = Append(d.events, a)
  <2> DEFINE f == Emit(e, a)
  <2>1. /\ DOMAIN f = Rows /\ f.run = d.run /\ f.world = d.world
        /\ f.callIndex = d.callIndex + 1 /\ f.events = Append(d.events, a)
    BY <1>5 DEF Emit, Rows
  <2>2. IsSeq(Append(d.events, a))
    BY AppendFacts DEF Whole
  <2> QED
    BY <2>1, <2>2 DEF Whole
<1>7. CASE c = Stage(Emit(e, allow), Unanswered) /\ Granted
  <2>1. c.db = Emit(e, allow)
    BY <1>7 DEF Stage
  <2>2. Checks(conf, d, call, c)
    BY <1>4, <1>6, <1>7, <2>1 DEF Checks, Granted
  <2> QED
    BY <2>2 DEF c, e, reason
<1>8. CASE c = Stage(Emit(e, deny), Answer(403, reason, 0))
  <2>1. c.db = Emit(e, deny) /\ ~Open(c)
    BY <1>8, AnswersDiffer DEF Stage, Open
  <2>2. Checks(conf, d, call, c)
    BY <1>4, <1>6, <2>1 DEF Checks
  <2> QED
    BY <2>2 DEF c, e, reason
<1> QED
  BY <1>3, <1>7, <1>8

LEMMA CheckChecks ==
  ASSUME NEW conf, NEW d, Whole(d), NEW call
  PROVE  Checks(conf, d, call, Check(conf, d, call))
<1> DEFINE c == Check(conf, d, call)
           e == [d EXCEPT !.callIndex = d.callIndex + 1]
           reason == Screen(conf, d, call, d.callIndex + 1)
<1>1. CASE ~call.schema
  <2>1. c = Stage(d, Answer(400, "invalid", 0))
    BY <1>1 DEF Check, validate
  <2>2. ~Open(c) /\ c.db = d
    BY <2>1, AnswersDiffer DEF Stage, Open
  <2> HIDE DEF c
  <2>3. Checks(conf, d, call, c)
    BY <2>2 DEF Checks
  <2> QED
    BY <2>3 DEF c
<1>2. CASE call.schema /\ ~conf.auth.enforced
  <2>1. c = Stage(d, Unanswered)
    BY <1>2 DEF Check, validate, Authorize
  <2>2. c.db = d
    BY <2>1 DEF Stage
  <2> HIDE DEF c
  <2>3. Checks(conf, d, call, c)
    BY <1>2, <2>2 DEF Checks
  <2> QED
    BY <2>3 DEF c
<1>3. CASE call.schema /\ conf.auth.enforced /\ ~handlerValid(call)
  <2>1. PICK text : c = Stage(d, Answer(400, text, 0))
    BY <1>3, ZenonT(60) DEF Check, validate, Authorize
  <2> HIDE DEF c
  <2>2. ~Open(c) /\ c.db = d
    BY <2>1, AnswersDiffer DEF Stage, Open
  <2>3. Checks(conf, d, call, c)
    BY <2>2 DEF Checks
  <2> QED
    BY <2>3 DEF c
<1>4. CASE call.schema /\ conf.auth.enforced /\ handlerValid(call)
  <2>1. c = Judged(e, call, reason)
    BY <1>4 DEF Check, validate, Authorize
  <2>2. Checks(conf, d, call, Judged(e, call, reason))
    BY <1>4, JudgedChecks
  <2> HIDE DEF c, e, reason
  <2>3. Checks(conf, d, call, c)
    BY <2>1, <2>2
  <2> QED
    BY <2>3 DEF c
<1> QED
  BY <1>1, <1>2, <1>3, <1>4

(* chaos.Decide touches counters only, and selects a rule that matches. *)
LEMMA DecideOnly ==
  ASSUME NEW conf, DOMAIN conf.chaos \subseteq Nat, NEW d, Whole(d), NEW call
  PROVE  LET c == ChaosDecide(conf, d, call)
         IN  /\ Whole(c.db) /\ c.db.run = d.run /\ c.db.callIndex = d.callIndex
             /\ c.db.world = d.world /\ c.db.events = d.events
             /\ c.rule # NoRule => c.rule \in DOMAIN conf.chaos /\ call.op \in conf.chaos[c.rule].ops
<1> DEFINE Same(e) == /\ Whole(e) /\ e.run = d.run /\ e.callIndex = d.callIndex
                      /\ e.world = d.world /\ e.events = d.events
<1>1. ASSUME NEW e, Same(e), NEW v PROVE Same([e EXCEPT !.rules = v])
  BY <1>1 DEF Whole, Rows
<1> DEFINE a == Advance(conf, d, call)
           active == {i \in Matching(conf, call) : Active(conf, a, i, call)}
           first == CHOOSE i \in active : \A j \in active : i <= j
           c == ChaosDecide(conf, d, call)
<1>2. \E v : a = [d EXCEPT !.rules = v]
  BY DEF Advance
<1>3. Same(a)
  <2>1. Same(d)
    OBVIOUS
  <2> HIDE DEF Same, a
  <2> QED
    BY <1>1, <1>2, <2>1
<1>4. c = Select(a, active)
  BY DEF ChaosDecide, SelectActive
<1> HIDE DEF a
<1>5. CASE active = {}
  <2>1. c.db = a /\ c.rule = NoRule
    BY <1>4, <1>5 DEF Select
  <2> QED
    BY <1>3, <2>1
<1>6. CASE active # {}
  <2>1. c.rule = first /\ \E v : c.db = [a EXCEPT !.rules = v]
    <3> HIDE DEF active, c
    <3>1. c.rule = first
      BY <1>4, <1>6 DEF Select
    <3>2. PICK v : Select(a, active).db = [a EXCEPT !.rules = v]
      BY <1>6 DEF Select
    <3> QED
      BY <1>4, <3>1, <3>2
  <2>2. active \subseteq DOMAIN conf.chaos /\ active \subseteq Nat
    BY DEF Matching
  <2>3. first \in active
    <3> HIDE DEF active
    <3> QED
      BY <1>6, <2>2, LeastNat
  <2>4. first \in DOMAIN conf.chaos /\ call.op \in conf.chaos[first].ops
    BY <2>3 DEF Matching
  <2> HIDE DEF c, first, active, Same
  <2>5. Same(c.db)
    BY <1>1, <1>3, <2>1
  <2> QED
    BY <2>1, <2>4, <2>5 DEF Same, c
<1> QED
  BY <1>5, <1>6

(* A concurrent writer's turn: the rule's injection and the write it lets  *)
(* in.                                                                     *)
ActorActs(conf, d, i, b) ==
    LET rule == conf.chaos[i]
        row == ActorRow(d, rule, d.rules[i].calls)
    IN  /\ i \in DOMAIN conf.chaos /\ rule.type = "concurrent_mutation"
        /\ Whole(b) /\ b.run = d.run /\ b.callIndex = d.callIndex
        /\ Wrote(conf.seed, d.world, row, rule.actor, b.world)
        /\ \E inj, m : /\ inj.type = "chaos.injected" /\ inj.rule = rule.id
                       /\ m.type = "chaos.actor_mutation" /\ Tells(m, row, rule.actor)
                       /\ b.events = Append(Append(d.events, inj), m)

(* The actors are bound to behaviours. *)
ActorsBound(conf) ==
    \A i \in DOMAIN conf.chaos :
        conf.chaos[i].type = "concurrent_mutation" => conf.chaos[i].actor.op \in Operations

(* What happens before the handler. *)
LEMMA BeforeActs ==
  ASSUME NEW conf, ActorsBound(conf), NEW d, Whole(d), DOMAIN d.world = Tables,
         NEW i \in DOMAIN conf.chaos \cup {NoRule}, NEW call, BeforeHandler(conf, d, i, call).ok
  PROVE  LET b == BeforeHandler(conf, d, i, call).db
         IN  Onward(d, b) \/ ActorActs(conf, d, i, b)
<1> DEFINE b == BeforeHandler(conf, d, i, call)
           inj == Injected(conf, d, i, call)
           e == Emit(d, inj)
           rule == conf.chaos[i]
           n == d.rules[i].calls
<1>1. inj.type = "chaos.injected" /\ inj.rule = rule.id
  BY DEF Injected
<1>2. \/ b.db = d
      \/ b.db = e
      \/ RuleType(conf, i) = "concurrent_mutation" /\ b = invokeActor(conf, e, rule, n)
  BY DEF BeforeHandler
<1> HIDE DEF b, inj
<1>3. Onward(d, d)
  BY OnwardRefl
<1>4. Onward(d, e)
  BY <1>1, OnwardEmit DEF Asides
<1>5. ASSUME RuleType(conf, i) = "concurrent_mutation", b = invokeActor(conf, e, rule, n)
      PROVE  ActorActs(conf, d, i, b.db)
  <2>1. i \in DOMAIN conf.chaos /\ rule.type = "concurrent_mutation"
    BY <1>5 DEF RuleType
  <2> DEFINE row == ActorRow(d, rule, n)
             h == Handle(conf.seed, d.world, row, rule.actor)
             m == Mutation("chaos.actor_mutation", row, rule.actor)
             f == [e EXCEPT !.world = h.world]
  <2>2. DOMAIN e = Rows /\ e.run = d.run /\ e.world = d.world /\ e.callIndex = d.callIndex /\ e.events = Append(d.events, inj)
    BY DEF Emit, Whole, Rows
  <2>3. ActorRow(e, rule, n) = row
    BY <2>2 DEF ActorRow
  <2> HIDE DEF e, row
  <2>4. b.ok = h.mutated /\ b.db = Emit(f, m)
    BY <1>5, <2>2, <2>3 DEF invokeActor, ActorWrote
  <2>5. h.mutated
    BY <2>4 DEF b
  <2>6. Reports(conf.seed, d.world, row, rule.actor, h)
    BY <2>1, HandleReports DEF ActorsBound
  <2>7. Wrote(conf.seed, d.world, row, rule.actor, h.world)
    BY <2>5, <2>6 DEF Reports
  <2>8. m.type = "chaos.actor_mutation" /\ Tells(m, row, rule.actor)
    BY MutationFacts DEF Tells, WriteTypes
  <2> HIDE DEF h, m
  <2>9. DOMAIN f = Rows /\ f.run = d.run /\ f.callIndex = d.callIndex /\ f.events = e.events /\ f.world = h.world
    BY <2>2 DEF Rows
  <2> HIDE DEF f
  <2>10. /\ DOMAIN b.db = Rows /\ b.db.run = d.run /\ b.db.callIndex = d.callIndex /\ b.db.world = h.world
         /\ b.db.events = Append(Append(d.events, inj), m)
    BY <2>2, <2>4, <2>9 DEF Emit, Rows
  <2>11. IsSeq(Append(Append(d.events, inj), m))
    BY AppendFacts DEF Whole
  <2> QED
    BY <1>1, <2>1, <2>7, <2>8, <2>10, <2>11 DEF ActorActs, Whole, row
<1>6. Onward(d, b.db) \/ ActorActs(conf, d, i, b.db)
  BY <1>2, <1>3, <1>4, <1>5
<1> QED
  BY <1>6 DEF b

(* Whoever answers the call has gone from d to o.db with asides only, and  *)
(* says whether it wrote.                                                  *)
Serves(conf, d, call, o) ==
    /\ DOMAIN o = OutcomeFields
    /\ Whole(o.db) /\ o.db.run = d.run /\ o.db.callIndex = d.callIndex
    /\ Continues(d.events, o.db.events, Asides)
    /\ o.mutated => Wrote(conf.seed, d.world, AgentRow(d, call), call, o.db.world)
    /\ ~o.mutated => o.db.world = d.world

LEMMA IdleServes ==
  ASSUME NEW conf, NEW d, NEW call, NEW e, Onward(d, e), NEW answer
  PROVE  Serves(conf, d, call, Outcome(e, answer, FALSE))
<1> DEFINE o == Outcome(e, answer, FALSE)
<1>1. DOMAIN o = OutcomeFields /\ o.db = e /\ o.mutated = FALSE
  BY DEF Outcome, OutcomeFields
<1> HIDE DEF o
<1>2. Serves(conf, d, call, o)
  BY <1>1 DEF Serves, Onward
<1> QED
  BY <1>2 DEF o

LEMMA HandlerServes ==
  ASSUME NEW conf, NEW d, Whole(d), DOMAIN d.world = Tables, NEW call, call.op \in Operations
  PROVE  Serves(conf, d, call, RunHandler(conf, d, call))
<1> DEFINE retry == [type |-> "retry", call |-> call.id]
           e == IF RetryDue(conf, d, call) THEN Emit(d, retry) ELSE d
           row == AgentRow(d, call)
           h == Handle(conf.seed, d.world, row, call)
           v == [e EXCEPT !.world = h.world]
           o == RunHandler(conf, d, call)
<1>1. Onward(d, e)
  <2>1. retry.type \in Asides
    BY DEF Asides
  <2> HIDE DEF retry
  <2>2. Onward(d, d) /\ Onward(d, Emit(d, retry))
    BY <2>1, OnwardRefl, OnwardEmit
  <2> QED
    BY <2>2
<1>2. o = HandlerRan(conf, e, call, h)
  BY DEF RunHandler
<1>3. Reports(conf.seed, d.world, row, call, h)
  BY HandleReports
<1> HIDE DEF e, h, row
<1>4. DOMAIN v = Rows /\ v.run = d.run /\ v.callIndex = d.callIndex /\ v.events = e.events /\ v.world = h.world
  BY <1>1 DEF Onward, Whole, Rows
<1>5. /\ DOMAIN o = OutcomeFields /\ o.mutated = h.mutated
      /\ \/ o.db = v
         \/ \E x : o.db = [v EXCEPT !.snapshots = x]
  <2> HIDE DEF o
  <2>1. /\ DOMAIN o = OutcomeFields /\ o.mutated = h.mutated
        /\ o.db = v \/ o.db = SaveSnapshot(conf, v, call, h.answer)
    BY <1>2 DEF HandlerRan, Outcome, OutcomeFields
  <2> HIDE DEF v
  <2>2. \E x : SaveSnapshot(conf, v, call, h.answer) = [v EXCEPT !.snapshots = x]
    BY DEF SaveSnapshot
  <2> QED
    BY <2>1, <2>2
<1> HIDE DEF v, o
<1>6. DOMAIN o.db = Rows /\ o.db.run = d.run /\ o.db.callIndex = d.callIndex /\ o.db.events = e.events /\ o.db.world = h.world
  <2>1. CASE o.db = v
    BY <1>4, <2>1
  <2>2. ASSUME NEW x, o.db = [v EXCEPT !.snapshots = x]
        PROVE  DOMAIN o.db = Rows /\ o.db.run = d.run /\ o.db.callIndex = d.callIndex /\ o.db.events = e.events /\ o.db.world = h.world
    BY <1>4, <2>2 DEF Rows
  <2> QED
    BY <1>5, <2>1, <2>2
<1>7. Serves(conf, d, call, o)
  BY <1>1, <1>3, <1>5, <1>6 DEF Serves, Onward, Whole, Reports, row
<1> QED
  BY <1>7 DEF o

LEMMA ServeServes ==
  ASSUME NEW conf, NEW d, Whole(d), DOMAIN d.world = Tables, NEW i, NEW call, call.op \in Operations, NEW pre
  PROVE  Serves(conf, d, call, Serve(conf, d, i, call, pre))
<1> DEFINE fault == [type |-> "error", kind |-> "injected_503", call |-> call.id]
           e == [d EXCEPT !.consumed = TRUE]
<1>1. \/ Serve(conf, d, i, call, pre) = Outcome(d, pre, FALSE)
      \/ Serve(conf, d, i, call, pre) = Outcome(Emit(e, fault), Answer(503, "unavailable", 0), FALSE)
      \/ Serve(conf, d, i, call, pre) = RunHandler(conf, d, call)
  BY DEF Serve
<1>2. DOMAIN e = Rows /\ e.run = d.run /\ e.callIndex = d.callIndex /\ e.world = d.world /\ e.events = d.events
  BY DEF Whole, Rows
<1>3. fault.type \in Asides
  BY DEF Asides
<1> HIDE DEF e, fault
<1>4. Onward(d, d) /\ Onward(d, e)
  BY <1>2, OnwardRefl, OnwardKept
<1>5. Onward(e, Emit(e, fault))
  BY <1>3, <1>4, OnwardEmit DEF Onward
<1>6. Onward(d, Emit(e, fault))
  BY <1>4, <1>5, OnwardTrans
<1> DEFINE idle == Outcome(d, pre, FALSE)
           refusal == Answer(503, "unavailable", 0)
           after == Emit(e, fault)
           failed == Outcome(after, refusal, FALSE)
           ran == RunHandler(conf, d, call)
<1>7. Serves(conf, d, call, idle)
  BY <1>4, IdleServes
<1>8. Serves(conf, d, call, failed)
  <2> HIDE DEF after, refusal
  <2>1. Onward(d, after)
    BY <1>6 DEF after
  <2> QED
    BY <2>1, IdleServes
<1>9. Serves(conf, d, call, ran)
  BY HandlerServes
<1> HIDE DEF idle, failed, ran
<1> QED
  BY <1>1, <1>7, <1>8, <1>9, Zenon DEF idle, failed, ran

(* An effect on the answer changes neither the world nor the report. *)
LEMMA HideServes ==
  ASSUME NEW conf, NEW d, NEW call, NEW o, Serves(conf, d, call, o), NEW i
  PROVE  Serves(conf, d, call, HideOutcome(conf, o, i, call))
<1> DEFINE b == o.db
           h == HideOutcome(conf, o, i, call)
           x == [call |-> call.id, rule |-> conf.chaos[i].id, answer |-> o.answer]
           kept == [b EXCEPT !.hidden = b.hidden \cup {x}]
           inj == Injected(conf, b, i, call)
<1>1. DOMAIN o = OutcomeFields /\ Whole(b)
  BY DEF Serves
<1>2. /\ DOMAIN h = OutcomeFields /\ h.mutated = o.mutated
      /\ (\E v : h.db = [b EXCEPT !.rules = v]) \/ h.db = Emit(kept, inj)
  <2>1. CASE conf.chaos[i].type = "timeout_after_commit" /\ ~(Succeeds(o.answer) /\ o.mutated)
    <3>1. PICK v : h = [o EXCEPT !.db.rules = v]
      BY <2>1 DEF HideOutcome
    <3> HIDE DEF h
    <3> QED
      BY <1>1, <3>1 DEF OutcomeFields
  <2>2. CASE ~(conf.chaos[i].type = "timeout_after_commit" /\ ~(Succeeds(o.answer) /\ o.mutated))
    <3>1. PICK a : h = [o EXCEPT !.db = Emit(kept, inj), !.answer = a]
      BY <2>2 DEF HideOutcome
    <3> HIDE DEF h, kept, inj
    <3> QED
      BY <1>1, <3>1 DEF OutcomeFields
  <2> QED
    BY <2>1, <2>2
<1>3. inj.type \in Asides
  BY DEF Injected, Asides
<1> HIDE DEF h, inj, x, b
<1>4. ASSUME NEW v PROVE Onward(b, [b EXCEPT !.rules = v])
  <2> DEFINE e == [b EXCEPT !.rules = v]
  <2>1. DOMAIN e = Rows /\ e.run = b.run /\ e.callIndex = b.callIndex /\ e.world = b.world /\ e.events = b.events
    BY <1>1 DEF Whole, Rows
  <2> HIDE DEF e
  <2>2. Onward(b, e)
    BY <1>1, <2>1, OnwardKept
  <2> QED
    BY <2>2 DEF e
<1>5. Onward(b, kept)
  <2>1. /\ DOMAIN kept = Rows /\ kept.run = b.run /\ kept.callIndex = b.callIndex
        /\ kept.world = b.world /\ kept.events = b.events
    BY <1>1 DEF Whole, Rows
  <2> HIDE DEF kept
  <2> QED
    BY <1>1, <2>1, OnwardKept
<1> HIDE DEF kept
<1>6. Onward(kept, Emit(kept, inj))
  BY <1>3, <1>5, OnwardEmit DEF Onward
<1>7. Onward(b, h.db)
  BY <1>2, <1>4, <1>5, <1>6, OnwardTrans
<1>8. Continues(d.events, h.db.events, Asides)
  <2>1. Continues(d.events, b.events, Asides) /\ Continues(b.events, h.db.events, Asides)
    BY <1>7 DEF Serves, Onward, b
  <2> QED
    BY <2>1, ContinuesTrans
<1>9. Serves(conf, d, call, h)
  BY <1>2, <1>7, <1>8 DEF Serves, Onward, b
<1> QED
  BY <1>9 DEF h

(* The handler with what chaos does around it. *)
LEMMA RunServes ==
  ASSUME NEW conf, ActorsBound(conf), NEW d, Whole(d), DOMAIN d.world = Tables,
         NEW i \in DOMAIN conf.chaos \cup {NoRule}, NEW call, call.op \in Operations,
         RunCall(conf, [db |-> d, rule |-> i], call).ok
  PROVE  \E b : /\ Onward(d, b) \/ ActorActs(conf, d, i, b)
                /\ Serves(conf, b, call, RunCall(conf, [db |-> d, rule |-> i], call).done)
<1> DEFINE decided == [db |-> d, rule |-> i]
           actor == BeforeHandler(conf, d, i, call)
           pre == IF i = NoRule THEN Unanswered ELSE PreAnswer(conf, actor.db, i, call)
           o == Serve(conf, actor.db, i, call, pre)
           run == RunCall(conf, decided, call)
<1>1. run = AfterHandler(conf, actor, i, call, o)
  BY DEF RunCall, Served
<1>2. actor.ok
  <2>1. AfterHandler(conf, actor, i, call, o).ok => actor.ok
    <3> HIDE DEF actor, o
    <3> QED
      BY Zenon DEF AfterHandler
  <2> QED
    BY <1>1, <2>1
<1>3. Onward(d, actor.db) \/ ActorActs(conf, d, i, actor.db)
  BY <1>2, BeforeActs
<1>4. run.done = o \/ run.done = HideOutcome(conf, o, i, call)
  BY <1>1 DEF AfterHandler
<1> HIDE DEF actor, pre, run
<1>5. Whole(actor.db) /\ DOMAIN actor.db.world = Tables
  <2>1. \A w, row, c, v : Wrote(conf.seed, w, row, c, v) => DOMAIN v = Tables
    BY DEF Wrote, Refunded, Noted, StatusSet, Opened, Commented, Moved, Posted, Leaves
  <2> QED
    BY <1>3, <2>1 DEF Onward, ActorActs
<1>6. Serves(conf, actor.db, call, o)
  BY <1>5, ServeServes
<1> HIDE DEF o
<1>7. Serves(conf, actor.db, call, run.done)
  BY <1>4, <1>6, HideServes
<1> QED
  BY <1>3, <1>7 DEF run

(* The rows every settled call leaves. *)
LEMMA SettleTellsWrite ==
  ASSUME NEW done, Whole(done.db), NEW call
  PROVE  LET e == Settle(done, call)
             row == AgentRow(done.db, call)
         IN  /\ Whole(e) /\ e.run = done.db.run /\ e.callIndex = done.db.callIndex /\ e.world = done.db.world
             /\ \E r : /\ r.type = "tool.response"
                       /\ ~done.mutated => e.events = Append(done.db.events, r)
                       /\ done.mutated =>
                             \E m : /\ m.type = "state.mutation" /\ Tells(m, row, call)
                                    /\ e.events = Append(Append(done.db.events, m), r)
<1> DEFINE d == done.db
           row == AgentRow(d, call)
           m == Mutation("state.mutation", row, call)
           a == IF done.mutated THEN Emit(d, m) ELSE d
           r == ResponseEvent(call, done.answer)
           c == Emit(a, r)
           e == Settle(done, call)
<1>1. e = [c EXCEPT !.results = @ \cup {Result(call, done.answer)},
                    !.transcript = Append(@, Entry(call, done.answer))]
  BY DEF Settle, ResponseEvent, Result, Entry
<1>2. m.type = "state.mutation" /\ Tells(m, row, call) /\ r.type = "tool.response"
  BY MutationFacts DEF Tells, WriteTypes, ResponseEvent
<1> HIDE DEF m, r, d, row, e
<1>3. /\ DOMAIN a = Rows /\ a.run = d.run /\ a.callIndex = d.callIndex /\ a.world = d.world
      /\ a.events = IF done.mutated THEN Append(d.events, m) ELSE d.events
  BY DEF Emit, Whole, Rows, d
<1> HIDE DEF a
<1>4. /\ DOMAIN c = Rows /\ c.run = d.run /\ c.callIndex = d.callIndex /\ c.world = d.world
      /\ c.events = Append(a.events, r)
  BY <1>3 DEF Emit, Rows
<1> HIDE DEF c
<1>5. /\ DOMAIN e = Rows /\ e.run = d.run /\ e.callIndex = d.callIndex /\ e.world = d.world
      /\ e.events = c.events
  BY <1>1, <1>4 DEF Rows
<1>6. IsSeq(e.events)
  <2>1. IsSeq(a.events)
    BY <1>3, AppendFacts DEF Whole, d
  <2> QED
    BY <1>4, <1>5, <2>1, AppendFacts
<1> QED
  BY <1>2, <1>3, <1>4, <1>5, <1>6 DEF Whole, e, d, row

-------------------------------------------------------------------------------
(* The ledger p once the checks are done, and the call number they leave. *)
Passed(conf, d, call, p, index, open) ==
    LET asked == Append(d.events, RequestEvent(call))
    IN  \/ index = d.callIndex /\ p = asked /\ (open => ~conf.auth.enforced)
        \/ /\ conf.auth.enforced
           /\ index = d.callIndex + 1
           /\ \E audit : audit.type \in Audits /\ p = Append(asked, audit)
           /\ open => Screened(conf, d.world, call, d.callIndex + 1)

(* Before the handler an actor wrote: p is the ledger before it, q and w   *)
(* ledger and world after it, e the rows when the call is answered.        *)
ActorWrites(conf, d, e, p, q, w) ==
    \E i \in DOMAIN conf.chaos :
        LET rule == conf.chaos[i]
            row == ActorRow(d, rule, d.rules[i].calls + 1)
        IN  /\ rule.type = "concurrent_mutation"
            /\ e.rules[i].calls = d.rules[i].calls + 1
            /\ Wrote(conf.seed, d.world, row, rule.actor, w)
            /\ \E inj, m : /\ inj.type = "chaos.injected" /\ inj.rule = rule.id
                           /\ m.type = "chaos.actor_mutation" /\ Tells(m, row, rule.actor)
                           /\ q = Append(Append(p, inj), m)

(* From the ledger q and the world w before the handler to the answer. *)
AgentAnswers(conf, d, call, e, q, w) ==
    \E x, r :
        /\ Continues(q, x, Asides)
        /\ r.type = "tool.response"
        /\ \/ e.world = w /\ e.events = Append(x, r)
           \/ /\ Wrote(conf.seed, w, AgentRow(d, call), call, e.world)
              /\ \E m : /\ m.type = "state.mutation" /\ Tells(m, AgentRow(d, call), call)
                        /\ e.events = Append(Append(x, m), r)

(* An answered call: it was stopped, or it ran. *)
CallGoes(conf, d, call, e) ==
    /\ Whole(e) /\ e.run = d.run
    /\ \E p :
          \/ /\ Passed(conf, d, call, p, e.callIndex, FALSE)
             /\ e.world = d.world
             /\ \E r : r.type = "tool.response" /\ e.events = Append(p, r)
          \/ /\ Passed(conf, d, call, p, e.callIndex, TRUE)
             /\ \E q, w : /\ (w = d.world /\ Continues(p, q, Asides)) \/ ActorWrites(conf, d, e, p, q, w)
                          /\ AgentAnswers(conf, d, call, e, q, w)

LEMMA CallShape ==
  ASSUME NEW conf, RulesParsed(conf), ActorsBound(conf), NEW d, IsRun(d),
         CountersInRange(conf, d), Owed(conf, d, NoRule),
         NEW call, call.op \in Operations, Saved(d, call) = {}, call.op \in conf.ops, Invoke(conf, d, call).ok
  PROVE  CallGoes(conf, d, call, Invoke(conf, d, call).db)
<1> DEFINE start == Emit(d, RequestEvent(call))
           checked == Check(conf, start, call)
           decided == ChaosDecide(conf, checked.db, call)
           run == RunCall(conf, decided, call)
           stopped == Outcome(checked.db, checked.answer, FALSE)
           e == Invoke(conf, d, call).db
           p == checked.db.events
           a == checked.db
<1>1. Invoke(conf, d, call) = Proceed(conf, d, call, checked)
  BY DEF Invoke, RequestEvent
<1>2. /\ Whole(start) /\ start.run = d.run /\ start.world = d.world
      /\ start.callIndex = d.callIndex /\ start.events = Append(d.events, RequestEvent(call))
  <2>1. Whole(d)
    BY DEF IsRun, Whole
  <2>2. IsSeq(Append(d.events, RequestEvent(call)))
    BY <2>1, AppendFacts DEF Whole
  <2> QED
    BY <2>1, <2>2 DEF Emit, Whole, Rows
<1>3. Tallied(conf, d, DeniedIds(d), start, NoRule)
  <2>1. Tallied(conf, d, DeniedIds(d), d, NoRule)
    BY DEF Tallied, IsRun
  <2>2. RequestEvent(call).type \notin Counting
    BY DEF RequestEvent, Counting
  <2> QED
    BY <2>1, <2>2, TalliedEmit
<1> HIDE DEF start
<1>4. Checks(conf, start, call, checked)
  BY <1>2, CheckChecks
<1>5. \/ Open(checked) /\ Tallied(conf, d, DeniedIds(d), a, NoRule)
      \/ ~Open(checked)
  BY <1>3, TalliedCheck
<1> HIDE DEF checked
<1>6. Whole(a) /\ a.run = d.run /\ a.world = d.world
  BY <1>2, <1>4 DEF Checks
<1>7. Passed(conf, d, call, p, a.callIndex, Open(checked))
  BY <1>2, <1>4 DEF Checks, Passed
<1>8. CASE ~Open(checked)
  <2>1. e = Settle(stopped, call)
    BY <1>1, <1>8 DEF Proceed
  <2>2. stopped.db = a /\ stopped.mutated = FALSE
    BY DEF Outcome
  <2> HIDE DEF stopped, e, a
  <2>3. /\ Whole(e) /\ e.run = a.run /\ e.callIndex = a.callIndex /\ e.world = a.world
        /\ \E r : /\ r.type = "tool.response"
                  /\ ~stopped.mutated => e.events = Append(a.events, r)
    <3>1. Whole(stopped.db)
      BY <1>6, <2>2
    <3> QED
      BY <2>1, <2>2, <3>1, SettleTellsWrite
  <2>4. PICK r : r.type = "tool.response" /\ e.events = Append(p, r)
    BY <2>2, <2>3 DEF a
  <2>5. Passed(conf, d, call, p, e.callIndex, FALSE)
    BY <1>7, <1>8, <2>3 DEF Passed
  <2>6. CallGoes(conf, d, call, e)
    BY <1>6, <2>3, <2>4, <2>5 DEF CallGoes
  <2> QED
    BY <2>6 DEF e
<1>9. CASE Open(checked)
  <2> DEFINE i == decided.rule
             b == decided.db
  <2>1. Tallied(conf, d, DeniedIds(d), a, NoRule)
    BY <1>5, <1>9
  <2>2. /\ Whole(b) /\ b.run = a.run /\ b.callIndex = a.callIndex
        /\ b.world = a.world /\ b.events = a.events
        /\ i # NoRule => i \in DOMAIN conf.chaos /\ call.op \in conf.chaos[i].ops
    BY <1>6, DecideOnly DEF RulesParsed
  <2>3. /\ i \in DOMAIN conf.chaos \cup {NoRule}
        /\ Counted(conf, a, call, b)
        /\ Tallied(conf, b, DeniedIds(d), b, i)
    BY <2>1, TalliedDecide
  <2>4. run.ok /\ e = Settle(run.done, call)
    BY <1>1, <1>9 DEF Proceed, Committed
  <2>5. run = RunCall(conf, [db |-> b, rule |-> i], call)
    BY DEF RunCall
  <2> HIDE DEF decided, run, e, b, i
  <2>6. Tallied(conf, b, DeniedIds(d), e, NoRule)
    <3>1. Tallied(conf, b, DeniedIds(d), run.done.db, NoRule)
      BY <2>3, TalliedRun DEF run, b, i
    <3> QED
      BY <2>4, <3>1, TalliedSettle
  <2>7. DOMAIN b.world = Tables
    BY <1>6, <2>2 DEF IsRun
  <2>8. PICK f : /\ Onward(b, f) \/ ActorActs(conf, b, i, f)
                 /\ Serves(conf, f, call, run.done)
    BY <2>2, <2>3, <2>4, <2>5, <2>7, RunServes
  <2> DEFINE o == run.done
             row == AgentRow(d, call)
  <2>9. Whole(o.db) /\ o.db.run = f.run /\ o.db.callIndex = f.callIndex /\ Continues(f.events, o.db.events, Asides)
    BY <2>8 DEF Serves
  <2>10. f.run = d.run /\ f.callIndex = a.callIndex /\ Whole(f)
    BY <1>6, <2>2, <2>8 DEF Onward, ActorActs
  <2>11. AgentRow(o.db, call) = row /\ AgentRow(f, call) = row
    BY <2>9, <2>10 DEF AgentRow
  <2>12. /\ Whole(e) /\ e.run = o.db.run /\ e.callIndex = o.db.callIndex /\ e.world = o.db.world
         /\ \E r : /\ r.type = "tool.response"
                   /\ ~o.mutated => e.events = Append(o.db.events, r)
                   /\ o.mutated =>
                         \E m : /\ m.type = "state.mutation" /\ Tells(m, row, call)
                                /\ e.events = Append(Append(o.db.events, m), r)
    <3> DEFINE s == Settle(o, call)
               own == AgentRow(o.db, call)
    <3>1. /\ Whole(s) /\ s.run = o.db.run /\ s.callIndex = o.db.callIndex /\ s.world = o.db.world
          /\ \E r : /\ r.type = "tool.response"
                    /\ ~o.mutated => s.events = Append(o.db.events, r)
                    /\ o.mutated =>
                          \E m : /\ m.type = "state.mutation" /\ Tells(m, own, call)
                                 /\ s.events = Append(Append(o.db.events, m), r)
      <4> HIDE DEF o
      <4> QED
        BY <2>9, SettleTellsWrite
    <3>2. s = e /\ own = row
      BY <2>4, <2>11
    <3> HIDE DEF s, o, row, own
    <3> QED
      BY <3>1, <3>2
  <2>13. /\ o.mutated => Wrote(conf.seed, f.world, row, call, e.world)
         /\ ~o.mutated => e.world = f.world
    BY <2>8, <2>11, <2>12 DEF Serves
  <2> HIDE DEF o
  <2>14. AgentAnswers(conf, d, call, e, f.events, f.world)
    BY <2>9, <2>12, <2>13 DEF AgentAnswers
  <2>15. \/ f.world = d.world /\ Continues(p, f.events, Asides)
         \/ ActorWrites(conf, d, e, p, f.events, f.world)
    <3>1. CASE Onward(b, f)
      BY <1>6, <2>2, <3>1 DEF Onward
    <3>2. CASE ActorActs(conf, b, i, f)
      <4> DEFINE rule == conf.chaos[i]
                 act == ActorRow(d, rule, d.rules[i].calls + 1)
      <4>1. i \in DOMAIN conf.chaos /\ i # NoRule /\ rule.type = "concurrent_mutation"
        BY <3>2 DEF ActorActs, RulesParsed, NoRule
      <4>2. b.rules[i].calls = d.rules[i].calls + 1
        BY <2>1, <2>2, <2>3, <4>1 DEF Counted, Tallied
      <4>3. e.rules[i].calls = b.rules[i].calls
        BY <2>6, <4>1 DEF Tallied
      <4>4. ActorRow(b, rule, b.rules[i].calls) = act
        BY <1>6, <2>2, <4>2 DEF ActorRow
      <4>5. Wrote(conf.seed, d.world, act, rule.actor, f.world)
        BY <1>6, <2>2, <3>2, <4>4 DEF ActorActs
      <4>6. \E inj, m : /\ inj.type = "chaos.injected" /\ inj.rule = rule.id
                        /\ m.type = "chaos.actor_mutation" /\ Tells(m, act, rule.actor)
                        /\ f.events = Append(Append(p, inj), m)
        BY <2>2, <3>2, <4>4 DEF ActorActs
      <4> QED
        BY <4>1, <4>2, <4>3, <4>5, <4>6 DEF ActorWrites
    <3> QED
      BY <2>8, <3>1, <3>2
  <2>16. Passed(conf, d, call, p, e.callIndex, TRUE)
    BY <1>7, <1>9, <2>9, <2>10, <2>12 DEF Passed
  <2>17. CallGoes(conf, d, call, e)
    BY <2>9, <2>10, <2>12, <2>14, <2>15, <2>16 DEF CallGoes
  <2> QED
    BY <2>17 DEF e
<1> QED
  BY <1>8, <1>9

(***************************************************************************)
(* Who wrote the rows the ledger tells of.                                 *)
(***************************************************************************)
(* The rows a configuration can write have names of their own. *)
NamedApart(conf) ==
    \A row \in RowNames(conf) :
        /\ \A other \in RowNames(conf) : IssueName(row) = IssueName(other) => row = other
        /\ IssueName(row) \notin IssueIds(conf.seed)

(* What is assumed of a configuration and of the calls made under it. *)
Sound(conf) ==
    /\ RulesParsed(conf) /\ ActorsBound(conf) /\ Seeded(conf.seed) /\ NamedApart(conf)
    /\ \A i \in DOMAIN conf.chaos :
          conf.chaos[i].type = "concurrent_mutation" => conf.chaos[i].actor.amount \in Int

LEMMA ConfigsSound ==
  ASSUME NEW conf \in Configs
  PROVE  /\ Sound(conf) /\ conf.ops \subseteq Operations
         /\ \A call \in Calls(conf) : call.amount \in Int
<1>1. Creatable(conf) /\ DOMAIN conf.chaos \subseteq Nat \ {0} /\ conf.ops \subseteq Operations
  BY DispatchAssumption
<1>2. RulesParsed(conf)
  BY <1>1, NewRunBalanced
<1>3. \A i \in DOMAIN conf.chaos :
          conf.chaos[i].type = "concurrent_mutation" => conf.chaos[i].actor.op \in Operations
  <2> SUFFICES ASSUME NEW i \in DOMAIN conf.chaos, conf.chaos[i].type = "concurrent_mutation"
               PROVE  conf.chaos[i].actor.op \in conf.ops
    BY <1>1
  <2>1. ParseRule(conf.chaos[i], conf.ops)
    BY <1>1, Zenon DEF Creatable, ParseChaos
  <2> QED
    BY <2>1, ZenonT(30) DEF ParseRule
<1>4. Seeded(conf.seed)
  BY WorldsAssumption DEF Seeded
<1>5. /\ \A call \in Calls(conf) : call.amount \in Int
      /\ \A i \in DOMAIN conf.chaos :
            conf.chaos[i].type = "concurrent_mutation" => conf.chaos[i].actor.amount \in Int
  BY WorldsAssumption DEF Writers
<1>6. NamedApart(conf)
  BY IssueNames DEF NamedApart, IssueIds
<1> QED
  BY <1>1, <1>2, <1>3, <1>4, <1>5, <1>6 DEF Sound, ActorsBound

(* An agent's row is named after an answered call, an actor's after a rule *)
(* and a match number the rule has reached.                                *)
Known(conf, ids, rules, m) ==
    /\ m.type = "state.mutation" => \E id \in ids : m.row = RowOf(id, 0)
    /\ m.type = "chaos.actor_mutation" =>
          \E i \in DOMAIN conf.chaos : \E n \in 1..rules[i].calls : m.row = RowOf(conf.chaos[i].id, n)

KnownRows(conf, ids, rules, s) == \A k \in DOMAIN s : Known(conf, ids, rules, s[k])

LEMMA KnownMore ==
  ASSUME NEW conf, NEW ids, NEW rules, NEW s, KnownRows(conf, ids, rules, s),
         NEW more, ids \subseteq more, NEW later,
         \A i \in DOMAIN conf.chaos :
             rules[i].calls \in Nat /\ later[i].calls \in Nat /\ rules[i].calls <= later[i].calls
  PROVE  KnownRows(conf, more, later, s)
<1> SUFFICES ASSUME NEW k \in DOMAIN s PROVE Known(conf, more, later, s[k])
  BY DEF KnownRows
<1>1. Known(conf, ids, rules, s[k])
  BY DEF KnownRows
<1>2. ASSUME s[k].type = "chaos.actor_mutation"
      PROVE  \E i \in DOMAIN conf.chaos : \E n \in 1..later[i].calls : s[k].row = RowOf(conf.chaos[i].id, n)
  <2>1. PICK i \in DOMAIN conf.chaos : \E n \in 1..rules[i].calls : s[k].row = RowOf(conf.chaos[i].id, n)
    BY <1>1, <1>2 DEF Known
  <2>2. PICK n \in 1..rules[i].calls : s[k].row = RowOf(conf.chaos[i].id, n)
    BY <2>1
  <2>3. n \in 1..later[i].calls
    OBVIOUS
  <2> QED
    BY <2>2, <2>3
<1> QED
  BY <1>1, <1>2 DEF Known

LEMMA KnownAppend ==
  ASSUME NEW conf, NEW ids, NEW rules, NEW s, IsSeq(s), KnownRows(conf, ids, rules, s),
         NEW m, Known(conf, ids, rules, m)
  PROVE  KnownRows(conf, ids, rules, Append(s, m))
<1> DEFINE t == Append(s, m)
<1>1. /\ Len(s) \in Nat /\ DOMAIN s = 1..Len(s) /\ DOMAIN t = 1..(Len(s) + 1)
      /\ \A k \in 1..Len(s) : t[k] = s[k]
      /\ t[Len(s) + 1] = m
  BY AppendFacts
<1> HIDE DEF t
<1>2. \A k \in DOMAIN t : (k \in DOMAIN s /\ t[k] = s[k]) \/ t[k] = m
  BY <1>1
<1>3. KnownRows(conf, ids, rules, t)
  BY <1>2 DEF KnownRows
<1> QED
  BY <1>3 DEF t

LEMMA KnownAside ==
  ASSUME NEW conf, NEW ids, NEW rules, NEW s, KnownRows(conf, ids, rules, s),
         NEW t, NEW types, Continues(s, t, types), types \cap WriteTypes = {}
  PROVE  KnownRows(conf, ids, rules, t)
<1>1. Len(s) \in Nat /\ DOMAIN s = 1..Len(s) /\ Len(t) \in Nat /\ DOMAIN t = 1..Len(t)
  BY SeqFacts DEF Continues
<1>2. \A k \in DOMAIN t : (k \in DOMAIN s /\ t[k] = s[k]) \/ t[k].type \in types
  BY <1>1 DEF Continues
<1>3. \A m : m.type \in types => Known(conf, ids, rules, m)
  BY DEF Known, WriteTypes
<1> QED
  BY <1>2, <1>3 DEF KnownRows

(* Calls and rules stay within what the configuration allows. *)
Fits(conf, ids, rules) ==
    /\ ids \subseteq IdsOf(conf)
    /\ \A i \in DOMAIN conf.chaos :
          rules[i].calls \in Nat /\ rules[i].calls <= Cardinality(IdsOf(conf))
    /\ Cardinality(IdsOf(conf)) \in Nat

LEMMA KnownFits ==
  ASSUME NEW conf, NEW ids, NEW rules, Fits(conf, ids, rules), NEW m, m.type \in WriteTypes,
         Known(conf, ids, rules, m)
  PROVE  m.row \in RowNames(conf)
<1>1. CASE m.type = "state.mutation"
  <2>1. PICK id \in ids : m.row = RowOf(id, 0)
    BY <1>1 DEF Known
  <2>2. id \in IdsOf(conf)
    BY DEF Fits
  <2> QED
    BY <2>1, <2>2 DEF RowNames
<1>2. CASE m.type = "chaos.actor_mutation"
  <2>1. PICK i \in DOMAIN conf.chaos : \E n \in 1..rules[i].calls : m.row = RowOf(conf.chaos[i].id, n)
    BY <1>2 DEF Known
  <2>2. PICK n \in 1..rules[i].calls : m.row = RowOf(conf.chaos[i].id, n)
    BY <2>1
  <2>3. n \in 1..Cardinality(IdsOf(conf))
    BY DEF Fits
  <2> QED
    BY <2>2, <2>3 DEF RowNames
<1> QED
  BY <1>1, <1>2 DEF WriteTypes

(* A row that is new gives its issue a new name. *)
LEMMA NewIssueName ==
  ASSUME NEW conf, NamedApart(conf), NEW ids, NEW rules, Fits(conf, ids, rules),
         NEW w, NEW s, IssuesBooked(conf.seed, w, s), KnownRows(conf, ids, rules, s),
         NEW row \in RowNames(conf), NewRow(s, row)
  PROVE  IssueName(row) \notin IssueIds(w)
<1>1. IssueName(row) \notin IssueIds(conf.seed)
  BY DEF NamedApart
<1> SUFFICES ASSUME NEW made \in MadeIn(s, "ticketCreateIssue") PROVE IssueName(made[1]) # IssueName(row)
  BY <1>1 DEF IssuesBooked
<1>2. PICK k \in WritesOf(s, "ticketCreateIssue") : made = <<s[k].row, s[k].target>>
  BY DEF MadeIn
<1>3. made[1] = s[k].row /\ k \in DOMAIN s /\ s[k].type \in WriteTypes
  BY <1>2 DEF WritesOf
<1>4. s[k].row \in RowNames(conf)
  BY <1>3, KnownFits DEF KnownRows
<1>5. s[k].row # row
  BY <1>3 DEF NewRow
<1> QED
  BY <1>3, <1>4, <1>5 DEF NamedApart

-------------------------------------------------------------------------------
(* A ledger s that keeps the books of world w, its writers known. *)
Kept(conf, ids, rules, w, s) ==
    /\ IsSeq(s)
    /\ Booked(conf.seed, w, s)
    /\ KnownRows(conf, ids, rules, s)

LEMMA KeptAside ==
  ASSUME NEW conf, NEW ids, NEW rules, NEW w, NEW s, Kept(conf, ids, rules, w, s),
         NEW t, NEW types, Continues(s, t, types), types \cap WriteTypes = {}
  PROVE  Kept(conf, ids, rules, w, t)
<1>1. IsSeq(t)
  BY DEF Continues
<1>2. Booked(conf.seed, w, t)
  BY BookedAside DEF Kept
<1>3. KnownRows(conf, ids, rules, t)
  BY KnownAside DEF Kept
<1> QED
  BY <1>1, <1>2, <1>3 DEF Kept

(* The request and the policy's verdict write nothing. *)
LEMMA PassedContinues ==
  ASSUME NEW conf, NEW d, IsSeq(d.events), NEW call, NEW p, NEW index, NEW open,
         Passed(conf, d, call, p, index, open)
  PROVE  Continues(d.events, p, {"tool.request"} \cup Audits)
<1> DEFINE asked == Append(d.events, RequestEvent(call))
           types == {"tool.request"} \cup Audits
<1>1. RequestEvent(call).type \in types
  BY DEF RequestEvent
<1>2. Continues(d.events, asked, types)
  BY <1>1, ContinuesAppend
<1>3. CASE p = asked
  BY <1>2, <1>3
<1>4. ASSUME NEW audit, audit.type \in Audits, p = Append(asked, audit)
      PROVE  Continues(d.events, p, types)
  <2>1. IsSeq(asked)
    BY <1>2 DEF Continues
  <2>2. Continues(asked, p, types)
    BY <1>4, <2>1, ContinuesAppend
  <2> QED
    BY <1>2, <2>2, ContinuesTrans
<1> QED
  BY <1>3, <1>4 DEF Passed

LEMMA AsideTypes == ({"tool.request"} \cup Audits) \cap WriteTypes = {} /\ Asides \cap WriteTypes = {}
  BY DEF Audits, Asides, WriteTypes

(* The rules' call counts, and that they only grow. *)
Counts(conf, rules) == \A i \in DOMAIN conf.chaos : rules[i].calls \in Nat

CountsGrow(conf, rules, later) ==
    \A i \in DOMAIN conf.chaos : rules[i].calls <= later[i].calls

(* An actor's row is new: agents' rows have no number, other rules' rows   *)
(* are named after them, and this rule's earlier rows have lower numbers.  *)
LEMMA ActorRowNew ==
  ASSUME NEW conf, RulesParsed(conf), NEW ids, NEW rules, NEW s, KnownRows(conf, ids, rules, s),
         NEW i \in DOMAIN conf.chaos, rules[i].calls \in Nat
  PROVE  NewRow(s, RowOf(conf.chaos[i].id, rules[i].calls + 1))
<1> DEFINE row == RowOf(conf.chaos[i].id, rules[i].calls + 1)
<1>1. row.by = conf.chaos[i].id /\ row.n = rules[i].calls + 1
  BY DEF RowOf
<1> HIDE DEF row
<1> SUFFICES ASSUME NEW k \in DOMAIN s, s[k].type \in WriteTypes, s[k].row = row PROVE FALSE
  BY DEF NewRow, row
<1>2. Known(conf, ids, rules, s[k])
  BY DEF KnownRows
<1>3. CASE s[k].type = "state.mutation"
  <2>1. PICK id \in ids : s[k].row = RowOf(id, 0)
    BY <1>2, <1>3 DEF Known
  <2>2. s[k].row.n = 0
    BY <2>1 DEF RowOf
  <2> QED
    BY <1>1, <2>2
<1>4. CASE s[k].type = "chaos.actor_mutation"
  <2>1. PICK j \in DOMAIN conf.chaos : \E n \in 1..rules[j].calls : s[k].row = RowOf(conf.chaos[j].id, n)
    BY <1>2, <1>4 DEF Known
  <2>2. PICK n \in 1..rules[j].calls : s[k].row = RowOf(conf.chaos[j].id, n)
    BY <2>1
  <2>3. s[k].row.by = conf.chaos[j].id /\ s[k].row.n = n
    BY <2>2 DEF RowOf
  <2>4. j = i
    BY <1>1, <2>3 DEF RulesParsed
  <2> QED
    BY <1>1, <2>3, <2>4
<1> QED
  BY <1>3, <1>4 DEF WriteTypes

(* An unanswered call has written nothing. *)
LEMMA OpenCallNew ==
  ASSUME NEW conf, NEW ids, NEW rules, Counts(conf, rules), NEW s, KnownRows(conf, ids, rules, s),
         NEW id, id \notin ids
  PROVE  NewRow(s, RowOf(id, 0))
<1> DEFINE row == RowOf(id, 0)
<1>1. row.by = id /\ row.n = 0
  BY DEF RowOf
<1> HIDE DEF row
<1> SUFFICES ASSUME NEW k \in DOMAIN s, s[k].type \in WriteTypes, s[k].row = row PROVE FALSE
  BY DEF NewRow, row
<1>2. Known(conf, ids, rules, s[k])
  BY DEF KnownRows
<1>3. CASE s[k].type = "state.mutation"
  <2>1. PICK other \in ids : s[k].row = RowOf(other, 0)
    BY <1>2, <1>3 DEF Known
  <2>2. s[k].row.by = other
    BY <2>1 DEF RowOf
  <2> QED
    BY <1>1, <2>2
<1>4. CASE s[k].type = "chaos.actor_mutation"
  <2>1. PICK j \in DOMAIN conf.chaos : \E n \in 1..rules[j].calls : s[k].row = RowOf(conf.chaos[j].id, n)
    BY <1>2, <1>4 DEF Known
  <2>2. PICK n \in 1..rules[j].calls : s[k].row = RowOf(conf.chaos[j].id, n)
    BY <2>1
  <2>3. s[k].row.n = n /\ n \in Nat /\ n >= 1
    BY <2>2 DEF RowOf, Counts
  <2> QED
    BY <1>1, <2>3
<1> QED
  BY <1>3, <1>4 DEF WriteTypes

LEMMA KeptActor ==
  ASSUME NEW conf, Sound(conf), NEW ids, NEW d, d.run = "root", NEW e, NEW p,
         Kept(conf, ids, d.rules, d.world, p),
         Counts(conf, d.rules), Fits(conf, ids, e.rules), CountsGrow(conf, d.rules, e.rules),
         NEW q, NEW w, ActorWrites(conf, d, e, p, q, w)
  PROVE  Kept(conf, ids, e.rules, w, q)
<1>1. PICK i \in DOMAIN conf.chaos :
          LET rule == conf.chaos[i]
              row == ActorRow(d, rule, d.rules[i].calls + 1)
          IN  /\ rule.type = "concurrent_mutation"
              /\ e.rules[i].calls = d.rules[i].calls + 1
              /\ Wrote(conf.seed, d.world, row, rule.actor, w)
              /\ \E inj, m : /\ inj.type = "chaos.injected" /\ inj.rule = rule.id
                             /\ m.type = "chaos.actor_mutation" /\ Tells(m, row, rule.actor)
                             /\ q = Append(Append(p, inj), m)
  BY DEF ActorWrites
<1> DEFINE rule == conf.chaos[i]
           row == RowOf(rule.id, d.rules[i].calls + 1)
<1>2. ActorRow(d, rule, d.rules[i].calls + 1) = row
  BY DEF ActorRow, RowOf
<1>3. PICK inj, m : /\ inj.type = "chaos.injected"
                    /\ m.type = "chaos.actor_mutation" /\ Tells(m, row, rule.actor)
                    /\ q = Append(Append(p, inj), m)
  BY <1>1, <1>2
<1>4. Wrote(conf.seed, d.world, row, rule.actor, w) /\ e.rules[i].calls = d.rules[i].calls + 1
  BY <1>1, <1>2
<1>5. m.row = row
  BY <1>3 DEF Tells
<1> DEFINE u == Append(p, inj)
<1>6. Continues(p, u, Asides)
  BY <1>3, ContinuesAppend DEF Kept, Asides
<1>7. Kept(conf, ids, d.rules, d.world, u)
  BY <1>6, AsideTypes, KeptAside
<1> HIDE DEF u
<1>8. KnownRows(conf, ids, e.rules, u)
  BY <1>7, KnownMore DEF Kept, Counts, Fits, CountsGrow
<1>9. Known(conf, ids, e.rules, m)
  <2>1. d.rules[i].calls + 1 \in 1..e.rules[i].calls
    BY <1>4 DEF Counts
  <2> QED
    BY <1>3, <1>5, <2>1 DEF Known
<1>10. row \in RowNames(conf)
  BY <1>3, <1>5, <1>9, KnownFits DEF WriteTypes
<1>11. NewRow(u, row)
  BY <1>7, ActorRowNew DEF Kept, Sound, Counts
<1>12. row.run # "SEED"
  BY DEF RowOf
<1> HIDE DEF row
<1>13. IssueName(row) \notin IssueIds(d.world)
  BY <1>7, <1>8, <1>10, <1>11, NewIssueName DEF Sound, Kept, Booked
<1>14. rule.actor.amount \in Int /\ Seeded(conf.seed) /\ IsSeq(u) /\ Booked(conf.seed, d.world, u)
  BY <1>1, <1>7 DEF Sound, Kept
<1>15. Booked(conf.seed, w, Append(u, m))
  BY <1>3, <1>4, <1>11, <1>12, <1>13, <1>14, BookedWrite
<1>16. IsSeq(Append(u, m)) /\ KnownRows(conf, ids, e.rules, Append(u, m))
  BY <1>8, <1>9, <1>14, AppendFacts, KnownAppend
<1> QED
  BY <1>3, <1>15, <1>16 DEF Kept, u

LEMMA KeptAgent ==
  ASSUME NEW conf, Sound(conf), NEW d, d.run = "root", NEW call, call.amount \in Int,
         NEW ids, call.id \notin ids, NEW e, Fits(conf, ids \cup {call.id}, e.rules),
         NEW q, NEW w, Kept(conf, ids, e.rules, w, q),
         AgentAnswers(conf, d, call, e, q, w)
  PROVE  Kept(conf, ids \cup {call.id}, e.rules, e.world, e.events)
<1> DEFINE more == ids \cup {call.id}
<1>1. PICK x, r :
          /\ Continues(q, x, Asides)
          /\ r.type = "tool.response"
          /\ \/ e.world = w /\ e.events = Append(x, r)
             \/ /\ Wrote(conf.seed, w, AgentRow(d, call), call, e.world)
                /\ \E m : /\ m.type = "state.mutation" /\ Tells(m, AgentRow(d, call), call)
                          /\ e.events = Append(Append(x, m), r)
  BY DEF AgentAnswers
<1>2. Kept(conf, ids, e.rules, w, x)
  BY <1>1, AsideTypes, KeptAside
<1>3. \A v, t : Kept(conf, more, e.rules, v, t) => Kept(conf, more, e.rules, v, Append(t, r))
  <2> SUFFICES ASSUME NEW v, NEW t, Kept(conf, more, e.rules, v, t)
               PROVE  Kept(conf, more, e.rules, v, Append(t, r))
    OBVIOUS
  <2>1. Continues(t, Append(t, r), {"tool.response"})
    BY <1>1, ContinuesAppend DEF Kept
  <2>2. {"tool.response"} \cap WriteTypes = {}
    BY DEF WriteTypes
  <2> QED
    BY <2>1, <2>2, KeptAside
<1>4. Counts(conf, e.rules)
  BY DEF Fits, Counts
<1>5. ids \subseteq more /\ call.id \in more
  OBVIOUS
<1> HIDE DEF more
<1>6. Kept(conf, more, e.rules, w, x)
  BY <1>2, <1>4, <1>5, KnownMore DEF Kept, Counts
<1>7. CASE e.world = w /\ e.events = Append(x, r)
  BY <1>3, <1>6, <1>7 DEF more
<1>8. ASSUME Wrote(conf.seed, w, AgentRow(d, call), call, e.world),
             NEW m, m.type = "state.mutation", Tells(m, AgentRow(d, call), call),
             e.events = Append(Append(x, m), r)
      PROVE  Kept(conf, more, e.rules, e.world, e.events)
  <2> DEFINE row == RowOf(call.id, 0)
             t == Append(x, m)
  <2>1. AgentRow(d, call) = row /\ row.run # "SEED"
    BY DEF AgentRow, RowOf
  <2>2. Wrote(conf.seed, w, row, call, e.world) /\ Tells(m, row, call) /\ m.row = row
    BY <1>8, <2>1 DEF Tells
  <2>3. NewRow(x, row)
    BY <1>2, <1>4, OpenCallNew DEF Kept
  <2>4. Known(conf, more, e.rules, m)
    BY <1>5, <1>8, <2>2 DEF Known
  <2> HIDE DEF row
  <2>5. row \in RowNames(conf)
    BY <1>8, <2>2, <2>4, KnownFits DEF WriteTypes, more
  <2>6. IssueName(row) \notin IssueIds(w)
    BY <1>6, <2>3, <2>5, NewIssueName DEF Sound, Kept, Booked, more
  <2>7. Seeded(conf.seed) /\ IsSeq(x) /\ Booked(conf.seed, w, x)
    BY <1>2 DEF Kept, Sound
  <2>8. Booked(conf.seed, e.world, t)
    BY <2>1, <2>2, <2>3, <2>6, <2>7, BookedWrite
  <2>9. IsSeq(t) /\ KnownRows(conf, more, e.rules, t)
    BY <1>6, <2>4, <2>7, AppendFacts, KnownAppend DEF Kept
  <2>10. Kept(conf, more, e.rules, e.world, t)
    BY <2>8, <2>9 DEF Kept
  <2> QED
    BY <1>3, <1>8, <2>10
<1> QED
  BY <1>1, <1>7, <1>8 DEF more

(* An answered call keeps the books. *)
LEMMA KeptCall ==
  ASSUME NEW conf, Sound(conf), NEW d, d.run = "root", NEW ids, Kept(conf, ids, d.rules, d.world, d.events),
         NEW call, call.amount \in Int, call.id \notin ids,
         NEW e, Counts(conf, d.rules), Fits(conf, ids \cup {call.id}, e.rules), CountsGrow(conf, d.rules, e.rules),
         CallGoes(conf, d, call, e)
  PROVE  Kept(conf, ids \cup {call.id}, e.rules, e.world, e.events)
<1> DEFINE more == ids \cup {call.id}
<1>1. PICK p :
          \/ /\ Passed(conf, d, call, p, e.callIndex, FALSE)
             /\ e.world = d.world
             /\ \E r : r.type = "tool.response" /\ e.events = Append(p, r)
          \/ /\ Passed(conf, d, call, p, e.callIndex, TRUE)
             /\ \E q, w : /\ (w = d.world /\ Continues(p, q, Asides)) \/ ActorWrites(conf, d, e, p, q, w)
                          /\ AgentAnswers(conf, d, call, e, q, w)
  BY DEF CallGoes
<1>2. Continues(d.events, p, {"tool.request"} \cup Audits)
  BY <1>1, PassedContinues DEF Kept
<1>3. Kept(conf, ids, d.rules, d.world, p)
  BY <1>2, AsideTypes, KeptAside
<1>4. Fits(conf, ids, e.rules)
  BY DEF Fits
<1>5. \A w, t : /\ Kept(conf, ids, d.rules, w, t) => Kept(conf, ids, e.rules, w, t)
                /\ Kept(conf, ids, e.rules, w, t) => Kept(conf, more, e.rules, w, t)
  <2> SUFFICES ASSUME NEW w, NEW t
               PROVE  /\ KnownRows(conf, ids, d.rules, t) => KnownRows(conf, ids, e.rules, t)
                      /\ KnownRows(conf, ids, e.rules, t) => KnownRows(conf, more, e.rules, t)
    BY DEF Kept
  <2>1. ids \subseteq ids /\ ids \subseteq more
    OBVIOUS
  <2> HIDE DEF more
  <2> QED
    BY <1>4, <2>1, KnownMore DEF Counts, CountsGrow, Fits
<1>6. CASE /\ e.world = d.world
           /\ \E r : r.type = "tool.response" /\ e.events = Append(p, r)
  <2>1. PICK r : r.type = "tool.response" /\ e.events = Append(p, r)
    BY <1>6
  <2>2. Continues(p, e.events, {"tool.response"})
    BY <1>3, <2>1, ContinuesAppend DEF Kept
  <2>3. {"tool.response"} \cap WriteTypes = {}
    BY DEF WriteTypes
  <2>4. Kept(conf, ids, d.rules, d.world, e.events)
    BY <1>3, <2>2, <2>3, KeptAside
  <2> HIDE DEF more
  <2> QED
    BY <1>5, <1>6, <2>4 DEF more
<1>7. ASSUME NEW q, NEW w, (w = d.world /\ Continues(p, q, Asides)) \/ ActorWrites(conf, d, e, p, q, w),
             AgentAnswers(conf, d, call, e, q, w)
      PROVE  Kept(conf, more, e.rules, e.world, e.events)
  <2>1. Kept(conf, ids, e.rules, w, q)
    <3>1. CASE w = d.world /\ Continues(p, q, Asides)
      BY <1>3, <1>5, <3>1, AsideTypes, KeptAside
    <3>2. CASE ActorWrites(conf, d, e, p, q, w)
      BY <1>3, <1>4, <3>2, KeptActor
    <3> QED
      BY <1>7, <3>1, <3>2
  <2> QED
    BY <1>7, <2>1, KeptAgent
<1> QED
  BY <1>1, <1>6, <1>7

(***************************************************************************)
(* The books of a run.                                                     *)
(***************************************************************************)
Books(conf, d) ==
    /\ IsRun(d) /\ d.run = "root"
    /\ Balanced(conf, d)
    /\ AnsweredIds(d) \subseteq IdsOf(conf)
    /\ \A i \in DOMAIN conf.chaos : d.rules[i].calls <= Cardinality(AnsweredIds(d))
    /\ Kept(conf, AnsweredIds(d), d.rules, d.world, d.events)

LEMMA NewRunBooks ==
  ASSUME NEW conf \in Configs
  PROVE  Books(conf, NewRun(conf))
<1> DEFINE d == NewRun(conf)
           e == [type |-> "execution.started"]
<1>1. Creatable(conf) /\ DOMAIN conf.chaos \subseteq Nat \ {0}
  BY DispatchAssumption
<1>2. IsRun(d) /\ d.events = <<e>>
  BY NewRunFacts
<1>3. Balanced(conf, d)
  BY <1>1, NewRunBalanced
<1>4. d.run = "root" /\ d.world = World(conf.seed)
  BY DEF NewRun
<1>5. \A k \in DOMAIN <<e>> : <<e>>[k].type \notin WriteTypes
  BY DEF WriteTypes
<1> HIDE DEF d, e
<1>6. \A op : WritesOf(d.events, op) = {}
  BY <1>2, <1>5 DEF WritesOf
<1>7. Booked(conf.seed, d.world, d.events)
  BY <1>2, <1>4, <1>6, ConfigsSound, NewBooked DEF Sound, IsRun
<1>8. KnownRows(conf, AnsweredIds(d), d.rules, d.events)
  BY <1>2, <1>5 DEF KnownRows, Known, WriteTypes
<1>9. /\ AnsweredIds(d) = {}
      /\ \A i \in DOMAIN conf.chaos : d.rules[i].calls = 0
  BY DEF AnsweredIds, NewRun, d
<1>10. /\ AnsweredIds(d) \subseteq IdsOf(conf)
       /\ \A i \in DOMAIN conf.chaos : d.rules[i].calls <= Cardinality(AnsweredIds(d))
  BY <1>9, FS_EmptySet
<1> QED
  BY <1>2, <1>3, <1>4, <1>7, <1>8, <1>10 DEF Books, Kept, IsRun, d

LEMMA BooksCall ==
  ASSUME NEW conf \in Configs, NEW d, Books(conf, d), NEW call \in Calls(conf),
         Invoke(conf, d, call).ok, Saved(d, call) = {}, call.op \in conf.ops,
         NEW answer, AnsweredWith(d, Invoke(conf, d, call).db, call, answer)
  PROVE  Books(conf, Invoke(conf, d, call).db)
<1> DEFINE e == Invoke(conf, d, call).db
<1>1. IsRun(e) /\ e.run = d.run /\ e.results = d.results \cup {Result(call, answer)}
  BY DEF AnsweredWith
<1>2. Sound(conf) /\ call.amount \in Int /\ call.op \in Operations
  BY ConfigsSound
<1>3. Balanced(conf, e)
  BY <1>1, <1>2, BalancedStep DEF Books, Sound
<1>4. CallGoes(conf, d, call, e)
  BY <1>2, CallShape DEF Books, Balanced, Sound
<1>5. Counts(conf, d.rules) /\ Counts(conf, e.rules)
  BY <1>3 DEF Books, Balanced, CountersInRange, Counts
<1>6. /\ CountsGrow(conf, d.rules, e.rules)
      /\ \A i \in DOMAIN conf.chaos : e.rules[i].calls <= d.rules[i].calls + 1
  <2>1. \/ Counted(conf, d, call, e)
        \/ \A j \in DOMAIN conf.chaos : e.rules[j].calls = d.rules[j].calls
    BY <1>2, InvokeTallies DEF Books, Balanced, Sound
  <2> HIDE DEF e
  <2> QED
    BY <1>5, <2>1 DEF Counted, Counts, CountsGrow
<1> HIDE DEF e
<1>7. AnsweredIds(e) = AnsweredIds(d) \cup {call.id} /\ call.id \notin AnsweredIds(d)
  <2> DEFINE new == Result(call, answer)
  <2>1. new.call = call /\ e.results = d.results \cup {new}
    BY <1>1 DEF Result
  <2> HIDE DEF new
  <2>2. AnsweredIds(e) = AnsweredIds(d) \cup {call.id}
    BY <2>1 DEF AnsweredIds
  <2>3. call.id \notin AnsweredIds(d)
    BY DEF AnsweredIds, Saved
  <2> QED
    BY <2>2, <2>3
<1>8. /\ AnsweredIds(e) \subseteq IdsOf(conf)
      /\ \A i \in DOMAIN conf.chaos : e.rules[i].calls <= Cardinality(AnsweredIds(e))
      /\ Fits(conf, AnsweredIds(e), e.rules)
  <2>1. IsFiniteSet(IdsOf(conf)) /\ Cardinality(IdsOf(conf)) \in Nat
    <3>1. IsFiniteSet(Calls(conf))
      BY DispatchAssumption
    <3> DEFINE id == [c \in Calls(conf) |-> c.id]
    <3>2. id \in Surjection(Calls(conf), IdsOf(conf))
      BY DEF Surjection, IdsOf
    <3> QED
      BY <3>1, <3>2, FS_Surjection, FS_CardinalityType
  <2>2. AnsweredIds(e) \subseteq IdsOf(conf)
    BY <1>7 DEF Books, IdsOf
  <2>3. /\ IsFiniteSet(AnsweredIds(d)) /\ Cardinality(AnsweredIds(d)) \in Nat
        /\ Cardinality(AnsweredIds(e)) = Cardinality(AnsweredIds(d)) + 1
        /\ Cardinality(AnsweredIds(e)) <= Cardinality(IdsOf(conf))
    <3>1. IsFiniteSet(AnsweredIds(d))
      BY <2>1, FS_Subset DEF Books
    <3> QED
      BY <1>7, <2>1, <2>2, <3>1, FS_Subset, FS_AddElement, FS_CardinalityType
  <2>4. \A i \in DOMAIN conf.chaos : e.rules[i].calls <= Cardinality(AnsweredIds(e))
    BY <1>5, <1>6, <2>3 DEF Books, Counts
  <2>5. \A i \in DOMAIN conf.chaos : e.rules[i].calls \in Nat /\ e.rules[i].calls <= Cardinality(IdsOf(conf))
    BY <1>5, <2>1, <2>3, <2>4 DEF Counts
  <2> QED
    BY <2>1, <2>2, <2>4, <2>5 DEF Fits
<1>9. Kept(conf, AnsweredIds(e), e.rules, e.world, e.events)
  <2> DEFINE ids == AnsweredIds(d)
  <2>1. Kept(conf, ids, d.rules, d.world, d.events)
    BY DEF Books
  <2>2. /\ call.id \notin ids /\ AnsweredIds(e) = ids \cup {call.id} /\ d.run = "root"
        /\ Fits(conf, ids \cup {call.id}, e.rules)
    BY <1>7, <1>8 DEF Books
  <2> HIDE DEF ids
  <2>3. Kept(conf, ids \cup {call.id}, e.rules, e.world, e.events)
    BY <1>2, <1>4, <1>5, <1>6, <2>1, <2>2, KeptCall
  <2> QED
    BY <2>2, <2>3
<1> QED
  BY <1>1, <1>3, <1>8, <1>9 DEF Books, e

(* Books is an invariant of the dispatcher: after every call the rows of   *)
(* the world, the rules' counters and the ledger belong together, and no   *)
(* name is in use that the next call could give again.                     *)
THEOREM BooksKept == Spec => [](cfg \in Configs /\ Books(cfg, db))
<1> DEFINE Inv == cfg \in Configs /\ Books(cfg, db)
<1>1. Init => Inv
  BY NewRunBooks DEF Init
<1>2. Inv /\ [Next]_vars => Inv'
  <2> SUFFICES ASSUME Inv, [Next]_vars PROVE Inv'
    OBVIOUS
  <2>1. CASE UNCHANGED vars
    BY <2>1 DEF vars
  <2>2. ASSUME NEW call \in Calls(cfg), InvokeCommit(call) PROVE Inv'
    <3> DEFINE r == Invoke(cfg, db, call)
    <3>1. db' = r.db /\ cfg' = cfg /\ r.ok
      BY <2>2 DEF InvokeCommit
    <3>2. \/ r.db = db
          \/ /\ Saved(db, call) = {} /\ call.op \in cfg.ops
             /\ \E answer : AnsweredWith(db, r.db, call, answer)
      BY ConfigsSound, CallIsBracketed DEF Books, Sound, RulesParsed
    <3>3. CASE r.db = db
      BY <3>1, <3>3
    <3>4. ASSUME Saved(db, call) = {}, call.op \in cfg.ops,
                 NEW answer, AnsweredWith(db, r.db, call, answer)
          PROVE  Inv'
      <4>1. Books(cfg, r.db)
        BY <3>1, <3>4, BooksCall
      <4> HIDE DEF r
      <4> QED
        BY <3>1, <4>1
    <3> QED
      BY <3>2, <3>3, <3>4
  <2>3. ASSUME NEW call \in Calls(cfg), InvokeError(call) PROVE Inv'
    BY <2>1, <2>3 DEF InvokeError
  <2> QED
    BY <2>1, <2>2, <2>3 DEF Next
<1> QED
  BY <1>1, <1>2, PTL DEF Spec

(* The moves of an issue that has moved as its status tells. *)
LEMMA MovesTell ==
  ASSUME NEW s, IsSeq(s), NEW i, HasMoved(s, i)
  PROVE  LET moves == WritesOn(s, "ticketTransitionIssue", i.id)
         IN  /\ i.status = IF moves = {} THEN "open" ELSE s[Max(moves)].text
             /\ {s[k].text : k \in moves} \in {{}, {"in_progress"}, {"in_progress", "resolved"}}
             /\ Cardinality(moves) <= 2
<1> DEFINE moves == WritesOn(s, "ticketTransitionIssue", i.id)
           texts == {s[k].text : k \in moves}
<1>1. moves \subseteq Nat
  BY SeqFacts DEF WritesOn, WritesOf
<1>2. \/ i.status = "open" /\ moves = {}
      \/ i.status = "in_progress" /\ \E a : moves = {a} /\ s[a].text = "in_progress"
      \/ /\ i.status = "resolved"
         /\ \E a, b : /\ moves = {a, b} /\ a < b
                      /\ s[a].text = "in_progress" /\ s[b].text = "resolved"
  BY DEF HasMoved
<1> HIDE DEF moves
<1>3. ASSUME i.status = "open", moves = {}
      PROVE  /\ i.status = IF moves = {} THEN "open" ELSE s[Max(moves)].text
             /\ texts = {}
             /\ Cardinality(moves) <= 2
  <2>1. Cardinality(moves) = 0
    BY <1>3, FS_EmptySet
  <2> QED
    BY <1>3, <2>1
<1>4. ASSUME i.status = "in_progress", NEW a, moves = {a}, s[a].text = "in_progress"
      PROVE  /\ i.status = IF moves = {} THEN "open" ELSE s[Max(moves)].text
             /\ texts = {"in_progress"}
             /\ Cardinality(moves) <= 2
  <2>1. Max(moves) = a
    BY <1>1, <1>4, MaxFacts
  <2>2. Cardinality(moves) = 1
    BY <1>4, FS_Singleton
  <2> QED
    BY <1>4, <2>1, <2>2
<1>5. ASSUME i.status = "resolved", NEW a, NEW b, moves = {a, b}, a < b,
             s[a].text = "in_progress", s[b].text = "resolved"
      PROVE  /\ i.status = IF moves = {} THEN "open" ELSE s[Max(moves)].text
             /\ texts = {"in_progress", "resolved"}
             /\ Cardinality(moves) <= 2
  <2>1. a \in Nat /\ b \in Nat
    BY <1>1, <1>5
  <2>2. Max(moves) = b
    BY <1>1, <1>5, <2>1, MaxFacts
  <2>3. Cardinality(moves) = 2
    <3>1. IsFiniteSet({a}) /\ Cardinality({a}) = 1 /\ b \notin {a} /\ moves = {a} \cup {b}
      BY <1>5, <2>1, FS_Singleton
    <3> QED
      BY <3>1, FS_AddElement
  <2> QED
    BY <1>5, <2>2, <2>3
<1> HIDE DEF texts
<1>6. /\ i.status = IF moves = {} THEN "open" ELSE s[Max(moves)].text
      /\ texts \in {{}, {"in_progress"}, {"in_progress", "resolved"}}
      /\ Cardinality(moves) <= 2
  <2>1. \/ texts = {}
        \/ texts = {"in_progress"}
        \/ texts = {"in_progress", "resolved"}
    BY <1>2, <1>3, <1>4, <1>5, Zenon
  <2> QED
    BY <1>2, <1>3, <1>4, <1>5, <2>1
<1> QED
  BY <1>6 DEF moves, texts

(* The books balance in every reachable state, for every seed, policy and  *)
(* sequence of calls: refunds, notes, issues, comments and messages are    *)
(* those the ledger tells of, one event each, a charge has given back      *)
(* exactly the sum of its refunds and no more than was charged, and        *)
(* accounts and issues have the status of their last mutation, with no     *)
(* status skipped.                                                         *)
THEOREM BooksAreBalanced == Spec => []BooksBalance
<1>1. cfg \in Configs /\ Books(cfg, db) => BooksBalance
  <2> SUFFICES ASSUME cfg \in Configs, Books(cfg, db) PROVE BooksBalance
    OBVIOUS
  <2> DEFINE s == db.events
             w == db.world
             seed == cfg.seed
             refunds == {j \in Mutations : Events[j].op = "createRefund"}
  <2>1. IsSeq(s) /\ Booked(seed, w, s)
    BY DEF Books, Kept
  <2>2. Len(s) \in Nat /\ DOMAIN s = 1..Len(s)
    BY <2>1, SeqFacts
  <2>3. \A op : {j \in Mutations : Events[j].op = op} = WritesOf(s, op)
    BY DEF Mutations, OfType, Events, WritesOf, WriteTypes
  <2>4. \A op : Made(op) = MadeIn(s, op)
    BY <2>3 DEF Made, MadeIn, Events
  <2>5. \A op, target : MutationsOf(op, target, End) = WritesOn(s, op, target)
    <3> SUFFICES ASSUME NEW op, NEW target PROVE MutationsOf(op, target, End) = WritesOn(s, op, target)
      OBVIOUS
    <3>1. \A j \in Mutations : j < End
      BY <2>2 DEF Mutations, OfType, Events, End
    <3> QED
      BY <2>3, <3>1 DEF MutationsOf, WritesOn, Events
  <2>6. \A op, target, seeded : StatusAfter(op, target, seeded) =
            IF WritesOn(s, op, target) = {} THEN seeded ELSE s[Max(WritesOn(s, op, target))].text
    BY <2>5 DEF StatusAfter, Events, End
  <2>7. w.refunds = {[id |-> Events[k].row, charge |-> Events[k].target, amount |-> Events[k].amount] : k \in refunds}
    <3>1. refunds = WritesOf(s, "createRefund")
      BY <2>3
    <3> QED
      BY <2>1, <3>1 DEF Booked, RefundsBooked, RefundRow, Events
  <2>8. Cardinality(refunds) = Cardinality(w.refunds)
    BY <2>1, <2>3 DEF Booked, RefundsBooked
  <2>9. \A c \in ChargeIds(seed) : w.refunded[c] = RefundedBefore(c, End) /\ w.refunded[c] <= Charged(seed, c)
    <3>1. Len(Events) = Len(s) /\ End - 1 = Len(s)
      BY <2>2 DEF End, Events
    <3> QED
      BY <2>1, <3>1 DEF Booked, MoneyBooked, RefundedBefore, Events
  <2>10. /\ {<<n.id, n.account>> : n \in w.notes \ seed.notes} = Made("crmAddAccountNote")
         /\ {<<m.id, m.channel>> : m \in w.messages} = Made("messagePostMessage")
         /\ {<<c.id, c.issue>> : c \in w.comments \ seed.comments} = Made("ticketAddComment")
    BY <2>1, <2>4 DEF Booked, NotesBooked, MessagesBooked, CommentsBooked
  <2>11. {i.id : i \in w.issues} =
             {i.id : i \in seed.issues} \cup {IssueName(made[1]) : made \in Made("ticketCreateIssue")}
    BY <2>1, <2>4 DEF Booked, IssuesBooked, IssueIds
  <2>12. \A a \in DOMAIN seed.accounts :
             w.status[a] = StatusAfter("crmUpdateAccountStatus", a, seed.accounts[a].status)
    BY <2>1, <2>6 DEF Booked, StatusBooked
  <2>13. ASSUME NEW i \in w.issues
         PROVE  /\ i.status = StatusAfter("ticketTransitionIssue", i.id, "open")
                /\ {Events[k].text : k \in MutationsOf("ticketTransitionIssue", i.id, End)} \in
                      {{}, {"in_progress"}, {"in_progress", "resolved"}}
                /\ Cardinality(MutationsOf("ticketTransitionIssue", i.id, End)) <= 2
    <3> DEFINE moves == WritesOn(s, "ticketTransitionIssue", i.id)
    <3>1. /\ i.status = IF moves = {} THEN "open" ELSE s[Max(moves)].text
          /\ {s[k].text : k \in moves} \in {{}, {"in_progress"}, {"in_progress", "resolved"}}
          /\ Cardinality(moves) <= 2
      BY <2>1, MovesTell DEF Booked, MovesBooked
    <3>2. MutationsOf("ticketTransitionIssue", i.id, End) = moves
      BY <2>5
    <3>3. i.status = StatusAfter("ticketTransitionIssue", i.id, "open")
      BY <2>6, <3>1
    <3> QED
      BY <3>1, <3>2, <3>3 DEF Events
  <2> QED
    BY <2>7, <2>8, <2>9, <2>10, <2>11, <2>12, <2>13 DEF BooksBalance
<1> QED
  BY <1>1, BooksKept, PTL

(***************************************************************************)
(* What an agent was permitted when it wrote.                              *)
(***************************************************************************)
AuditsIn(s) == {k \in DOMAIN s : s[k].type \in Audits}

AuditsBefore(s, k) == {j \in AuditsIn(s) : j < k}

(* The policy has given out n call numbers. *)
Numbered(s, n) == IsFiniteSet(AuditsIn(s)) /\ Cardinality(AuditsIn(s)) = n

(* A call of an operation with number n is granted, and not revoked. *)
Licensed(auth, op, n) ==
    /\ \A r \in auth.revoked : r.permission = Permission(op) => n <= r.after
    /\ Permission(op) \notin auth.allow =>
          \E g \in auth.grants : g.permission = Permission(op) /\ n \in g.from..g.to

(* A customer and a channel are in the policy's scope. *)
InScope(conf, w, call) ==
    /\ call.op \in CustomerScoped => ~OutOf(conf.auth.customers, CustomerOf(conf.seed, w, call))
    /\ call.op = "messagePostMessage" => ~OutOf(conf.auth.channels, call.target)

Permitted(conf, w, s) ==
    \A k \in DOMAIN s :
        s[k].type = "state.mutation" =>
            /\ Licensed(conf.auth, s[k].op, Cardinality(AuditsBefore(s, k)))
            /\ InScope(conf, w, s[k])

LEMMA AuditsAppend ==
  ASSUME NEW s, IsSeq(s), NEW e
  PROVE  /\ e.type \in Audits => AuditsIn(Append(s, e)) = AuditsIn(s) \cup {Len(s) + 1}
         /\ e.type \notin Audits => AuditsIn(Append(s, e)) = AuditsIn(s)
         /\ Len(s) + 1 \notin AuditsIn(s)
<1> DEFINE t == Append(s, e)
<1>1. /\ Len(s) \in Nat /\ DOMAIN s = 1..Len(s) /\ DOMAIN t = 1..(Len(s) + 1)
      /\ \A k \in 1..Len(s) : t[k] = s[k]
      /\ t[Len(s) + 1] = e
  BY AppendFacts
<1> HIDE DEF t
<1>2. /\ e.type \in Audits => AuditsIn(t) = AuditsIn(s) \cup {Len(s) + 1}
      /\ e.type \notin Audits => AuditsIn(t) = AuditsIn(s)
      /\ Len(s) + 1 \notin AuditsIn(s)
  BY <1>1 DEF AuditsIn
<1> QED
  BY <1>2 DEF t

LEMMA AuditsContinue ==
  ASSUME NEW s, NEW t, NEW types, Continues(s, t, types)
  PROVE  /\ types \cap Audits = {} => AuditsIn(t) = AuditsIn(s)
         /\ \A k \in DOMAIN s : AuditsBefore(t, k) = AuditsBefore(s, k)
<1>1. Len(s) \in Nat /\ DOMAIN s = 1..Len(s) /\ Len(t) \in Nat /\ DOMAIN t = 1..Len(t)
  BY SeqFacts DEF Continues
<1>2. /\ DOMAIN s \subseteq DOMAIN t /\ \A k \in DOMAIN s : t[k] = s[k]
      /\ \A k \in DOMAIN t \ DOMAIN s : t[k].type \in types
  BY <1>1 DEF Continues
<1>3. types \cap Audits = {} => AuditsIn(t) = AuditsIn(s)
  BY <1>2 DEF AuditsIn
<1>4. ASSUME NEW k \in DOMAIN s PROVE AuditsBefore(t, k) = AuditsBefore(s, k)
  <2>1. \A j \in DOMAIN t : j < k => j \in DOMAIN s
    BY <1>1
  <2> QED
    BY <1>2, <2>1 DEF AuditsBefore, AuditsIn
<1> QED
  BY <1>3, <1>4

LEMMA NumberedContinue ==
  ASSUME NEW s, NEW n, Numbered(s, n), NEW t, NEW types, Continues(s, t, types), types \cap Audits = {}
  PROVE  Numbered(t, n)
  BY AuditsContinue DEF Numbered

(* A call that is judged gets the next number. *)
LEMMA PassedNumbered ==
  ASSUME NEW conf, NEW d, IsSeq(d.events), Numbered(d.events, d.callIndex),
         NEW call, NEW p, NEW index, NEW open, Passed(conf, d, call, p, index, open)
  PROVE  Numbered(p, index)
<1> DEFINE asked == Append(d.events, RequestEvent(call))
<1>1. RequestEvent(call).type \notin Audits
  BY DEF RequestEvent, Audits
<1>2. IsSeq(asked) /\ Numbered(asked, d.callIndex)
  BY <1>1, AppendFacts, AuditsAppend DEF Numbered
<1> HIDE DEF asked
<1>3. CASE index = d.callIndex /\ p = asked
  BY <1>2, <1>3
<1>4. ASSUME index = d.callIndex + 1, NEW audit, audit.type \in Audits, p = Append(asked, audit)
      PROVE  Numbered(p, index)
  <2>1. AuditsIn(p) = AuditsIn(asked) \cup {Len(asked) + 1} /\ Len(asked) + 1 \notin AuditsIn(asked)
    BY <1>2, <1>4, AuditsAppend
  <2> QED
    BY <1>2, <1>4, <2>1, FS_AddElement DEF Numbered
<1> QED
  BY <1>3, <1>4 DEF Passed, asked

LEMMA PermittedContinue ==
  ASSUME NEW conf, NEW w, NEW s, Permitted(conf, w, s),
         NEW t, NEW types, Continues(s, t, types), "state.mutation" \notin types
  PROVE  Permitted(conf, w, t)
<1>1. Len(s) \in Nat /\ DOMAIN s = 1..Len(s) /\ Len(t) \in Nat /\ DOMAIN t = 1..Len(t)
  BY SeqFacts DEF Continues
<1>2. \A k \in DOMAIN t : (k \in DOMAIN s /\ t[k] = s[k]) \/ t[k].type \in types
  BY <1>1 DEF Continues
<1>3. \A k \in DOMAIN s : AuditsBefore(t, k) = AuditsBefore(s, k)
  BY AuditsContinue
<1> QED
  BY <1>2, <1>3 DEF Permitted

LEMMA PermittedWrite ==
  ASSUME NEW conf, NEW w, NEW s, IsSeq(s), Permitted(conf, w, s), NEW n, Numbered(s, n),
         NEW m, Licensed(conf.auth, m.op, n), InScope(conf, w, m)
  PROVE  Permitted(conf, w, Append(s, m))
<1> DEFINE t == Append(s, m)
           last == Len(s) + 1
<1>1. /\ IsSeq(t) /\ Len(s) \in Nat /\ DOMAIN s = 1..Len(s) /\ DOMAIN t = 1..last
      /\ \A k \in 1..Len(s) : t[k] = s[k]
      /\ t[last] = m
  BY AppendFacts
<1>2. Continues(s, t, {m.type})
  BY ContinuesAppend
<1> HIDE DEF t
<1>3. \A k \in DOMAIN s : AuditsBefore(t, k) = AuditsBefore(s, k)
  BY <1>2, AuditsContinue
<1>4. AuditsBefore(t, last) = AuditsIn(s)
  BY <1>1 DEF AuditsBefore, AuditsIn
<1>5. \A k \in DOMAIN t : (k \in DOMAIN s /\ t[k] = s[k]) \/ k = last
  BY <1>1
<1>6. Permitted(conf, w, t)
  BY <1>1, <1>3, <1>4, <1>5 DEF Permitted, Numbered
<1> QED
  BY <1>6 DEF t

-------------------------------------------------------------------------------
(* Issues stay with their account, so what was in scope stays in scope.    *)
KeyedIssues(w) == \A i \in w.issues : DOMAIN i = {"id", "project", "account", "status"}

IssuesLast(w, v) == \A i \in w.issues : \E j \in v.issues : j.id = i.id /\ j.account = i.account

LEMMA WroteIssuesLast ==
  ASSUME NEW seed, NEW w, KeyedIssues(w), NEW row, NEW call, NEW v, Wrote(seed, w, row, call, v)
  PROVE  KeyedIssues(v) /\ IssuesLast(w, v)
<1>1. CASE v.issues = w.issues
  BY <1>1 DEF KeyedIssues, IssuesLast
<1>2. CASE Opened(seed, w, row, call, v)
  <2>1. v.issues = w.issues \cup {NewIssue(row, call)}
    BY <1>2 DEF Opened
  <2>2. DOMAIN NewIssue(row, call) = {"id", "project", "account", "status"}
    BY DEF NewIssue
  <2> QED
    BY <2>1, <2>2 DEF KeyedIssues, IssuesLast
<1>3. CASE Moved(seed, w, row, call, v)
  <2>1. PICK i \in w.issues : v.issues = (w.issues \ {i}) \cup {[i EXCEPT !.status = call.text]}
    BY <1>3 DEF Moved
  <2> DEFINE j == [i EXCEPT !.status = call.text]
  <2>2. DOMAIN j = {"id", "project", "account", "status"} /\ j.id = i.id /\ j.account = i.account
    BY DEF KeyedIssues
  <2> HIDE DEF j
  <2>3. v.issues = (w.issues \ {i}) \cup {j}
    BY <2>1 DEF j
  <2> QED
    BY <2>2, <2>3 DEF KeyedIssues, IssuesLast
<1>4. \/ v.issues = w.issues
      \/ Opened(seed, w, row, call, v)
      \/ Moved(seed, w, row, call, v)
  BY LeavesTables DEF Wrote, Refunded, Noted, StatusSet, Commented, Posted
<1> QED
  BY <1>1, <1>2, <1>3, <1>4

LEMMA IssuesLastTrans ==
  ASSUME NEW u, NEW v, NEW w, IssuesLast(u, v), IssuesLast(v, w)
  PROVE  IssuesLast(u, w)
<1> SUFFICES ASSUME NEW i \in u.issues PROVE \E j \in w.issues : j.id = i.id /\ j.account = i.account
  BY DEF IssuesLast
<1>1. PICK k \in v.issues : k.id = i.id /\ k.account = i.account
  BY DEF IssuesLast
<1>2. PICK j \in w.issues : j.id = k.id /\ j.account = k.account
  BY DEF IssuesLast
<1> QED
  BY <1>1, <1>2

UniqueIssues(w) == \A i, j \in w.issues : i.id = j.id => i = j

(* A resource that does not exist is in no list of customers. *)
NoNameless(conf) == "" \notin conf.auth.customers.ids

IssueScoped == {"ticketGetIssue", "ticketAddComment", "ticketTransitionIssue"}

LEMMA IssueCustomerLasts ==
  ASSUME NEW seed, NEW w, NEW v, IssuesLast(w, v), UniqueIssues(v), NEW id, loadIssue(w, id) # {}
  PROVE  IssueCustomer(seed, v, id) = IssueCustomer(seed, w, id)
<1> DEFINE i == CHOOSE x \in loadIssue(w, id) : TRUE
           j == CHOOSE x \in loadIssue(v, id) : TRUE
<1>1. i \in w.issues /\ i.id = id
  BY DEF loadIssue
<1>2. PICK k \in v.issues : k.id = id /\ k.account = i.account
  BY <1>1 DEF IssuesLast
<1>3. k \in loadIssue(v, id)
  BY <1>2 DEF loadIssue
<1>4. j \in v.issues /\ j.id = id
  BY <1>3 DEF loadIssue
<1>5. j = k
  BY <1>2, <1>4 DEF UniqueIssues
<1>6. j.account = i.account
  BY <1>2, <1>5
<1>7. IssueCustomer(seed, w, id) = AccountCustomer(seed, i.account)
  BY Zenon DEF IssueCustomer
<1>8. IssueCustomer(seed, v, id) = AccountCustomer(seed, j.account)
  BY <1>3, Zenon DEF IssueCustomer
<1> QED
  BY <1>6, <1>7, <1>8, Zenon

LEMMA ScopeLasts ==
  ASSUME NEW conf, NoNameless(conf), NEW w, NEW v, IssuesLast(w, v), UniqueIssues(v),
         NEW call, InScope(conf, w, call)
  PROVE  InScope(conf, v, call)
<1> DEFINE of(x) == CustomerOf(conf.seed, x, call)
<1>1. of(v) = of(w) \/ ~conf.auth.customers.given \/ OutOf(conf.auth.customers, of(w))
  <2>1. CASE call.op \notin IssueScoped
    <3>1. of(v) = of(w)
      BY <2>1, Zenon DEF CustomerOf, IssueScoped
    <3> QED
      BY <3>1, Zenon
  <2>2. CASE call.op \in IssueScoped
    <3>1. \A x : of(x) = IssueCustomer(conf.seed, x, call.target)
      BY <2>2, ZenonT(60) DEF CustomerOf, IssueScoped
    <3>2. CASE loadIssue(w, call.target) # {}
      BY <3>1, <3>2, IssueCustomerLasts, Zenon
    <3>3. CASE loadIssue(w, call.target) = {}
      BY <3>1, <3>3, Zenon DEF IssueCustomer, OutOf, NoNameless
    <3> QED
      BY <3>2, <3>3, Zenon
  <2> QED
    BY <2>1, <2>2, Zenon
<1> QED
  BY <1>1, Zenon DEF InScope, OutOf

LEMMA PermittedLasts ==
  ASSUME NEW conf, NoNameless(conf), NEW w, NEW v, IssuesLast(w, v), UniqueIssues(v),
         NEW s, Permitted(conf, w, s)
  PROVE  Permitted(conf, v, s)
  BY ScopeLasts DEF Permitted

(* What authz.Parse makes sure of. *)
PolicySound(conf) ==
    /\ NoNameless(conf)
    /\ \A g \in conf.auth.grants : g.from \in Nat /\ g.to \in Nat
    /\ \A r \in conf.auth.revoked : r.after \in Nat

LEMMA PoliciesSound ==
  ASSUME NEW conf \in Configs, conf.auth.enforced
  PROVE  PolicySound(conf)
<1>1. ParseAuth(conf.auth, conf.ops)
  BY DispatchAssumption, Zenon DEF Creatable
<1>2. NoNameless(conf)
  BY <1>1, Zenon DEF ParseAuth, NoNameless
<1>3. \A g \in conf.auth.grants : {g.from, g.to} \subseteq Nat
  BY <1>1, Zenon DEF ParseAuth
<1>4. \A r \in conf.auth.revoked : r.after \in Nat
  BY <1>1, Zenon DEF ParseAuth
<1> QED
  BY <1>2, <1>3, <1>4 DEF PolicySound

LEMMA ScreenedCall ==
  ASSUME NEW conf, PolicySound(conf), NEW w, NEW call, NEW n \in Nat, Screened(conf, w, call, n)
  PROVE  Licensed(conf.auth, call.op, n) /\ InScope(conf, w, call)
<1> DEFINE auth == conf.auth
           permission == Permission(call.op)
<1>1. grantReason(auth, permission, n) = "" /\ resourceReason(conf, [world |-> w], call) = ""
  BY Zenon DEF Screened
<1>2. permission \notin auth.allow =>
          \E g \in auth.grants : g.permission = permission /\ g.from <= n /\ n <= g.to
  BY <1>1, Zenon DEF grantReason
<1>3. ~\E r \in auth.revoked : r.permission = permission /\ n > r.after
  BY <1>1, <1>2, Zenon DEF grantReason
<1>4. InScope(conf, w, call)
  <2>1. [world |-> w].world = w
    OBVIOUS
  <2> DEFINE out == call.op \in CustomerScoped /\ OutOf(auth.customers, CustomerOf(conf.seed, w, call))
             off == call.op \in {"messageReadChannel", "messagePostMessage"} /\ OutOf(auth.channels, call.target)
             rest == IF call.op = "ticketCreateIssue" /\ OutOf(auth.projects, call.text)
                     THEN "project_out_of_scope"
                     ELSE IF call.op = "createRefund" /\ auth.refundMax # NoLimit /\ call.amount > auth.refundMax
                     THEN "refund_limit_exceeded"
                     ELSE ""
             wide == broad(auth, call.op)
  <2>2. resourceReason(conf, [world |-> w], call) =
            IF wide THEN "broad_search_scoped"
            ELSE IF out THEN "customer_out_of_scope"
            ELSE IF off THEN "channel_out_of_scope"
            ELSE rest
    BY <2>1, Zenon DEF resourceReason
  <2> HIDE DEF out, off, rest, wide
  <2>3. ~out /\ ~off
    BY <1>1, <2>2, Zenon
  <2> QED
    BY <2>3, Zenon DEF InScope, out, off
<1>5. Licensed(auth, call.op, n)
  BY <1>2, <1>3 DEF PolicySound, Licensed
<1> QED
  BY <1>4, <1>5

-------------------------------------------------------------------------------
(* Every call number is audited, and every write was permitted. *)
Guarded(conf, d) ==
    conf.auth.enforced => Numbered(d.events, d.callIndex) /\ Permitted(conf, d.world, d.events)

LEMMA NewRunGuarded ==
  ASSUME NEW conf
  PROVE  Guarded(conf, NewRun(conf))
<1> DEFINE d == NewRun(conf)
           e == [type |-> "execution.started"]
<1>1. d.events = <<e>> /\ d.callIndex = 0
  BY NewRunFacts DEF NewRun
<1>2. \A k \in DOMAIN <<e>> : <<e>>[k].type \notin Audits \cup {"state.mutation"}
  BY DEF Audits
<1> HIDE DEF d, e
<1>3. AuditsIn(d.events) = {}
  BY <1>1, <1>2 DEF AuditsIn
<1>4. Numbered(d.events, d.callIndex)
  BY <1>1, <1>3, FS_EmptySet DEF Numbered
<1>5. Permitted(conf, d.world, d.events)
  BY <1>1, <1>2 DEF Permitted
<1> QED
  BY <1>4, <1>5 DEF Guarded, d

(* Up to its handler a call writes nothing as an agent. *)
Before == {"tool.request", "tool.response", "chaos.actor_mutation"} \cup Asides

LEMMA BeforeTypes ==
  /\ Before \cap Audits = {} /\ "state.mutation" \notin Before
  /\ "state.mutation" \notin {"tool.request"} \cup Audits
  /\ Asides \subseteq Before
  BY DEF Before, Audits, Asides

LEMMA ActorContinues ==
  ASSUME NEW conf, NEW d, KeyedIssues(d.world), NEW e, NEW p, IsSeq(p), NEW q, NEW w,
         (w = d.world /\ Continues(p, q, Asides)) \/ ActorWrites(conf, d, e, p, q, w)
  PROVE  Continues(p, q, Before) /\ KeyedIssues(w) /\ IssuesLast(d.world, w)
<1>1. CASE w = d.world /\ Continues(p, q, Asides)
  <2>1. Continues(p, q, Before)
    BY <1>1, BeforeTypes, ContinuesMore
  <2> QED
    BY <1>1, <2>1 DEF IssuesLast
<1>2. CASE ActorWrites(conf, d, e, p, q, w)
  <2>1. PICK row, actor, inj, m :
            /\ Wrote(conf.seed, d.world, row, actor, w)
            /\ inj.type = "chaos.injected" /\ m.type = "chaos.actor_mutation"
            /\ q = Append(Append(p, inj), m)
    BY <1>2, ZenonT(60) DEF ActorWrites
  <2>2. Continues(p, Append(p, inj), Before)
    BY <2>1, ContinuesAppend DEF Before, Asides
  <2>3. Continues(Append(p, inj), q, Before)
    <3>1. IsSeq(Append(p, inj))
      BY <2>2 DEF Continues
    <3> QED
      BY <2>1, <3>1, ContinuesAppend DEF Before
  <2>4. Continues(p, q, Before)
    BY <2>2, <2>3, ContinuesTrans
  <2> QED
    BY <2>1, <2>4, WroteIssuesLast
<1> QED
  BY <1>1, <1>2

LEMMA GuardedCall ==
  ASSUME NEW conf, PolicySound(conf), conf.auth.enforced, NEW d, IsSeq(d.events), KeyedIssues(d.world),
         Numbered(d.events, d.callIndex), Permitted(conf, d.world, d.events),
         NEW call, NEW e, UniqueIssues(e.world), CallGoes(conf, d, call, e)
  PROVE  Numbered(e.events, e.callIndex) /\ Permitted(conf, e.world, e.events)
<1> DEFINE n == e.callIndex
           u == d.world
<1>1. PICK p :
          \/ /\ Passed(conf, d, call, p, e.callIndex, FALSE)
             /\ e.world = d.world
             /\ \E r : r.type = "tool.response" /\ e.events = Append(p, r)
          \/ /\ Passed(conf, d, call, p, e.callIndex, TRUE)
             /\ \E q, w : /\ (w = d.world /\ Continues(p, q, Asides)) \/ ActorWrites(conf, d, e, p, q, w)
                          /\ AgentAnswers(conf, d, call, e, q, w)
  BY DEF CallGoes
<1>2. Continues(d.events, p, {"tool.request"} \cup Audits) /\ Numbered(p, n)
  BY <1>1, PassedContinues, PassedNumbered
<1>3. IsSeq(p) /\ Permitted(conf, u, p)
  <2>1. Permitted(conf, u, p)
    BY <1>2, BeforeTypes, PermittedContinue
  <2> QED
    BY <1>2, <2>1 DEF Continues
<1>4. ASSUME NEW s, IsSeq(s), Numbered(s, n), NEW t, Continues(s, t, Before)
      PROVE  /\ IsSeq(t) /\ Numbered(t, n)
             /\ \A w : Permitted(conf, w, s) => Permitted(conf, w, t)
  BY <1>4, BeforeTypes, NumberedContinue, PermittedContinue DEF Continues
<1>5. CASE /\ e.world = d.world
           /\ \E r : r.type = "tool.response" /\ e.events = Append(p, r)
  <2>1. PICK r : r.type = "tool.response" /\ e.events = Append(p, r)
    BY <1>5
  <2>2. Continues(p, e.events, Before)
    BY <1>3, <2>1, ContinuesAppend DEF Before
  <2> QED
    BY <1>2, <1>3, <1>4, <1>5, <2>2
<1>6. ASSUME Passed(conf, d, call, p, n, TRUE), NEW q, NEW w,
             (w = d.world /\ Continues(p, q, Asides)) \/ ActorWrites(conf, d, e, p, q, w),
             AgentAnswers(conf, d, call, e, q, w)
      PROVE  Numbered(e.events, n) /\ Permitted(conf, e.world, e.events)
  <2>1. n \in Nat /\ Screened(conf, u, call, n)
    <3>1. n = d.callIndex + 1 /\ Screened(conf, u, call, d.callIndex + 1)
      BY <1>6 DEF Passed
    <3>2. n \in Nat
      BY <1>2, FS_CardinalityType DEF Numbered
    <3> HIDE DEF n
    <3> QED
      BY <3>1, <3>2
  <2>2. Licensed(conf.auth, call.op, n) /\ InScope(conf, u, call)
    BY <2>1, ScreenedCall
  <2>3. Continues(p, q, Before) /\ KeyedIssues(w) /\ IssuesLast(u, w)
    BY <1>3, <1>6, ActorContinues
  <2>4. PICK x, r :
            /\ Continues(q, x, Asides)
            /\ r.type = "tool.response"
            /\ \/ e.world = w /\ e.events = Append(x, r)
               \/ /\ Wrote(conf.seed, w, AgentRow(d, call), call, e.world)
                  /\ \E m : /\ m.type = "state.mutation" /\ Tells(m, AgentRow(d, call), call)
                            /\ e.events = Append(Append(x, m), r)
    BY <1>6 DEF AgentAnswers
  <2>5. Continues(p, x, Before)
    <3>1. Continues(q, x, Before)
      BY <2>4, BeforeTypes, ContinuesMore
    <3> QED
      BY <2>3, <3>1, ContinuesTrans
  <2>6. IsSeq(x) /\ Numbered(x, n) /\ Permitted(conf, u, x)
    BY <1>2, <1>3, <1>4, <2>5
  <2>7. IssuesLast(u, e.world)
    <3>1. e.world = w \/ IssuesLast(w, e.world)
      BY <2>3, <2>4, WroteIssuesLast
    <3> QED
      BY <2>3, <3>1, IssuesLastTrans
  <2>8. Permitted(conf, e.world, x) /\ InScope(conf, e.world, call)
    BY <2>2, <2>6, <2>7, PermittedLasts, ScopeLasts DEF PolicySound
  <2>9. ASSUME NEW s, IsSeq(s), Numbered(s, n), Permitted(conf, e.world, s)
        PROVE  Numbered(Append(s, r), n) /\ Permitted(conf, e.world, Append(s, r))
    <3>1. Continues(s, Append(s, r), Before)
      BY <2>4, <2>9, ContinuesAppend DEF Before
    <3> QED
      BY <1>4, <2>9, <3>1
  <2>10. CASE e.events = Append(x, r)
    BY <2>6, <2>8, <2>9, <2>10
  <2>11. ASSUME NEW m, m.type = "state.mutation", Tells(m, AgentRow(d, call), call),
                e.events = Append(Append(x, m), r)
         PROVE  Numbered(e.events, n) /\ Permitted(conf, e.world, e.events)
    <3>1. m.op = call.op /\ m.target = call.target
      BY <2>11 DEF Tells
    <3>2. InScope(conf, e.world, m)
      BY <2>8, <3>1, ZenonT(60) DEF InScope, CustomerOf
    <3>3. Permitted(conf, e.world, Append(x, m))
      BY <2>2, <2>6, <2>8, <3>1, <3>2, PermittedWrite
    <3>4. IsSeq(Append(x, m)) /\ Numbered(Append(x, m), n)
      <4>1. m.type \notin Audits
        BY <2>11 DEF Audits
      <4> QED
        BY <2>6, <4>1, AppendFacts, AuditsAppend DEF Numbered
    <3> QED
      BY <2>9, <2>11, <3>3, <3>4
  <2> QED
    BY <2>4, <2>10, <2>11
<1> QED
  BY <1>1, <1>5, <1>6

(* No agent's write commits outside its permission in any reachable state, *)
(* for every policy authz.Parse accepts: at the call number its            *)
(* authorization used a grant was open and no revocation had taken effect, *)
(* and what it wrote belongs to a customer and a channel of its scope, in  *)
(* the world as it was and as it is now.                                   *)
THEOREM WritesArePermitted == Spec => []NoWriteAfterRevocation
<1> DEFINE Inv == cfg \in Configs /\ Books(cfg, db) /\ Guarded(cfg, db)
<1>1. Init => Inv
  BY NewRunBooks, NewRunGuarded DEF Init
<1>2. Inv /\ [Next]_vars => Inv'
  <2> SUFFICES ASSUME Inv, [Next]_vars PROVE Inv'
    OBVIOUS
  <2>1. CASE UNCHANGED vars
    BY <2>1 DEF vars
  <2>2. ASSUME NEW call \in Calls(cfg), InvokeCommit(call) PROVE Inv'
    <3> DEFINE r == Invoke(cfg, db, call)
    <3>1. db' = r.db /\ cfg' = cfg /\ r.ok
      BY <2>2 DEF InvokeCommit
    <3>2. \/ r.db = db
          \/ /\ Saved(db, call) = {} /\ call.op \in cfg.ops
             /\ \E answer : AnsweredWith(db, r.db, call, answer)
      BY ConfigsSound, CallIsBracketed DEF Books, Sound, RulesParsed
    <3>3. CASE r.db = db
      BY <3>1, <3>3
    <3>4. ASSUME Saved(db, call) = {}, call.op \in cfg.ops,
                 NEW answer, AnsweredWith(db, r.db, call, answer)
          PROVE  Inv'
      <4>1. Books(cfg, r.db)
        BY <3>1, <3>4, BooksCall
      <4>2. CallGoes(cfg, db, call, r.db)
        BY <3>1, <3>4, ConfigsSound, CallShape DEF Books, Balanced, Sound
      <4> HIDE DEF r
      <4>3. IsSeq(db.events) /\ KeyedIssues(db.world) /\ UniqueIssues(r.db.world)
        BY <4>1 DEF Books, Kept, Booked, IssuesBooked, KeyedIssues, UniqueIssues
      <4>4. Guarded(cfg, r.db)
        BY <4>2, <4>3, PoliciesSound, GuardedCall DEF Guarded
      <4> QED
        BY <3>1, <4>1, <4>4
    <3> QED
      BY <3>2, <3>3, <3>4
  <2>3. ASSUME NEW call \in Calls(cfg), InvokeError(call) PROVE Inv'
    BY <2>1, <2>3 DEF InvokeError
  <2> QED
    BY <2>1, <2>2, <2>3 DEF Next
<1>3. Inv => NoWriteAfterRevocation
  <2> SUFFICES ASSUME Inv, cfg.auth.enforced, NEW k \in OfType("state.mutation")
               PROVE  LET permission == Permission(Events[k].op)
                          call == [op |-> Events[k].op, target |-> Events[k].target]
                      IN  /\ \A r \in cfg.auth.revoked : r.permission = permission => CallsBefore(k) <= r.after
                          /\ permission \notin cfg.auth.allow =>
                                 \E g \in cfg.auth.grants :
                                     g.permission = permission /\ CallsBefore(k) \in g.from..g.to
                          /\ call.op \in CustomerScoped =>
                                 ~OutOf(cfg.auth.customers, CustomerOf(cfg.seed, db.world, call))
                          /\ call.op = "messagePostMessage" => ~OutOf(cfg.auth.channels, call.target)
    BY DEF NoWriteAfterRevocation
  <2> DEFINE m == Events[k]
             call == [op |-> m.op, target |-> m.target]
  <2>1. Licensed(cfg.auth, m.op, Cardinality(AuditsBefore(db.events, k))) /\ InScope(cfg, db.world, m)
    BY DEF Guarded, Permitted, OfType, Events
  <2>2. Cardinality(AuditsBefore(db.events, k)) = CallsBefore(k)
    <3>1. AuditsBefore(db.events, k) =
              {j \in OfType("authorization.allowed") \cup OfType("authorization.denied") : j < k}
      BY DEF AuditsBefore, AuditsIn, Audits, OfType, Events
    <3> QED
      BY <3>1 DEF CallsBefore
  <2>3. call.op = m.op /\ call.target = m.target
    OBVIOUS
  <2> HIDE DEF call
  <2>4. InScope(cfg, db.world, call)
    BY <2>1, <2>3, ZenonT(60) DEF InScope, CustomerOf
  <2> QED
    BY <2>1, <2>2, <2>3, <2>4, Zenon DEF Licensed, InScope, call
<1> QED
  BY <1>1, <1>2, <1>3, PTL DEF Spec

(***************************************************************************)
(* What a call that reads has seen.                                        *)
(***************************************************************************)
SameReads(d, e) == e.snapshots = d.snapshots /\ e.hidden = d.hidden

(* Ledger t is s and more, and what struck in between struck this call     *)
(* under one of these rules.                                               *)
Strikes(s, t, id, rules) ==
    /\ IsSeq(s) /\ IsSeq(t)
    /\ Len(s) <= Len(t)
    /\ \A k \in 1..Len(s) : t[k] = s[k]
    /\ \A k \in (Len(s) + 1)..Len(t) :
          t[k].type = "chaos.injected" => t[k].call = id /\ t[k].rule \in rules

LEMMA StrikesRefl ==
  ASSUME NEW s, IsSeq(s), NEW id, NEW rules
  PROVE  Strikes(s, s, id, rules)
  BY SeqFacts DEF Strikes

LEMMA StrikesTrans ==
  ASSUME NEW s, NEW t, NEW u, NEW id, NEW rules, Strikes(s, t, id, rules), Strikes(t, u, id, rules)
  PROVE  Strikes(s, u, id, rules)
<1>1. Len(s) \in Nat /\ Len(t) \in Nat /\ Len(u) \in Nat
  BY SeqFacts DEF Strikes
<1>2. ASSUME NEW k \in (Len(s) + 1)..Len(u), u[k].type = "chaos.injected"
      PROVE  u[k].call = id /\ u[k].rule \in rules
  <2>1. CASE k \in 1..Len(t)
    BY <1>1, <1>2, <2>1 DEF Strikes
  <2>2. CASE k \notin 1..Len(t)
    BY <1>1, <1>2, <2>2 DEF Strikes
  <2> QED
    BY <2>1, <2>2
<1> QED
  BY <1>1, <1>2 DEF Strikes

LEMMA StrikesAppend ==
  ASSUME NEW s, IsSeq(s), NEW e, NEW id, NEW rules,
         e.type = "chaos.injected" => e.call = id /\ e.rule \in rules
  PROVE  Strikes(s, Append(s, e), id, rules)
<1> DEFINE t == Append(s, e)
<1>1. /\ IsSeq(t) /\ Len(s) \in Nat /\ Len(t) = Len(s) + 1
      /\ \A k \in 1..Len(s) : t[k] = s[k]
      /\ t[Len(s) + 1] = e
  BY AppendFacts
<1> HIDE DEF t
<1>2. \A k \in (Len(s) + 1)..Len(t) : t[k] = e
  BY <1>1
<1>3. Strikes(s, t, id, rules)
  BY <1>1, <1>2 DEF Strikes
<1> QED
  BY <1>3 DEF t

LEMMA EmitReads ==
  ASSUME NEW d, Whole(d), NEW x
  PROVE  LET e == Emit(d, x)
         IN  Whole(e) /\ SameReads(d, e) /\ e.world = d.world /\ e.events = Append(d.events, x)
<1> DEFINE e == Emit(d, x)
<1>1. DOMAIN e = Rows /\ SameReads(d, e) /\ e.world = d.world /\ e.events = Append(d.events, x)
  BY DEF Emit, Whole, Rows, SameReads
<1>2. IsSeq(Append(d.events, x))
  BY AppendFacts DEF Whole
<1> QED
  BY <1>1, <1>2 DEF Whole

-------------------------------------------------------------------------------
(* The checks show nobody a charge. *)
LEMMA ReasonsAreNoCharge ==
  ASSUME NEW conf, NEW d, NEW call, NEW index
  PROVE  Screen(conf, d, call, index) # "charge"
<1>1. grantReason(conf.auth, Permission(call.op), index) # "charge"
  BY ZenonT(30) DEF grantReason
<1>2. resourceReason(conf, d, call) # "charge"
  BY ZenonT(60) DEF resourceReason
<1> QED
  BY <1>1, <1>2, ZenonT(30) DEF Screen

LEMMA AnswerText ==
  ASSUME NEW status, NEW text, NEW n
  PROVE  Answer(status, text, n).body.text = text /\ Answer(status, text, n).status = status
  BY DEF Answer, Reply

LEMMA CheckReads ==
  ASSUME NEW conf, NEW d, Whole(d), NEW call
  PROVE  LET c == Check(conf, d, call)
         IN  SameReads(d, c.db) /\ (~Open(c) => c.answer.body.text # "charge")
<1> DEFINE c == Check(conf, d, call)
           e == [d EXCEPT !.callIndex = d.callIndex + 1]
           reason == Screen(conf, d, call, d.callIndex + 1)
           audit(type) == [type |-> type, call |-> call.id, op |-> call.op, index |-> e.callIndex]
<1>1. \/ c = Stage(d, Answer(400, "invalid", 0))
      \/ c = Stage(d, Unanswered)
      \/ c = Stage(d, Answer(400, "invalid arguments", 0))
      \/ c = Judged(e, call, reason)
  BY ZenonT(30) DEF Check, validate, Authorize
<1>2. \/ Judged(e, call, reason) = Stage(Emit(e, audit("authorization.allowed")), Unanswered)
      \/ Judged(e, call, reason) = Stage(Emit(e, audit("authorization.denied")), Answer(403, reason, 0))
  BY Zenon DEF Judged
<1>3. reason # "charge"
  BY ReasonsAreNoCharge
<1> DEFINE Shows(x) == c.db = x /\ (~Open(c) => c.answer.body.text # "charge")
<1>4. ASSUME NEW x PROVE c = Stage(x, Unanswered) => Shows(x)
  <2> HIDE DEF c
  <2> QED
    BY DEF Stage, Open
<1>5. ASSUME NEW x, NEW n, NEW text, text # "charge" PROVE c = Stage(x, Answer(n, text, 0)) => Shows(x)
  <2> HIDE DEF c
  <2> QED
    BY <1>5, AnswerText DEF Stage
<1> DEFINE allowed == audit("authorization.allowed")
           denied == audit("authorization.denied")
<1>6. DOMAIN e = Rows /\ SameReads(d, e)
  BY DEF Whole, Rows, SameReads
<1> HIDE DEF e, c
<1>7. SameReads(d, d) /\ \A a : SameReads(d, Emit(e, a))
  BY <1>6 DEF Emit, Rows, SameReads
<1> HIDE DEF Shows, reason, allowed, denied
<1>8. CASE c = Stage(d, Answer(400, "invalid", 0))
  BY <1>5, <1>7, <1>8 DEF Shows, c
<1>9. CASE c = Stage(d, Unanswered)
  BY <1>4, <1>7, <1>9 DEF Shows, c
<1>10. CASE c = Stage(d, Answer(400, "invalid arguments", 0))
  <2>1. "invalid arguments" # "charge"
    BY Zenon
  <2>2. Shows(d)
    <3> DEFINE text == "invalid arguments"
    <3>1. c = Stage(d, Answer(400, text, 0)) /\ text # "charge"
      BY <1>10, <2>1, Zenon
    <3> HIDE DEF text
    <3> QED
      BY <1>5, <3>1
  <2> QED
    BY <1>7, <2>2 DEF Shows, c
<1>11. CASE c = Stage(Emit(e, allowed), Unanswered)
  BY <1>4, <1>7, <1>11 DEF Shows, c
<1>12. CASE c = Stage(Emit(e, denied), Answer(403, reason, 0))
  BY <1>3, <1>5, <1>7, <1>12 DEF Shows, c
<1>13. c = Judged(e, call, reason) =>
           \/ c = Stage(Emit(e, allowed), Unanswered)
           \/ c = Stage(Emit(e, denied), Answer(403, reason, 0))
  BY <1>2, Zenon DEF allowed, denied
<1> DEFINE Goal == SameReads(d, c.db) /\ (~Open(c) => c.answer.body.text # "charge")
<1>14. Goal
  <2> HIDE DEF Goal
  <2> QED
    BY <1>1, <1>8, <1>9, <1>10, <1>11, <1>12, <1>13, Zenon DEF Goal, c
<1> QED
  BY <1>14 DEF c

(* chaos.Decide keeps them too. *)
LEMMA DecideReads ==
  ASSUME NEW conf, NEW d, Whole(d), NEW call
  PROVE  SameReads(d, ChaosDecide(conf, d, call).db)
<1> DEFINE a == Advance(conf, d, call)
           active == {i \in Matching(conf, call) : Active(conf, a, i, call)}
           c == ChaosDecide(conf, d, call)
<1>1. \E v : a = [d EXCEPT !.rules = v]
  BY DEF Advance
<1>2. DOMAIN a = Rows /\ SameReads(d, a)
  <2> HIDE DEF a
  <2> QED
    BY <1>1 DEF Whole, Rows, SameReads
<1>3. c = Select(a, active)
  BY DEF ChaosDecide, SelectActive
<1> HIDE DEF a, active, c
<1>4. c.db = a \/ \E v : c.db = [a EXCEPT !.rules = v]
  BY <1>3 DEF Select
<1>5. SameReads(d, c.db)
  BY <1>2, <1>4 DEF Rows, SameReads
<1> QED
  BY <1>5 DEF c

Struck(conf, i) == IF i = NoRule THEN {} ELSE {conf.chaos[i].id}

(* Before the handler the rule strikes, unless it waits for the answer. *)
LEMMA BeforeReads ==
  ASSUME NEW conf, NEW d, Whole(d), NEW i, NEW call
  PROVE  LET b == BeforeHandler(conf, d, i, call).db
         IN  /\ Whole(b) /\ SameReads(d, b)
             /\ Strikes(d.events, b.events, call.id, Struck(conf, i))
             /\ RuleType(conf, i) = "stale_read" => b = Emit(d, Injected(conf, d, i, call))
<1> DEFINE inj == Injected(conf, d, i, call)
           e == Emit(d, inj)
           b == BeforeHandler(conf, d, i, call).db
           rules == Struck(conf, i)
<1>1. inj.call = call.id /\ inj.rule = conf.chaos[i].id
  BY DEF Injected
<1>2. Whole(e) /\ SameReads(d, e) /\ e.events = Append(d.events, inj)
  BY EmitReads
<1>3. i # NoRule => Strikes(d.events, e.events, call.id, rules)
  BY <1>1, <1>2, StrikesAppend DEF Whole, Struck
<1>4. Strikes(d.events, d.events, call.id, rules)
  BY StrikesRefl DEF Whole
<1>5. CASE RuleType(conf, i) \in PostEffect \cup {"none"}
  <2>1. b = d
    BY <1>5 DEF BeforeHandler
  <2> QED
    BY <1>4, <1>5, <2>1 DEF SameReads, PostEffect
<1>6. CASE RuleType(conf, i) = "concurrent_mutation"
  <2> DEFINE row == ActorRow(e, conf.chaos[i], d.rules[i].calls)
             h == Handle(conf.seed, e.world, row, conf.chaos[i].actor)
             m == Mutation("chaos.actor_mutation", row, conf.chaos[i].actor)
             f == [e EXCEPT !.world = h.world]
  <2>1. i # NoRule
    BY <1>6 DEF RuleType
  <2>2. b = Emit(f, m)
    BY <1>6 DEF BeforeHandler, PostEffect, invokeActor, ActorWrote
  <2>3. m.type = "chaos.actor_mutation"
    BY MutationFacts
  <2> HIDE DEF e, h, m
  <2>4. DOMAIN f = Rows /\ SameReads(e, f) /\ f.events = e.events
    BY <1>2 DEF Whole, Rows, SameReads
  <2> HIDE DEF f
  <2>5. Whole(b) /\ SameReads(f, b) /\ b.events = Append(e.events, m)
    <3>1. Whole(f)
      BY <1>2, <2>4 DEF Whole
    <3>2. Whole(Emit(f, m)) /\ SameReads(f, Emit(f, m)) /\ Emit(f, m).events = Append(f.events, m)
      BY <3>1, EmitReads
    <3> QED
      BY <2>2, <2>4, <3>2
  <2>6. Strikes(e.events, b.events, call.id, rules)
    BY <1>2, <2>3, <2>5, StrikesAppend DEF Whole
  <2>7. Strikes(d.events, b.events, call.id, rules)
    BY <1>3, <2>1, <2>6, StrikesTrans
  <2> QED
    BY <1>2, <1>6, <2>4, <2>5, <2>7 DEF SameReads
<1>7. CASE RuleType(conf, i) \notin PostEffect \cup {"none", "concurrent_mutation"}
  <2>1. b = e /\ i # NoRule
    BY <1>7 DEF BeforeHandler, RuleType
  <2> QED
    BY <1>2, <1>3, <2>1
<1> QED
  BY <1>5, <1>6, <1>7

-------------------------------------------------------------------------------
(* The stale_read rules that have not observed these arguments yet. *)
FreshRules(conf, d, call) ==
    {j \in Matching(conf, call) : conf.chaos[j].type = "stale_read" /\ Snapshots(d, j, call) = {}}

Observation(j, call, answer) == [rule |-> j, args |-> Arguments(call), answer |-> answer]

(* The handler ran on the rows d and said h: its world, and what the       *)
(* stale_read rules keep of a successful read.                             *)
HandlerLeft(conf, d, call, h, e) ==
    /\ e.world = h.world
    /\ e.snapshots = IF Succeeds(h.answer) /\ Method(call.op) = "GET"
                     THEN d.snapshots \cup {Observation(j, call, h.answer) : j \in FreshRules(conf, d, call)}
                     ELSE d.snapshots

(* It ran and was shown, or hidden behind an answer that is no charge. *)
HandlerTold(conf, d, call, o) ==
    \E row :
        LET h == Handle(conf.seed, d.world, row, call)
        IN  /\ HandlerLeft(conf, d, call, h, o.db)
            /\ \/ o.answer = h.answer /\ o.db.hidden = d.hidden
               \/ /\ o.answer.body.text # "charge"
                  /\ \E x : x.call = call.id /\ x.answer = h.answer /\ o.db.hidden = d.hidden \cup {x}

(* What a call that reached the handler under rule i has been told. *)
CallTold(conf, d, call, i, o) ==
    \/ o.answer.body.text # "charge" /\ SameReads(d, o.db)
    \/ /\ RuleType(conf, i) = "stale_read" /\ SameReads(d, o.db)
       /\ \E s \in Snapshots(d, i, call) : o.answer = s.answer
    \/ RuleType(conf, i) # "stale_read" /\ HandlerTold(conf, d, call, o)

LEMMA SaveReads ==
  ASSUME NEW conf, NEW d, DOMAIN d = Rows, NEW call, NEW answer
  PROVE  LET e == SaveSnapshot(conf, d, call, answer)
         IN  /\ DOMAIN e = Rows /\ e.world = d.world /\ e.hidden = d.hidden /\ e.events = d.events
             /\ e.snapshots = d.snapshots \cup {Observation(j, call, answer) : j \in FreshRules(conf, d, call)}
<1> DEFINE stale == {i \in Matching(conf, call) : conf.chaos[i].type = "stale_read"}
           fresh == {i \in stale : Snapshots(d, i, call) = {}}
           new == {[rule |-> i, args |-> Arguments(call), answer |-> answer] : i \in fresh}
<1>1. fresh = FreshRules(conf, d, call)
  BY DEF FreshRules
<1>2. new = {Observation(j, call, answer) : j \in FreshRules(conf, d, call)}
  BY <1>1 DEF Observation
<1>3. SaveSnapshot(conf, d, call, answer) = [d EXCEPT !.snapshots = d.snapshots \cup new]
  BY DEF SaveSnapshot
<1> HIDE DEF new
<1> QED
  BY <1>2, <1>3 DEF Rows

(* What the handler's outcome is. *)
HandlerDone(conf, d, call, o) ==
    /\ DOMAIN o = OutcomeFields /\ Whole(o.db) /\ o.db.hidden = d.hidden
    /\ \A rules : Strikes(d.events, o.db.events, call.id, rules)
    /\ \E row : /\ HandlerLeft(conf, d, call, Handle(conf.seed, d.world, row, call), o.db)
                /\ o.answer = Handle(conf.seed, d.world, row, call).answer

LEMMA RunHandlerReads ==
  ASSUME NEW conf, NEW d, Whole(d), NEW call
  PROVE  HandlerDone(conf, d, call, RunHandler(conf, d, call))
<1> DEFINE retry == [type |-> "retry", call |-> call.id]
           e == IF RetryDue(conf, d, call) THEN Emit(d, retry) ELSE d
           row == AgentRow(d, call)
           h == Handle(conf.seed, d.world, row, call)
           v == [e EXCEPT !.world = h.world]
           saved == SaveSnapshot(conf, v, call, h.answer)
           o == RunHandler(conf, d, call)
<1>1. /\ Whole(e) /\ SameReads(d, e)
      /\ \A rules : Strikes(d.events, e.events, call.id, rules)
  <2>1. retry.type # "chaos.injected"
    OBVIOUS
  <2> HIDE DEF retry
  <2>2. CASE RetryDue(conf, d, call)
    <3>1. e = Emit(d, retry)
      BY <2>2
    <3>2. \A rules : Strikes(d.events, Append(d.events, retry), call.id, rules)
      BY <2>1, StrikesAppend DEF Whole
    <3> QED
      BY <3>1, <3>2, EmitReads
  <2>3. CASE ~RetryDue(conf, d, call)
    BY <2>3, StrikesRefl DEF SameReads, Whole
  <2> QED
    BY <2>2, <2>3
<1>2. o = HandlerRan(conf, e, call, h)
  BY DEF RunHandler
<1> HIDE DEF e, h
<1>3. DOMAIN v = Rows /\ SameReads(d, v) /\ v.events = e.events /\ v.world = h.world
  BY <1>1 DEF Whole, Rows, SameReads
<1>4. o = Outcome(IF Succeeds(h.answer) /\ Method(call.op) = "GET" THEN saved ELSE v, h.answer, h.mutated)
  BY <1>2 DEF HandlerRan
<1> HIDE DEF v
<1>5. /\ DOMAIN saved = Rows /\ saved.world = h.world /\ saved.hidden = d.hidden /\ saved.events = e.events
      /\ saved.snapshots = d.snapshots \cup {Observation(j, call, h.answer) : j \in FreshRules(conf, d, call)}
  <2>1. \A j : Snapshots(v, j, call) = Snapshots(d, j, call)
    BY <1>3 DEF Snapshots, SameReads
  <2>2. FreshRules(conf, v, call) = FreshRules(conf, d, call)
    BY <2>1 DEF FreshRules
  <2> QED
    BY <1>3, <2>2, SaveReads DEF SameReads
<1> HIDE DEF saved
<1>6. /\ DOMAIN o = OutcomeFields /\ o.answer = h.answer
      /\ o.db = IF Succeeds(h.answer) /\ Method(call.op) = "GET" THEN saved ELSE v
  BY <1>4 DEF Outcome, OutcomeFields
<1> HIDE DEF o
<1>7. Whole(o.db) /\ o.db.hidden = d.hidden /\ o.db.events = e.events
  BY <1>1, <1>3, <1>5, <1>6 DEF SameReads, Whole
<1>8. HandlerLeft(conf, d, call, h, o.db)
  BY <1>3, <1>5, <1>6 DEF HandlerLeft, SameReads
<1> QED
  BY <1>1, <1>6, <1>7, <1>8 DEF HandlerDone, o, h

(* The effects that answer themselves show no charge of their own. *)
LEMMA EffectTexts ==
  ASSUME NEW conf, NEW d, NEW i, NEW call, conf.chaos[i].type # "stale_read",
         PreAnswer(conf, d, i, call) # Unanswered
  PROVE  PreAnswer(conf, d, i, call).body.text # "charge"
<1> DEFINE pre == PreAnswer(conf, d, i, call)
           Text(t) == \E n : pre = Answer(n, t, 0)
<1>1. \/ Text("http failure") \/ Text("timeout") \/ Text("rate limit") \/ Text("revocation") \/ Text("outage")
  <2>1. CASE conf.chaos[i].type = "http_error"
    BY <2>1, ZenonT(30) DEF PreAnswer
  <2>2. CASE conf.chaos[i].type = "timeout"
    BY <2>2, ZenonT(30) DEF PreAnswer
  <2>3. CASE conf.chaos[i].type = "rate_limit"
    BY <2>3, ZenonT(30) DEF PreAnswer
  <2>4. CASE conf.chaos[i].type = "permission_revocation"
    BY <2>4, ZenonT(30) DEF PreAnswer
  <2>5. CASE conf.chaos[i].type = "partial_service_outage"
    BY <2>5, ZenonT(30) DEF PreAnswer
  <2>6. CASE conf.chaos[i].type \notin {"http_error", "timeout", "rate_limit", "permission_revocation",
                                        "partial_service_outage"}
    BY <2>6, ZenonT(30) DEF PreAnswer
  <2> QED
    BY <2>1, <2>2, <2>3, <2>4, <2>5, <2>6, Zenon
<1>2. ASSUME NEW t, Text(t) PROVE pre.body.text = t
  <2>1. PICK n : pre = Answer(n, t, 0)
    BY <1>2
  <2> HIDE DEF pre
  <2> QED
    BY <2>1, AnswerText
<1> HIDE DEF Text, pre
<1>3. pre.body.text # "charge"
  BY <1>1, <1>2, ZenonT(30)
<1> QED
  BY <1>3 DEF pre


(* A charge that is shown is the charge as it is. *)
LEMMA HandleShows ==
  ASSUME NEW seed, NEW w, NEW row, NEW call, call.op = "getCharge",
         Handle(seed, w, row, call).answer.body.text = "charge"
  PROVE  LET h == Handle(seed, w, row, call)
         IN  /\ h.world = w /\ Succeeds(h.answer) /\ h.answer.body.n = w.refunded[call.target]
             /\ call.target \in ChargeIds(seed)
<1> DEFINE h == Handle(seed, w, row, call)
           shown == ChargeBody(seed, w, call.target)
           text == "charge not found"
<1>1. h = BillingHandle(seed, w, row, call)
  BY DEF Handle, Billing
<1>2. \/ h = Refuse(w, 404, text)
      \/ call.target \in ChargeIds(seed) /\ h = Read(w, shown)
  BY <1>1, ZenonT(60) DEF BillingHandle
<1>3. text # "charge"
  BY Zenon
<1>4. shown.status = 200 /\ shown.body.n = w.refunded[call.target]
  BY DEF ChargeBody, Reply
<1> HIDE DEF text, shown, h
<1>5. h # Refuse(w, 404, text)
  <2> SUFFICES ASSUME h = Refuse(w, 404, text) PROVE FALSE
    OBVIOUS
  <2> DEFINE refusal == Answer(404, text, 0)
  <2>1. refusal.body.text = text
    BY AnswerText
  <2>2. h.answer = refusal
    BY DEF Refuse, Handled
  <2>3. h.answer.body.text = "charge"
    BY DEF h
  <2> QED
    BY <1>3, <2>1, <2>2, <2>3
<1>6. h.world = w /\ h.answer = shown /\ call.target \in ChargeIds(seed)
  BY <1>2, <1>5 DEF Read, Handled
<1> QED
  BY <1>4, <1>6 DEF Succeeds, h

(* The effect answers, or the legacy fault, or the handler. *)
LEMMA ServeReads ==
  ASSUME NEW conf, NEW d, Whole(d), NEW i, NEW call, Showable(conf, d, i, call),
         \A s \in d.snapshots : Succeeds(s.answer)
  PROVE  LET pre == IF i = NoRule THEN Unanswered ELSE PreAnswer(conf, d, i, call)
             o == Serve(conf, d, i, call, pre)
         IN  /\ Whole(o.db)
             /\ \A rules : Strikes(d.events, o.db.events, call.id, rules)
             /\ CallTold(conf, d, call, i, o)
<1> DEFINE pre == IF i = NoRule THEN Unanswered ELSE PreAnswer(conf, d, i, call)
           o == Serve(conf, d, i, call, pre)
           idle == Outcome(d, pre, FALSE)
           fault == [type |-> "error", kind |-> "injected_503", call |-> call.id]
           e == [d EXCEPT !.consumed = TRUE]
           after == Emit(e, fault)
           refusal == Answer(503, "unavailable", 0)
           failed == Outcome(after, refusal, FALSE)
           ran == RunHandler(conf, d, call)
           Fine(x) == /\ Whole(x.db)
                      /\ \A rules : Strikes(d.events, x.db.events, call.id, rules)
                      /\ CallTold(conf, d, call, i, x)
<1>1. \/ pre # Unanswered /\ o = idle
      \/ pre = Unanswered /\ o = failed
      \/ pre = Unanswered /\ o = ran
  BY DEF Serve
<1>2. RuleType(conf, i) = "stale_read" =>
          /\ pre # Unanswered
          /\ \E s \in Snapshots(d, i, call) : pre = s.answer
  <2> SUFFICES ASSUME RuleType(conf, i) = "stale_read"
               PROVE  pre # Unanswered /\ \E s \in Snapshots(d, i, call) : pre = s.answer
    OBVIOUS
  <2> DEFINE s == CHOOSE x \in Snapshots(d, i, call) : TRUE
  <2>1. i # NoRule /\ conf.chaos[i].type = "stale_read"
    BY DEF RuleType
  <2>2. s \in Snapshots(d, i, call)
    BY DEF Showable
  <2>3. pre = s.answer
    BY <2>1, ZenonT(30) DEF PreAnswer
  <2>4. Succeeds(s.answer)
    BY <2>2 DEF Snapshots
  <2>5. Unanswered.status = -1
    BY AnswerText DEF Unanswered
  <2> HIDE DEF s, pre
  <2> QED
    BY <2>2, <2>3, <2>4, <2>5 DEF Succeeds
<1>3. pre # Unanswered /\ RuleType(conf, i) # "stale_read" => pre.body.text # "charge"
  BY EffectTexts DEF RuleType
<1>4. refusal.body.text # "charge"
  BY AnswerText
<1>5. /\ Whole(after) /\ SameReads(d, after)
      /\ \A rules : Strikes(d.events, after.events, call.id, rules)
  <2>1. DOMAIN e = Rows /\ SameReads(d, e) /\ e.events = d.events
    BY DEF Whole, Rows, SameReads
  <2>2. fault.type # "chaos.injected"
    OBVIOUS
  <2> HIDE DEF e, fault
  <2>3. Whole(after) /\ SameReads(e, after) /\ after.events = Append(d.events, fault)
    BY <2>1, EmitReads DEF Whole
  <2>4. \A rules : Strikes(d.events, Append(d.events, fault), call.id, rules)
    BY <2>2, StrikesAppend DEF Whole
  <2> QED
    BY <2>1, <2>3, <2>4 DEF SameReads
<1> HIDE DEF pre, after, refusal
<1>6. CASE pre # Unanswered /\ o = idle
  <2>1. idle.db = d /\ idle.answer = pre
    BY DEF Outcome
  <2> HIDE DEF idle, o
  <2>2. Whole(idle.db) /\ \A rules : Strikes(d.events, idle.db.events, call.id, rules)
    BY <2>1, StrikesRefl DEF Whole
  <2>3. SameReads(d, idle.db)
    BY <2>1 DEF SameReads
  <2>4. CallTold(conf, d, call, i, idle)
    BY <1>2, <1>3, <1>6, <2>1, <2>3 DEF CallTold
  <2> QED
    BY <1>6, <2>2, <2>4 DEF o, pre
<1>7. CASE pre = Unanswered /\ o = failed
  <2>1. failed.db = after /\ failed.answer = refusal
    BY DEF Outcome
  <2> HIDE DEF failed, o
  <2>2. CallTold(conf, d, call, i, failed)
    BY <1>4, <1>5, <2>1 DEF CallTold
  <2> QED
    BY <1>5, <1>7, <2>1, <2>2 DEF o, pre
<1>8. CASE pre = Unanswered /\ o = ran
  <2>1. HandlerDone(conf, d, call, ran)
    BY RunHandlerReads
  <2> HIDE DEF ran, o
  <2>2. HandlerTold(conf, d, call, ran)
    BY <2>1 DEF HandlerDone, HandlerTold
  <2>3. CallTold(conf, d, call, i, ran)
    BY <1>2, <1>8, <2>2 DEF CallTold
  <2> QED
    BY <1>8, <2>1, <2>3 DEF HandlerDone, o, pre
<1> QED
  BY <1>1, <1>6, <1>7, <1>8

(* An effect on the answer hides what the handler said, or leaves it. *)
LEMMA HideReads ==
  ASSUME NEW conf, NEW d, NEW i, i # NoRule, NEW call, NEW o, DOMAIN o = OutcomeFields, Whole(o.db),
         o.db.hidden = d.hidden,
         Strikes(d.events, o.db.events, call.id, Struck(conf, i)),
         NEW row, HandlerLeft(conf, d, call, Handle(conf.seed, d.world, row, call), o.db),
         o.answer = Handle(conf.seed, d.world, row, call).answer
  PROVE  LET h == HideOutcome(conf, o, i, call)
         IN  /\ Whole(h.db)
             /\ Strikes(d.events, h.db.events, call.id, Struck(conf, i))
             /\ HandlerTold(conf, d, call, h)
<1> DEFINE b == o.db
           h == HideOutcome(conf, o, i, call)
           ran == Handle(conf.seed, d.world, row, call)
           x == [call |-> call.id, rule |-> conf.chaos[i].id, answer |-> o.answer]
           kept == [b EXCEPT !.hidden = b.hidden \cup {x}]
           inj == Injected(conf, b, i, call)
           after == Emit(kept, inj)
<1>1. \/ h.answer = o.answer /\ \E v : h.db = [b EXCEPT !.rules = v]
      \/ h.answer.body.text # "charge" /\ h.db = after
  <2>1. CASE conf.chaos[i].type = "timeout_after_commit" /\ ~(Succeeds(o.answer) /\ o.mutated)
    <3>1. PICK v : h = [o EXCEPT !.db.rules = v]
      BY <2>1 DEF HideOutcome
    <3> HIDE DEF h
    <3> QED
      BY <3>1 DEF OutcomeFields
  <2>2. CASE ~(conf.chaos[i].type = "timeout_after_commit" /\ ~(Succeeds(o.answer) /\ o.mutated))
    <3>1. PICK n, t : /\ t \in {"timeout", "malformed"}
                      /\ h = [o EXCEPT !.db = after, !.answer = Answer(n, t, 0)]
      BY <2>2 DEF HideOutcome
    <3> DEFINE a == Answer(n, t, 0)
    <3>2. a.body.text # "charge"
      BY <3>1, AnswerText
    <3> HIDE DEF h, after, a
    <3> QED
      BY <3>1, <3>2 DEF OutcomeFields, a
  <2> QED
    BY <2>1, <2>2
<1>2. inj.call = call.id /\ inj.rule = conf.chaos[i].id /\ x.call = call.id /\ x.answer = o.answer
  BY DEF Injected
<1> HIDE DEF h, inj, x, ran
<1>3. CASE h.answer = o.answer /\ \E v : h.db = [b EXCEPT !.rules = v]
  <2>1. PICK v : h.db = [b EXCEPT !.rules = v]
    BY <1>3
  <2>2. /\ DOMAIN h.db = Rows /\ h.db.events = b.events /\ h.db.world = b.world
        /\ h.db.hidden = d.hidden /\ h.db.snapshots = b.snapshots
    <3> HIDE DEF b
    <3>1. DOMAIN b = Rows /\ b.hidden = d.hidden
      BY DEF b, Whole
    <3> QED
      BY <2>1, <3>1 DEF Rows
  <2>3. HandlerLeft(conf, d, call, ran, h.db)
    BY <2>2 DEF HandlerLeft, ran
  <2>4. HandlerTold(conf, d, call, h)
    BY <1>3, <2>2, <2>3 DEF HandlerTold, ran
  <2> QED
    BY <2>2, <2>4 DEF Whole, h
<1>4. CASE h.answer.body.text # "charge" /\ h.db = after
  <2>1. /\ DOMAIN kept = Rows /\ kept.events = b.events /\ kept.world = b.world
        /\ kept.hidden = d.hidden \cup {x} /\ kept.snapshots = b.snapshots
    BY DEF Whole, Rows
  <2> HIDE DEF kept, b
  <2>2. Whole(kept)
    BY <2>1 DEF Whole, b
  <2>3. Whole(after) /\ SameReads(kept, after) /\ after.world = kept.world /\ after.events = Append(b.events, inj)
    BY <2>1, <2>2, EmitReads
  <2> HIDE DEF after
  <2>4. Strikes(b.events, after.events, call.id, Struck(conf, i))
    BY <1>2, <2>1, <2>2, <2>3, StrikesAppend DEF Whole, Struck
  <2>5. Strikes(d.events, after.events, call.id, Struck(conf, i))
    BY <2>4, StrikesTrans DEF b
  <2>6. HandlerLeft(conf, d, call, ran, h.db) /\ h.db.hidden = d.hidden \cup {x}
    BY <1>4, <2>1, <2>3 DEF HandlerLeft, ran, b, SameReads
  <2>7. HandlerTold(conf, d, call, h)
    BY <1>2, <1>4, <2>6 DEF HandlerTold, ran
  <2> QED
    BY <1>4, <2>3, <2>5, <2>7 DEF h
<1> QED
  BY <1>1, <1>3, <1>4

(* The rule struck this call in the ledger's newest part. *)
Hit(conf, i, call, s, t) ==
    \E k \in (Len(s) + 1)..Len(t) :
        t[k].type = "chaos.injected" /\ t[k].call = call.id /\ t[k].rule = conf.chaos[i].id

(* What a call run from the rows d has come to. *)
RunTold(conf, d, call, i, o) ==
    /\ Whole(o.db)
    /\ Strikes(d.events, o.db.events, call.id, Struck(conf, i))
    /\ \E b : SameReads(d, b) /\ CallTold(conf, b, call, i, o)
    /\ RuleType(conf, i) = "stale_read" => Hit(conf, i, call, d.events, o.db.events)

LEMMA RunReads ==
  ASSUME NEW conf, NEW d, Whole(d), NEW i, NEW call, Showable(conf, d, i, call),
         \A s \in d.snapshots : Succeeds(s.answer),
         RunCall(conf, [db |-> d, rule |-> i], call).ok
  PROVE  RunTold(conf, d, call, i, RunCall(conf, [db |-> d, rule |-> i], call).done)
<1> DEFINE actor == BeforeHandler(conf, d, i, call)
           b == actor.db
           pre == IF i = NoRule THEN Unanswered ELSE PreAnswer(conf, b, i, call)
           o == Serve(conf, b, i, call, pre)
           run == RunCall(conf, [db |-> d, rule |-> i], call)
           done == run.done
           rules == Struck(conf, i)
<1>1. run = AfterHandler(conf, actor, i, call, o)
  BY DEF RunCall, Served
<1>2. /\ RuleType(conf, i) \in PostEffect => ~FaultFires(conf, b, call) /\ done = HideOutcome(conf, o, i, call)
      /\ RuleType(conf, i) \notin PostEffect => done = o
  <2> DEFINE r == AfterHandler(conf, actor, i, call, o)
  <2>1. r.ok
    BY <1>1
  <2> HIDE DEF actor, o
  <2>2. RuleType(conf, i) \in PostEffect => ~FaultFires(conf, actor.db, call)
    BY <2>1, Zenon DEF AfterHandler
  <2>3. /\ RuleType(conf, i) \in PostEffect => r.done = HideOutcome(conf, o, i, call)
        /\ RuleType(conf, i) \notin PostEffect => r.done = o
    BY DEF AfterHandler
  <2> QED
    BY <1>1, <2>2, <2>3
<1>3. /\ Whole(b) /\ SameReads(d, b)
      /\ Strikes(d.events, b.events, call.id, rules)
      /\ RuleType(conf, i) = "stale_read" => b = Emit(d, Injected(conf, d, i, call))
  BY BeforeReads
<1>4. Whole(b)
  BY <1>3
<1>5. Showable(conf, b, i, call) /\ \A s \in b.snapshots : Succeeds(s.answer)
  BY <1>3 DEF Showable, Snapshots, SameReads
<1> HIDE DEF b, done, run
<1>6. /\ Whole(o.db)
      /\ \A x : Strikes(b.events, o.db.events, call.id, x)
      /\ CallTold(conf, b, call, i, o)
  BY <1>4, <1>5, ServeReads
<1>7. CASE RuleType(conf, i) \in PostEffect
  <2>1. i # NoRule /\ conf.chaos[i].type \in PostEffect
    BY <1>7 DEF RuleType, PostEffect
  <2>2. pre = Unanswered
    BY <2>1, ZenonT(30) DEF PreAnswer, PostEffect
  <2>3. o = RunHandler(conf, b, call)
    BY <1>2, <1>7, <2>2 DEF Serve
  <2> HIDE DEF o
  <2>4. HandlerDone(conf, b, call, o)
    BY <1>4, <2>3, RunHandlerReads
  <2>5. PICK row : /\ HandlerLeft(conf, b, call, Handle(conf.seed, b.world, row, call), o.db)
                   /\ o.answer = Handle(conf.seed, b.world, row, call).answer
    BY <2>4 DEF HandlerDone
  <2>6. /\ DOMAIN o = OutcomeFields /\ Whole(o.db) /\ o.db.hidden = b.hidden
        /\ Strikes(b.events, o.db.events, call.id, Struck(conf, i))
    BY <2>4 DEF HandlerDone
  <2>7. /\ Whole(done.db)
        /\ Strikes(b.events, done.db.events, call.id, Struck(conf, i))
        /\ HandlerTold(conf, b, call, done)
    BY <1>2, <1>7, <2>1, <2>5, <2>6, HideReads
  <2>8. Strikes(d.events, done.db.events, call.id, rules)
    BY <1>3, <2>7, StrikesTrans
  <2>9. RuleType(conf, i) # "stale_read"
    BY <1>7 DEF PostEffect
  <2>10. CallTold(conf, b, call, i, done)
    BY <2>7, <2>9 DEF CallTold
  <2>11. RunTold(conf, d, call, i, done)
    BY <1>3, <2>7, <2>8, <2>9, <2>10 DEF RunTold
  <2> QED
    BY <2>11 DEF done, run
<1>8. CASE RuleType(conf, i) \notin PostEffect
  <2>1. done = o
    BY <1>2, <1>8
  <2> HIDE DEF o
  <2>2. Strikes(b.events, o.db.events, call.id, rules)
    BY <1>6
  <2>3. Strikes(d.events, o.db.events, call.id, rules)
    BY <1>3, <2>2, StrikesTrans
  <2>4. ASSUME RuleType(conf, i) = "stale_read"
        PROVE  Hit(conf, i, call, d.events, o.db.events)
    <3> DEFINE inj == Injected(conf, d, i, call)
               n == Len(d.events) + 1
    <3>1. inj.type = "chaos.injected" /\ inj.call = call.id /\ inj.rule = conf.chaos[i].id
      BY DEF Injected
    <3> HIDE DEF inj
    <3>2. b.events = Append(d.events, inj)
      BY <1>3, <2>4, EmitReads DEF inj
    <3>3. Len(d.events) \in Nat /\ Len(b.events) = n /\ b.events[n] = inj
      BY <3>2, AppendFacts DEF Whole
    <3>4. Len(o.db.events) \in Nat
      BY <1>6, SeqFacts DEF Whole
    <3>5. n \in (Len(d.events) + 1)..Len(o.db.events) /\ o.db.events[n] = inj
      BY <2>2, <3>3, <3>4 DEF Strikes
    <3> QED
      BY <3>1, <3>5 DEF Hit
  <2>5. RunTold(conf, d, call, i, o)
    BY <1>3, <1>6, <2>3, <2>4 DEF RunTold
  <2> QED
    BY <2>1, <2>5 DEF done, run
<1> QED
  BY <1>7, <1>8

(* A settled call's last event is its response. *)
LEMMA SettleReads ==
  ASSUME NEW done, Whole(done.db), NEW call
  PROVE  LET e == Settle(done, call)
         IN  /\ Whole(e) /\ SameReads(done.db, e) /\ e.world = done.db.world
             /\ \A rules : Strikes(done.db.events, e.events, call.id, rules)
             /\ e.events[Len(e.events)] = ResponseEvent(call, done.answer)
<1> DEFINE d == done.db
           row == AgentRow(d, call)
           m == Mutation("state.mutation", row, call)
           a == IF done.mutated THEN Emit(d, m) ELSE d
           r == ResponseEvent(call, done.answer)
           c == Emit(a, r)
           e == Settle(done, call)
<1>1. e = [c EXCEPT !.results = @ \cup {Result(call, done.answer)},
                    !.transcript = Append(@, Entry(call, done.answer))]
  BY DEF Settle, ResponseEvent, Result, Entry
<1>2. m.type = "state.mutation" /\ r.type = "tool.response"
  BY MutationFacts DEF ResponseEvent
<1> HIDE DEF m, r, d, e
<1>3. /\ Whole(a) /\ SameReads(d, a) /\ a.world = d.world
      /\ \A rules : Strikes(d.events, a.events, call.id, rules)
  <2>1. Whole(d) /\ IsSeq(d.events)
    BY DEF d, Whole
  <2>2. CASE done.mutated
    <3>1. a = Emit(d, m)
      BY <2>2
    <3>2. \A rules : Strikes(d.events, Append(d.events, m), call.id, rules)
      BY <1>2, <2>1, StrikesAppend
    <3> QED
      BY <2>1, <3>1, <3>2, EmitReads
  <2>3. CASE ~done.mutated
    BY <2>1, <2>3, StrikesRefl DEF SameReads
  <2> QED
    BY <2>2, <2>3
<1> HIDE DEF a
<1>4. Whole(c) /\ SameReads(a, c) /\ c.world = a.world /\ c.events = Append(a.events, r)
  BY <1>3, EmitReads
<1> HIDE DEF c
<1>5. Whole(e) /\ SameReads(c, e) /\ e.world = c.world /\ e.events = c.events
  BY <1>1, <1>4 DEF Whole, Rows, SameReads
<1>6. \A rules : Strikes(a.events, e.events, call.id, rules)
  BY <1>2, <1>3, <1>4, <1>5, StrikesAppend DEF Whole
<1>7. \A rules : Strikes(d.events, e.events, call.id, rules)
  BY <1>3, <1>6, StrikesTrans
<1>8. e.events[Len(e.events)] = r
  BY <1>3, <1>4, <1>5, AppendFacts DEF Whole
<1> QED
  BY <1>3, <1>4, <1>5, <1>7, <1>8 DEF SameReads, e, d, r

(* What an answered call has been told, and what its ledger shows of it. *)
ToldUnder(conf, d, call, e, i, o) ==
    /\ Strikes(d.events, e.events, call.id, Struck(conf, i))
    /\ SameReads(o.db, e) /\ e.world = o.db.world
    /\ e.events[Len(e.events)] = ResponseEvent(call, o.answer)
    /\ \E b : SameReads(d, b) /\ CallTold(conf, b, call, i, o)
    /\ RuleType(conf, i) = "stale_read" => Hit(conf, i, call, d.events, e.events)

CallReads(conf, d, call, e) ==
    \E i \in DOMAIN conf.chaos \cup {NoRule} : \E o : ToldUnder(conf, d, call, e, i, o)

LEMMA InvokeReads ==
  ASSUME NEW conf, DOMAIN conf.chaos \subseteq Nat, NEW d, IsRun(d), \A s \in d.snapshots : Succeeds(s.answer),
         NEW call, Saved(d, call) = {}, call.op \in conf.ops, Invoke(conf, d, call).ok
  PROVE  CallReads(conf, d, call, Invoke(conf, d, call).db)
<1> DEFINE request == RequestEvent(call)
           start == Emit(d, request)
           checked == Check(conf, start, call)
           a == checked.db
           decided == ChaosDecide(conf, a, call)
           run == RunCall(conf, decided, call)
           stopped == Outcome(a, checked.answer, FALSE)
           e == Invoke(conf, d, call).db
<1>1. Invoke(conf, d, call) = Proceed(conf, d, call, checked)
  BY DEF Invoke, RequestEvent
<1>2. Whole(d)
  BY DEF IsRun, Whole
<1>3. request.type = "tool.request"
  BY DEF RequestEvent
<1> HIDE DEF request
<1>4. Whole(start) /\ SameReads(d, start) /\ start.events = Append(d.events, request)
  BY <1>2, EmitReads
<1>5. IsRun(start)
  <2>1. start.world = d.world /\ start.transcript = d.transcript
    BY <1>2 DEF Emit, Whole, Rows
  <2> HIDE DEF start
  <2> QED
    BY <1>4, <2>1 DEF IsRun, Whole, SameReads
<1>6. \A rules : Strikes(d.events, start.events, call.id, rules)
  BY <1>2, <1>3, <1>4, StrikesAppend DEF Whole
<1> HIDE DEF start
<1>7. Checks(conf, start, call, checked)
  BY <1>4, CheckChecks
<1>8. SameReads(start, a) /\ (~Open(checked) => checked.answer.body.text # "charge")
  BY <1>4, CheckReads
<1>9. IsRun(a)
  BY <1>5, CheckStage, UnderwayRefl DEF Underway
<1> HIDE DEF checked
<1>10. Whole(a) /\ \A rules : Strikes(start.events, a.events, call.id, rules)
  <2>1. Whole(a) /\ IsSeq(start.events)
    BY <1>4, <1>7 DEF Checks, Whole
  <2>2. a.events = start.events \/ \E audit : audit.type \in Audits /\ a.events = Append(start.events, audit)
    BY <1>7 DEF Checks
  <2>3. \A x : x \in Audits => x # "chaos.injected"
    BY DEF Audits
  <2> QED
    BY <2>1, <2>2, <2>3, StrikesAppend, StrikesRefl
<1>11. SameReads(d, a) /\ \A rules : Strikes(d.events, a.events, call.id, rules)
  BY <1>4, <1>6, <1>8, <1>10, StrikesTrans DEF SameReads
<1>12. ASSUME NEW i \in DOMAIN conf.chaos \cup {NoRule}, NEW b, SameReads(a, b), b.events = a.events,
              NEW o, RunTold(conf, b, call, i, o), e = Settle(o, call)
       PROVE  CallReads(conf, d, call, e)
  <2> HIDE DEF e, a
  <2> DEFINE f == o.db
             rules == Struck(conf, i)
  <2>1. /\ Whole(f)
        /\ Strikes(a.events, f.events, call.id, rules)
        /\ \E c : SameReads(b, c) /\ CallTold(conf, c, call, i, o)
        /\ RuleType(conf, i) = "stale_read" => Hit(conf, i, call, a.events, f.events)
    BY <1>12 DEF RunTold
  <2>2. /\ SameReads(f, e) /\ e.world = f.world
        /\ Strikes(f.events, e.events, call.id, rules)
        /\ e.events[Len(e.events)] = ResponseEvent(call, o.answer)
    BY <1>12, <2>1, SettleReads
  <2>3. \E c : SameReads(d, c) /\ CallTold(conf, c, call, i, o)
    BY <1>11, <1>12, <2>1 DEF SameReads
  <2> HIDE DEF f, rules
  <2>4. Strikes(d.events, f.events, call.id, rules) /\ Strikes(d.events, e.events, call.id, rules)
    BY <1>11, <2>1, <2>2, StrikesTrans
  <2>5. ASSUME RuleType(conf, i) = "stale_read" PROVE Hit(conf, i, call, d.events, e.events)
    <3>1. PICK k \in (Len(a.events) + 1)..Len(f.events) :
              /\ f.events[k].type = "chaos.injected" /\ f.events[k].call = call.id
              /\ f.events[k].rule = conf.chaos[i].id
      BY <2>1, <2>5 DEF Hit
    <3>2. /\ Len(d.events) \in Nat /\ Len(a.events) \in Nat /\ Len(f.events) \in Nat /\ Len(e.events) \in Nat
          /\ Len(d.events) <= Len(a.events) /\ Len(f.events) <= Len(e.events)
          /\ \A j \in 1..Len(f.events) : e.events[j] = f.events[j]
      BY <1>11, <2>1, <2>2, SeqFacts DEF Strikes
    <3>3. k \in (Len(d.events) + 1)..Len(e.events) /\ e.events[k] = f.events[k]
      BY <3>2
    <3> QED
      BY <3>1, <3>3 DEF Hit
  <2>6. ToldUnder(conf, d, call, e, i, o)
    BY <2>2, <2>3, <2>4, <2>5 DEF ToldUnder, f, rules
  <2> QED
    BY <2>6 DEF CallReads
<1>13. CASE ~Open(checked)
  <2>1. e = Settle(stopped, call)
    BY <1>1, <1>13 DEF Proceed
  <2>2. stopped.db = a /\ stopped.answer = checked.answer
    BY DEF Outcome
  <2> HIDE DEF stopped, e, a
  <2>3. SameReads(a, stopped.db) /\ SameReads(a, a)
    BY <2>2 DEF SameReads
  <2>4. CallTold(conf, a, call, NoRule, stopped)
    BY <1>8, <1>13, <2>2, <2>3 DEF CallTold
  <2>5. RuleType(conf, NoRule) # "stale_read"
    BY DEF RuleType
  <2>6. Strikes(a.events, stopped.db.events, call.id, Struck(conf, NoRule))
    BY <1>10, <2>2, StrikesRefl DEF Whole
  <2>7. RunTold(conf, a, call, NoRule, stopped)
    BY <1>10, <2>2, <2>3, <2>4, <2>5, <2>6 DEF RunTold
  <2> QED
    BY <1>12, <2>1, <2>3, <2>7 DEF e
<1>14. CASE Open(checked)
  <2> DEFINE i == decided.rule
             b == decided.db
  <2>1. run.ok /\ e = Settle(run.done, call)
    BY <1>1, <1>14 DEF Proceed, Committed
  <2>2. run = RunCall(conf, [db |-> b, rule |-> i], call)
    BY DEF RunCall
  <2>3. /\ Whole(b) /\ b.events = a.events
        /\ i # NoRule => i \in DOMAIN conf.chaos
    <3> HIDE DEF a
    <3>1. DOMAIN conf.chaos \subseteq Nat /\ Whole(a)
      BY <1>10
    <3>2. Whole(ChaosDecide(conf, a, call).db)
      BY <3>1, DecideOnly
    <3>4. ChaosDecide(conf, a, call).db.events = a.events
      BY <3>1, DecideOnly
    <3>3. i # NoRule => i \in DOMAIN conf.chaos
      BY <3>1, DecideOnly
    <3> QED
      BY <3>2, <3>3, <3>4
  <2>4. SameReads(a, b)
    BY <1>10, DecideReads
  <2>5. Showable(conf, b, i, call)
    BY <1>9, DecideSelects
  <2> HIDE DEF decided, run, e, b, i, a
  <2>6. \A s \in b.snapshots : Succeeds(s.answer)
    BY <1>11, <2>4 DEF SameReads
  <2>7. RunTold(conf, b, call, i, run.done)
    BY <2>1, <2>2, <2>3, <2>5, <2>6, RunReads
  <2>8. i \in DOMAIN conf.chaos \cup {NoRule}
    BY <2>3
  <2>9. CallReads(conf, d, call, e)
    BY <1>12, <2>1, <2>3, <2>4, <2>7, <2>8
  <2> QED
    BY <2>9 DEF e
<1> QED
  BY <1>13, <1>14

-------------------------------------------------------------------------------
(***************************************************************************)
(* What was shown, and when it was so.                                     *)
(***************************************************************************)

(* Ledger s has a request with this ID and these arguments. *)
Asked(s, id, args) ==
    \E j \in DOMAIN s : s[j].type = "tool.request" /\ s[j].call = id /\ s[j].args = args

(* A stale_read rule struck the call. *)
StaleIn(conf, s, id) ==
    \E k \in DOMAIN s : /\ s[k].type = "chaos.injected" /\ s[k].call = id
                        /\ \E i \in DOMAIN conf.chaos :
                              conf.chaos[i].id = s[k].rule /\ conf.chaos[i].type = "stale_read"

HidesCharge(hidden, id) == \E h \in hidden : h.call = id /\ h.answer.body.text = "charge"

(* The responses to reads with these arguments that ran. *)
RanAt(conf, s, hidden, args) ==
    {k \in DOMAIN s :
        /\ s[k].type = "tool.response"
        /\ Asked(s, s[k].call, args)
        /\ \/ s[k].body.text = "charge" /\ ~StaleIn(conf, s, s[k].call)
           \/ HidesCharge(hidden, s[k].call)}

(* t is ledger s with one more call: its request, what happened, its       *)
(* response.                                                               *)
OneMoreCallIn(s, t, call) ==
    /\ IsSeq(s) /\ IsSeq(t)
    /\ Len(t) >= Len(s) + 2
    /\ \A k \in 1..Len(s) : t[k] = s[k]
    /\ t[Len(s) + 1] = RequestEvent(call)
    /\ t[Len(t)].type = "tool.response" /\ t[Len(t)].call = call.id
    /\ \A k \in (Len(s) + 2)..(Len(t) - 1) : t[k].type \notin Bracket
    /\ \A k \in (Len(s) + 1)..Len(t) : t[k].type = "chaos.injected" => t[k].call = call.id
    /\ \A k \in DOMAIN s : s[k].type \in Bracket \cup {"chaos.injected"} => s[k].call # call.id

LEMMA OneMorePlaces ==
  ASSUME NEW s, NEW t, NEW call, OneMoreCallIn(s, t, call)
  PROVE  /\ Len(s) \in Nat /\ DOMAIN s = 1..Len(s) /\ Len(t) \in Nat /\ DOMAIN t = 1..Len(t)
         /\ \A k \in DOMAIN s : k \in DOMAIN t /\ t[k] = s[k] /\ k < Len(t)
         /\ Len(t) \in DOMAIN t /\ Len(t) \notin DOMAIN s
         /\ Len(s) + 1 \in DOMAIN t /\ Len(s) + 1 \notin DOMAIN s
         /\ \A k \in DOMAIN t : \/ k \in DOMAIN s
                                \/ k = Len(s) + 1
                                \/ k = Len(t)
                                \/ k \in (Len(s) + 2)..(Len(t) - 1)
<1>1. Len(s) \in Nat /\ DOMAIN s = 1..Len(s) /\ Len(t) \in Nat /\ DOMAIN t = 1..Len(t)
  BY SeqFacts DEF OneMoreCallIn
<1>2. Len(t) >= Len(s) + 2 /\ \A k \in 1..Len(s) : t[k] = s[k]
  BY DEF OneMoreCallIn
<1> QED
  BY <1>1, <1>2

LEMMA AskedGrows ==
  ASSUME NEW s, NEW t, NEW call, OneMoreCallIn(s, t, call), NEW args
  PROVE  /\ \A id : id # call.id => (Asked(t, id, args) <=> Asked(s, id, args))
         /\ Asked(t, call.id, args) <=> args = Arguments(call)
<1> DEFINE r == RequestEvent(call)
           q == Len(s) + 1
<1>1. r.type = "tool.request" /\ r.call = call.id /\ r.args = Arguments(call)
  BY DEF RequestEvent
<1>2. t[q] = r
  BY DEF OneMoreCallIn
<1> HIDE DEF r
<1>3. q \in DOMAIN t
  BY OneMorePlaces
<1> HIDE DEF q
<1>4. \A k \in DOMAIN s : k \in DOMAIN t /\ t[k] = s[k] /\ (s[k].type = "tool.request" => s[k].call # call.id)
  BY OneMorePlaces DEF OneMoreCallIn, Bracket
<1>5. \A k \in DOMAIN t : t[k].type = "tool.request" => k \in DOMAIN s \/ k = q
  BY OneMorePlaces DEF OneMoreCallIn, Bracket, q
<1>6. ASSUME NEW id, id # call.id PROVE Asked(t, id, args) <=> Asked(s, id, args)
  BY <1>1, <1>2, <1>4, <1>5, <1>6 DEF Asked
<1>7. Asked(t, call.id, args) <=> args = Arguments(call)
  BY <1>1, <1>2, <1>3, <1>4, <1>5 DEF Asked
<1> QED
  BY <1>6, <1>7

LEMMA StaleGrows ==
  ASSUME NEW conf, NEW s, NEW t, NEW call, OneMoreCallIn(s, t, call), NEW id, id # call.id
  PROVE  StaleIn(conf, t, id) <=> StaleIn(conf, s, id)
<1>1. \A k \in DOMAIN s : k \in DOMAIN t /\ t[k] = s[k]
  BY OneMorePlaces
<1>2. \A k \in DOMAIN t : t[k].type = "chaos.injected" /\ t[k].call = id => k \in DOMAIN s
  <2> SUFFICES ASSUME NEW k \in DOMAIN t, t[k].type = "chaos.injected", k \notin DOMAIN s PROVE t[k].call = call.id
    OBVIOUS
  <2>1. k \in (Len(s) + 1)..Len(t)
    BY OneMorePlaces
  <2> QED
    BY <2>1 DEF OneMoreCallIn
<1> QED
  BY <1>1, <1>2 DEF StaleIn

(* The call that ledger t ends with ran a read. *)
NewRan(conf, t, call, own) ==
    \/ t[Len(t)].body.text = "charge" /\ ~StaleIn(conf, t, call.id)
    \/ HidesCharge(own, call.id)

RanGrown(ran, more, s, t, new) ==
    /\ ran \subseteq DOMAIN s
    /\ more = ran \cup (IF new THEN {Len(t)} ELSE {})

(* One call adds its response to the reads that ran, or nothing. *)
LEMMA RanGrows ==
  ASSUME NEW conf, NEW s, NEW t, NEW call, OneMoreCallIn(s, t, call), NEW args,
         NEW hidden, NEW own, \A h \in hidden : h.call # call.id, \A h \in own : h.call = call.id
  PROVE  RanGrown(RanAt(conf, s, hidden, args), RanAt(conf, t, hidden \cup own, args), s, t,
                  args = Arguments(call) /\ NewRan(conf, t, call, own))
<1> DEFINE n == Len(t)
           ran == RanAt(conf, s, hidden, args)
           all == hidden \cup own
           more == RanAt(conf, t, all, args)
           new == \/ t[n].body.text = "charge" /\ ~StaleIn(conf, t, call.id)
                  \/ HidesCharge(own, call.id)
<1>1. /\ \A k \in DOMAIN s : k \in DOMAIN t /\ t[k] = s[k]
      /\ n \in DOMAIN t /\ n \notin DOMAIN s
  BY OneMorePlaces
<1>2. \A k \in DOMAIN t : t[k].type = "tool.response" => k \in DOMAIN s \/ k = n
  <2>1. RequestEvent(call).type # "tool.response"
    BY DEF RequestEvent
  <2> QED
    BY <2>1, OneMorePlaces DEF OneMoreCallIn, Bracket
<1>3. t[n].type = "tool.response" /\ t[n].call = call.id
  BY DEF OneMoreCallIn
<1>4. \A k \in DOMAIN s : s[k].type = "tool.response" => s[k].call # call.id
  BY DEF OneMoreCallIn, Bracket
<1>5. /\ HidesCharge(all, call.id) <=> HidesCharge(own, call.id)
      /\ \A id : id # call.id => (HidesCharge(all, id) <=> HidesCharge(hidden, id))
  BY DEF HidesCharge
<1> HIDE DEF n, all
<1>6. ASSUME NEW k \in DOMAIN s PROVE k \in more <=> k \in ran
  <2>1. CASE s[k].type = "tool.response"
    <3> DEFINE id == s[k].call
    <3>1. id # call.id /\ t[k] = s[k] /\ k \in DOMAIN t
      BY <1>1, <1>4, <2>1
    <3>2. /\ Asked(t, id, args) <=> Asked(s, id, args)
          /\ StaleIn(conf, t, id) <=> StaleIn(conf, s, id)
          /\ HidesCharge(all, id) <=> HidesCharge(hidden, id)
      BY <1>5, <3>1, AskedGrows, StaleGrows
    <3> QED
      BY <3>1, <3>2 DEF RanAt
  <2>2. CASE s[k].type # "tool.response"
    BY <1>1, <2>2 DEF RanAt
  <2> QED
    BY <2>1, <2>2
<1>7. n \in more <=> args = Arguments(call) /\ new
  <2>1. Asked(t, call.id, args) <=> args = Arguments(call)
    BY AskedGrows
  <2> QED
    BY <1>1, <1>3, <1>5, <2>1 DEF RanAt
<1>8. ran \subseteq DOMAIN s /\ \A k \in more : k \in DOMAIN s \/ k = n
  BY <1>2 DEF RanAt
<1> HIDE DEF ran, more, new
<1>9. more = ran \cup (IF args = Arguments(call) /\ new THEN {n} ELSE {})
  BY <1>1, <1>6, <1>7, <1>8
<1> QED
  BY <1>8, <1>9 DEF RanGrown, NewRan, ran, more, new, n, all

-------------------------------------------------------------------------------
(* Totals of the past stay what they were. *)
Amounts(s) == \A k \in WritesOf(s, "createRefund") : s[k].amount \in Int

LEMMA TotalPrefix ==
  ASSUME NEW s, NEW t, IsSeq(s), IsSeq(t), Len(s) <= Len(t), \A k \in 1..Len(s) : t[k] = s[k],
         Amounts(s), Amounts(t), NEW c
  PROVE  \A m \in 0..Len(s) : Total(RefundsIn(t, c))[m] = Total(RefundsIn(s, c))[m]
<1> DEFINE a == RefundsIn(s, c)
           b == RefundsIn(t, c)
<1>1. /\ Len(a) = Len(s) /\ Len(s) \in Nat /\ IsTotal(a, Total(a))
      /\ \A m \in 1..Len(s) :
            a[m] = IF m \in WritesOf(s, "createRefund") /\ s[m].target = c THEN s[m].amount ELSE 0
  BY RefundsInFacts DEF Amounts
<1>2. /\ Len(b) = Len(t) /\ Len(t) \in Nat /\ IsTotal(b, Total(b))
      /\ \A m \in 1..Len(t) :
            b[m] = IF m \in WritesOf(t, "createRefund") /\ t[m].target = c THEN t[m].amount ELSE 0
  BY RefundsInFacts DEF Amounts
<1> HIDE DEF a, b
<1>3. ASSUME NEW m \in 1..Len(s) PROVE b[m] = a[m]
  <2>1. m \in 1..Len(t) /\ t[m] = s[m] /\ m \in DOMAIN s /\ m \in DOMAIN t
    BY <1>1, <1>2, SeqFacts
  <2>2. m \in WritesOf(t, "createRefund") <=> m \in WritesOf(s, "createRefund")
    BY <2>1 DEF WritesOf
  <2> QED
    BY <1>1, <1>2, <2>1, <2>2
<1>4. \A m \in 0..Len(a) : Total(b)[m] = Total(a)[m]
  BY <1>1, <1>2, <1>3, TotalsAgree
<1> QED
  BY <1>1, <1>4 DEF a, b

(* A last event that is no write adds nothing. *)
LEMMA TotalBeforeLast ==
  ASSUME NEW t, IsSeq(t), Amounts(t), Len(t) >= 1, t[Len(t)].type \notin WriteTypes, NEW c
  PROVE  Total(RefundsIn(t, c))[Len(t)] = Total(RefundsIn(t, c))[Len(t) - 1]
<1> DEFINE b == RefundsIn(t, c)
           n == Len(t)
<1>1. /\ Len(b) = n /\ n \in Nat /\ IsTotal(b, Total(b))
      /\ \A m \in 1..n : b[m] = IF m \in WritesOf(t, "createRefund") /\ t[m].target = c THEN t[m].amount ELSE 0
  BY RefundsInFacts DEF Amounts
<1>2. n \in 1..n /\ n \notin WritesOf(t, "createRefund")
  BY <1>1 DEF WritesOf
<1> HIDE DEF b, n
<1>3. b[n] = 0
  BY <1>1, <1>2
<1>4. Total(b)[n] = Total(b)[n - 1] + b[n] /\ Total(b)[n - 1] \in Int
  BY <1>1, <1>2 DEF IsTotal
<1>5. Total(b)[n] = Total(b)[n - 1]
  BY <1>3, <1>4
<1> QED
  BY <1>5 DEF b, n

LEMMA MinIs ==
  ASSUME NEW S, S \subseteq Nat, S # {}
  PROVE  Min(S) \in S /\ \A x \in S : Min(S) <= x
<1>1. PICK m \in S : \A x \in S : m <= x
  BY LeastNat
<1> QED
  BY <1>1, Zenon DEF Min

LEMMA MinStays ==
  ASSUME NEW S, S \subseteq Nat, S # {}, NEW n \in Nat, \A x \in S : x < n
  PROVE  Min(S \cup {n}) = Min(S)
<1> DEFINE T == S \cup {n}
<1>1. T \subseteq Nat /\ T # {} /\ S \subseteq T
  OBVIOUS
<1>2. Min(S) \in S /\ \A x \in S : Min(S) <= x
  BY MinIs
<1>3. Min(T) \in T /\ \A x \in T : Min(T) <= x
  <2> HIDE DEF T
  <2> QED
    BY <1>1, MinIs
<1>4. Min(T) <= Min(S) /\ Min(S) \in Nat /\ Min(T) \in Nat /\ Min(S) < n
  BY <1>1, <1>2, <1>3
<1>5. Min(T) # n
  <2> HIDE DEF T
  <2> QED
    BY <1>4
<1>6. Min(T) \in S
  BY <1>3, <1>5
<1>7. Min(S) <= Min(T)
  BY <1>2, <1>6
<1>8. Min(T) = Min(S)
  <2> HIDE DEF T
  <2> QED
    BY <1>4, <1>7
<1> QED
  BY <1>8

-------------------------------------------------------------------------------
(* The charge shown by response k, if these were the arguments of its      *)
(* request, is the charge then, or when they were first read.              *)
ShownRight(conf, s, hidden, k, args) ==
    LET ran == {j \in RanAt(conf, s, hidden, args) : j < k}
        sum == Total(RefundsIn(s, args.target))
    IN  /\ StaleIn(conf, s, s[k].call) => ran # {} /\ s[k].body.n = sum[Min(ran) - 1]
        /\ ~StaleIn(conf, s, s[k].call) => s[k].body.n = sum[k - 1]

Shows(response) ==
    response.type = "tool.response" /\ response.op = "getCharge" /\ response.body.text = "charge"

(* A snapshot is the charge when its arguments were first read. *)
SnapshotRight(conf, s, hidden, x) ==
    LET ran == RanAt(conf, s, hidden, x.args)
    IN  ran # {} /\ x.answer.body.n = Total(RefundsIn(s, x.args.target))[Min(ran) - 1]

(* A call and its hidden outcome come after what is known already. *)
Follows(s, t, call, hidden, own) ==
    /\ OneMoreCallIn(s, t, call)
    /\ Amounts(s) /\ Amounts(t)
    /\ \A h \in hidden : h.call # call.id
    /\ \A h \in own : h.call = call.id

LEMMA ShownLasts ==
  ASSUME NEW conf, NEW s, NEW t, NEW call, NEW hidden, NEW own, Follows(s, t, call, hidden, own),
         NEW k \in DOMAIN s, s[k].type = "tool.response", NEW args, ShownRight(conf, s, hidden, k, args)
  PROVE  ShownRight(conf, t, hidden \cup own, k, args)
<1> DEFINE id == s[k].call
           ran == {j \in RanAt(conf, s, hidden, args) : j < k}
           more == {j \in RanAt(conf, t, hidden \cup own, args) : j < k}
           sum == Total(RefundsIn(s, args.target))
           sums == Total(RefundsIn(t, args.target))
<1>1. OneMoreCallIn(s, t, call)
  BY DEF Follows
<1>2. /\ Len(s) \in Nat /\ DOMAIN s = 1..Len(s) /\ Len(t) \in Nat
      /\ t[k] = s[k] /\ k < Len(t)
  BY <1>1, OneMorePlaces
<1>3. id # call.id
  BY <1>1 DEF OneMoreCallIn, Bracket
<1>4. StaleIn(conf, t, id) <=> StaleIn(conf, s, id)
  BY <1>1, <1>3, StaleGrows
<1>5. ran \subseteq 1..Len(s) /\ more = ran
  <2> DEFINE old == RanAt(conf, s, hidden, args)
             all == RanAt(conf, t, hidden \cup own, args)
  <2>1. old \subseteq DOMAIN s /\ (all = old \/ all = old \cup {Len(t)})
    <3> DEFINE new == args = Arguments(call) /\ NewRan(conf, t, call, own)
    <3>1. (\A h \in hidden : h.call # call.id) /\ (\A h \in own : h.call = call.id)
      BY DEF Follows
    <3>2. RanGrown(old, all, s, t, new)
      BY <1>1, <3>1, RanGrows
    <3> HIDE DEF old, all, new
    <3> QED
      BY <3>2 DEF RanGrown
  <2> HIDE DEF old, all
  <2>2. ran = {j \in old : j < k} /\ more = {j \in all : j < k}
    BY DEF old, all
  <2>3. Len(t) \in Nat /\ k \in Nat /\ ~(Len(t) < k)
    BY <1>2
  <2> HIDE DEF ran, more
  <2> QED
    BY <1>2, <2>1, <2>2, <2>3
<1>6. \A m \in 0..Len(s) : sums[m] = sum[m]
  <2>1. /\ IsSeq(s) /\ IsSeq(t) /\ Amounts(s) /\ Amounts(t)
        /\ Len(s) <= Len(t) /\ \A m \in 1..Len(s) : t[m] = s[m]
    BY <1>1, <1>2 DEF Follows, OneMoreCallIn
  <2> QED
    BY <2>1, TotalPrefix
<1>7. ran # {} => Min(ran) \in 1..Len(s)
  <2> HIDE DEF ran
  <2>1. ran \subseteq Nat
    BY <1>2, <1>5
  <2> QED
    BY <1>5, <2>1, MinIs
<1> HIDE DEF sum, sums
<1>8. k \in 1..Len(s) /\ k - 1 \in 0..Len(s)
  BY <1>2
<1>9. ran # {} => Min(ran) - 1 \in 0..Len(s)
  <2> HIDE DEF ran
  <2> QED
    BY <1>2, <1>7
<1>10. /\ StaleIn(conf, s, id) => ran # {} /\ s[k].body.n = sum[Min(ran) - 1]
       /\ ~StaleIn(conf, s, id) => s[k].body.n = sum[k - 1]
  BY DEF ShownRight, sum
<1>11. /\ StaleIn(conf, t, id) => more # {} /\ t[k].body.n = sums[Min(more) - 1]
       /\ ~StaleIn(conf, t, id) => t[k].body.n = sums[k - 1]
  <2> HIDE DEF ran, more, id
  <2> QED
    BY <1>2, <1>4, <1>5, <1>6, <1>8, <1>9, <1>10
<1>12. t[k].call = id
  BY <1>2
<1> QED
  BY <1>11, <1>12 DEF ShownRight, sums

LEMMA SnapshotLasts ==
  ASSUME NEW conf, NEW s, NEW t, NEW call, NEW hidden, NEW own, Follows(s, t, call, hidden, own),
         NEW x, SnapshotRight(conf, s, hidden, x)
  PROVE  SnapshotRight(conf, t, hidden \cup own, x)
<1> DEFINE ran == RanAt(conf, s, hidden, x.args)
           more == RanAt(conf, t, hidden \cup own, x.args)
           sum == Total(RefundsIn(s, x.args.target))
           sums == Total(RefundsIn(t, x.args.target))
<1>1. OneMoreCallIn(s, t, call)
  BY DEF Follows
<1>2. Len(s) \in Nat /\ DOMAIN s = 1..Len(s) /\ Len(t) \in Nat /\ Len(s) < Len(t)
  BY <1>1, OneMorePlaces DEF OneMoreCallIn
<1>3. ran \subseteq DOMAIN s /\ (more = ran \/ more = ran \cup {Len(t)})
  <2> DEFINE new == x.args = Arguments(call) /\ NewRan(conf, t, call, own)
  <2>1. (\A h \in hidden : h.call # call.id) /\ (\A h \in own : h.call = call.id)
    BY DEF Follows
  <2>2. RanGrown(ran, more, s, t, new)
    BY <1>1, <2>1, RanGrows
  <2> HIDE DEF ran, more, new
  <2> QED
    BY <2>2 DEF RanGrown
<1>4. \A m \in 0..Len(s) : sums[m] = sum[m]
  <2>1. /\ IsSeq(s) /\ IsSeq(t) /\ Amounts(s) /\ Amounts(t)
        /\ Len(s) <= Len(t) /\ \A m \in 1..Len(s) : t[m] = s[m]
    BY <1>1, <1>2 DEF Follows, OneMoreCallIn
  <2> QED
    BY <2>1, TotalPrefix
<1>5. ran # {} /\ x.answer.body.n = sum[Min(ran) - 1]
  BY DEF SnapshotRight
<1> HIDE DEF ran, more, sum, sums
<1>6. ran \subseteq Nat /\ \A j \in ran : j < Len(t)
  BY <1>2, <1>3
<1>7. more # {} /\ Min(more) = Min(ran)
  BY <1>2, <1>3, <1>5, <1>6, MinStays
<1>8. Min(ran) \in 1..Len(s)
  BY <1>2, <1>3, <1>5, <1>6, MinIs
<1>9. Min(ran) - 1 \in 0..Len(s)
  BY <1>2, <1>8
<1>10. more # {} /\ x.answer.body.n = sums[Min(more) - 1]
  BY <1>4, <1>5, <1>7, <1>9
<1> QED
  BY <1>10 DEF SnapshotRight, more, sums

-------------------------------------------------------------------------------
ChargesRight(conf, s, hidden) ==
    \A k \in DOMAIN s : Shows(s[k]) =>
        \A args : Asked(s, s[k].call, args) => ShownRight(conf, s, hidden, k, args)

SnapshotsRight(conf, s, hidden, snapshots) ==
    \A x \in snapshots :
        x.args.op = "getCharge" /\ x.answer.body.text = "charge" => SnapshotRight(conf, s, hidden, x)

(* Whatever ran was observed by every stale_read rule of its operation. *)
Observed(conf, s, hidden, snapshots) ==
    \A args : args.op = "getCharge" /\ RanAt(conf, s, hidden, args) # {} =>
        \A i \in DOMAIN conf.chaos :
            conf.chaos[i].type = "stale_read" /\ args.op \in conf.chaos[i].ops =>
                \E x \in snapshots : x.rule = i /\ x.args = args

ReadsRight(conf, s, hidden, snapshots) ==
    /\ ChargesRight(conf, s, hidden)
    /\ SnapshotsRight(conf, s, hidden, snapshots)
    /\ Observed(conf, s, hidden, snapshots)
    /\ \A x \in snapshots : Succeeds(x.answer)

SameRan(conf, s, t, hidden, args) ==
    /\ RanAt(conf, t, hidden, args) = RanAt(conf, s, hidden, args)
    /\ RanAt(conf, s, hidden, args) \subseteq DOMAIN s

(* A call that did not run adds nothing to the reads that did. *)
LEMMA IdleRan ==
  ASSUME NEW conf, NEW s, NEW t, NEW call, NEW hidden, Follows(s, t, call, hidden, {}),
         t[Len(t)].body.text = "charge" => StaleIn(conf, t, call.id), NEW args
  PROVE  SameRan(conf, s, t, hidden, args)
<1> DEFINE ran == RanAt(conf, s, hidden, args)
           more == RanAt(conf, t, hidden \cup {}, args)
           new == args = Arguments(call) /\ NewRan(conf, t, call, {})
<1>1. /\ OneMoreCallIn(s, t, call) /\ hidden \cup {} = hidden
      /\ \A h \in hidden : h.call # call.id
      /\ \A h \in {} : h.call = call.id
  BY DEF Follows
<1>2. RanGrown(ran, more, s, t, new)
  BY <1>1, RanGrows
<1>3. ~new
  BY DEF HidesCharge, NewRan
<1> HIDE DEF new, ran, more
<1>4. more = ran /\ ran \subseteq DOMAIN s
  BY <1>2, <1>3 DEF RanGrown
<1> QED
  BY <1>1, <1>4 DEF SameRan, ran, more

(* A call that did not run leaves everything right, if what it was shown   *)
(* is right.                                                               *)
LEMMA IdleReadsRight ==
  ASSUME NEW conf, NEW s, NEW t, NEW call, NEW hidden, Follows(s, t, call, hidden, {}),
         NEW snapshots, ReadsRight(conf, s, hidden, snapshots),
         t[Len(t)].body.text = "charge" => StaleIn(conf, t, call.id),
         Shows(t[Len(t)]) => ShownRight(conf, t, hidden, Len(t), Arguments(call))
  PROVE  ReadsRight(conf, t, hidden, snapshots)
<1>1. OneMoreCallIn(s, t, call) /\ hidden \cup {} = hidden
  BY DEF Follows
<1>3. \A args : RanAt(conf, t, hidden, args) = RanAt(conf, s, hidden, args)
  BY IdleRan DEF SameRan
<1>4. ASSUME NEW k \in DOMAIN t, Shows(t[k]), NEW args, Asked(t, t[k].call, args)
      PROVE  ShownRight(conf, t, hidden, k, args)
  <2>1. CASE k \in DOMAIN s
    <3>1. t[k] = s[k] /\ s[k].type = "tool.response" /\ s[k].call # call.id
      BY <1>1, <1>4, <2>1, OneMorePlaces DEF Shows, OneMoreCallIn, Bracket
    <3>2. Asked(s, s[k].call, args)
      BY <1>1, <1>4, <3>1, AskedGrows
    <3>3. ShownRight(conf, s, hidden, k, args)
      BY <1>4, <2>1, <3>1, <3>2 DEF ReadsRight, ChargesRight
    <3>4. ShownRight(conf, t, hidden \cup {}, k, args)
      BY <2>1, <3>1, <3>3, ShownLasts
    <3> QED
      BY <1>1, <3>4
  <2>2. CASE k = Len(t)
    <3>1. t[k].call = call.id
      BY <1>1, <2>2 DEF OneMoreCallIn
    <3>2. args = Arguments(call)
      BY <1>1, <1>4, <3>1, AskedGrows
    <3> QED
      BY <1>4, <2>2, <3>2
  <2>3. k \in DOMAIN s \/ k = Len(t)
    <3>1. RequestEvent(call).type # "tool.response"
      BY DEF RequestEvent
    <3> QED
      BY <1>1, <1>4, <3>1, OneMorePlaces DEF OneMoreCallIn, Bracket, Shows
  <2> QED
    BY <2>1, <2>2, <2>3
<1>5. ChargesRight(conf, t, hidden)
  BY <1>4 DEF ChargesRight
<1>6. SnapshotsRight(conf, t, hidden, snapshots)
  <2> SUFFICES ASSUME NEW x \in snapshots, x.args.op = "getCharge", x.answer.body.text = "charge"
               PROVE  SnapshotRight(conf, t, hidden, x)
    BY DEF SnapshotsRight
  <2>1. SnapshotRight(conf, s, hidden, x)
    BY DEF ReadsRight, SnapshotsRight
  <2>2. SnapshotRight(conf, t, hidden \cup {}, x)
    BY <2>1, SnapshotLasts
  <2> QED
    BY <1>1, <2>2
<1>7. Observed(conf, t, hidden, snapshots)
  BY <1>3 DEF ReadsRight, Observed
<1> QED
  BY <1>5, <1>6, <1>7 DEF ReadsRight

(* What the stale_read rules keep of an answer. *)
Keeps(conf, snapshots, more, call, a) ==
    /\ \A x \in more : \/ x \in snapshots
                       \/ /\ x.args = Arguments(call) /\ x.answer = a /\ Succeeds(a)
                          /\ x.rule \in DOMAIN conf.chaos /\ conf.chaos[x.rule].type = "stale_read"
                          /\ call.op \in conf.chaos[x.rule].ops
                          /\ ~\E y \in snapshots : y.rule = x.rule /\ y.args = Arguments(call)
    /\ snapshots \subseteq more
    /\ Succeeds(a) /\ Method(call.op) = "GET" =>
          \A i \in DOMAIN conf.chaos :
              conf.chaos[i].type = "stale_read" /\ call.op \in conf.chaos[i].ops =>
                  \E x \in more : x.rule = i /\ x.args = Arguments(call)

(* A call that ran, with answer a, shown or hidden, leaves everything      *)
(* right if a charge in a is the charge as it is.                          *)
LEMMA RanReadsRight ==
  ASSUME NEW conf, NEW s, NEW t, NEW call, NEW hidden, NEW own, Follows(s, t, call, hidden, own),
         NEW snapshots, ReadsRight(conf, s, hidden, snapshots),
         ~StaleIn(conf, t, call.id), t[Len(t)].op = call.op,
         NEW a, NEW more, Keeps(conf, snapshots, more, call, a),
         \/ t[Len(t)].body = a.body /\ own = {}
         \/ t[Len(t)].body.text # "charge" /\ \E h : own = {h} /\ h.call = call.id /\ h.answer = a,
         call.op = "getCharge" /\ a.body.text = "charge" =>
             Succeeds(a) /\ a.body.n = Total(RefundsIn(t, call.target))[Len(t) - 1]
  PROVE  ReadsRight(conf, t, hidden \cup own, more)
<1> DEFINE n == Len(t)
           all == hidden \cup own
           args == Arguments(call)
           ran == RanAt(conf, s, hidden, args)
           now == RanAt(conf, t, all, args)
           shown == a.body.text = "charge"
<1>1. OneMoreCallIn(s, t, call) /\ \A h \in hidden : h.call # call.id /\ \A g \in own : g.call = call.id
  BY DEF Follows
<1>2. args.op = call.op /\ args.target = call.target
  BY DEF Arguments
<1>3. /\ ran \subseteq DOMAIN s
      /\ shown => now = ran \cup {n}
      /\ ~shown => now = ran
  <2> DEFINE new == args = Arguments(call) /\ NewRan(conf, t, call, own)
  <2>1. RanGrown(ran, now, s, t, new)
    <3>1. /\ \A h \in hidden : h.call # call.id
          /\ \A h \in own : h.call = call.id
      BY DEF Follows
    <3> QED
      BY <1>1, <3>1, RanGrows
  <2>2. new <=> shown
    <3>1. CASE t[n].body = a.body /\ own = {}
      BY <3>1 DEF HidesCharge, NewRan
    <3>2. CASE t[n].body.text # "charge" /\ \E h : own = {h} /\ h.call = call.id /\ h.answer = a
      BY <3>2 DEF HidesCharge, NewRan
    <3> QED
      BY <3>1, <3>2
  <2> HIDE DEF new, ran, now, shown
  <2> QED
    BY <2>1, <2>2 DEF RanGrown
<1>4. \A x : x # args => RanAt(conf, t, all, x) = RanAt(conf, s, hidden, x)
  <2> SUFFICES ASSUME NEW x, x # args PROVE RanAt(conf, t, all, x) = RanAt(conf, s, hidden, x)
    OBVIOUS
  <2> DEFINE old == RanAt(conf, s, hidden, x)
             late == RanAt(conf, t, all, x)
             new == x = Arguments(call) /\ NewRan(conf, t, call, own)
  <2>1. RanGrown(old, late, s, t, new)
    <3>1. /\ \A h \in hidden : h.call # call.id
          /\ \A h \in own : h.call = call.id
      BY DEF Follows
    <3> QED
      BY <1>1, <3>1, RanGrows
  <2>2. ~new
    OBVIOUS
  <2> HIDE DEF old, late, new
  <2>3. late = old
    BY <2>1, <2>2 DEF RanGrown
  <2> QED
    BY <2>3 DEF old, late
<1>5. n \in Nat /\ n \notin DOMAIN s /\ n \in DOMAIN t /\ t[n].call = call.id
  BY <1>1, OneMorePlaces DEF OneMoreCallIn
<1> HIDE DEF args
<1>6. ASSUME NEW k \in DOMAIN t, Shows(t[k]), NEW x, Asked(t, t[k].call, x)
      PROVE  ShownRight(conf, t, all, k, x)
  <2>1. CASE k \in DOMAIN s
    <3>1. t[k] = s[k] /\ s[k].type = "tool.response" /\ s[k].call # call.id
      BY <1>1, <1>6, <2>1, OneMorePlaces DEF Shows, OneMoreCallIn, Bracket
    <3>2. Asked(s, s[k].call, x)
      BY <1>1, <1>6, <3>1, AskedGrows
    <3>3. ShownRight(conf, s, hidden, k, x)
      BY <1>6, <2>1, <3>1, <3>2 DEF ReadsRight, ChargesRight
    <3> QED
      BY <2>1, <3>1, <3>3, ShownLasts
  <2>2. CASE k = n
    <3>1. x = args
      BY <1>1, <1>5, <1>6, <2>2, AskedGrows DEF args
    <3>2. call.op = "getCharge" /\ t[n].body = a.body /\ shown
      BY <1>6, <2>2 DEF Shows
    <3>3. t[k].body.n = Total(RefundsIn(t, x.target))[k - 1]
      BY <1>2, <2>2, <3>1, <3>2
    <3>4. ~StaleIn(conf, t, t[k].call)
      BY <1>5, <2>2
    <3> QED
      BY <3>3, <3>4 DEF ShownRight
  <2>3. k \in DOMAIN s \/ k = n
    <3>1. RequestEvent(call).type # "tool.response"
      BY DEF RequestEvent
    <3> QED
      BY <1>1, <1>6, <3>1, OneMorePlaces DEF OneMoreCallIn, Bracket, Shows
  <2> QED
    BY <2>1, <2>2, <2>3
<1>7. ChargesRight(conf, t, all)
  BY <1>6 DEF ChargesRight
<1>8. ASSUME NEW x \in more, x.args.op = "getCharge", x.answer.body.text = "charge"
      PROVE  SnapshotRight(conf, t, all, x)
  <2>1. CASE x \in snapshots
    <3>1. SnapshotRight(conf, s, hidden, x)
      BY <1>8, <2>1 DEF ReadsRight, SnapshotsRight
    <3> QED
      BY <3>1, SnapshotLasts
  <2>2. CASE x \notin snapshots
    <3>1. /\ x.args = args /\ x.answer = a
          /\ x.rule \in DOMAIN conf.chaos /\ conf.chaos[x.rule].type = "stale_read"
          /\ call.op \in conf.chaos[x.rule].ops
          /\ ~\E y \in snapshots : y.rule = x.rule /\ y.args = args
      BY <2>2 DEF Keeps, args
    <3>2. call.op = "getCharge" /\ shown
      BY <1>2, <1>8, <3>1
    <3>3. ran = {}
      BY <1>2, <3>1, <3>2 DEF ReadsRight, Observed
    <3>4. now = {n}
      BY <1>3, <3>2, <3>3
    <3>5. Min({n}) = n
      <4> DEFINE T == {n}
      <4>1. T \subseteq Nat /\ T # {}
        BY <1>5
      <4> HIDE DEF T
      <4>2. Min(T) \in T
        BY <4>1, MinIs
      <4> QED
        BY <4>2 DEF T
    <3> HIDE DEF now, n
    <3>6. now # {} /\ x.answer.body.n = Total(RefundsIn(t, x.args.target))[Min(now) - 1]
      BY <1>2, <3>1, <3>2, <3>4, <3>5 DEF n
    <3> QED
      BY <3>1, <3>6 DEF SnapshotRight, now
  <2> QED
    BY <2>1, <2>2
<1>9. SnapshotsRight(conf, t, all, more)
  BY <1>8 DEF SnapshotsRight
<1>10. ASSUME NEW x, x.op = "getCharge", RanAt(conf, t, all, x) # {},
              NEW i \in DOMAIN conf.chaos, conf.chaos[i].type = "stale_read", x.op \in conf.chaos[i].ops
       PROVE  \E y \in more : y.rule = i /\ y.args = x
  <2>1. CASE RanAt(conf, s, hidden, x) # {}
    <3>1. \E y \in snapshots : y.rule = i /\ y.args = x
      BY <1>10, <2>1 DEF ReadsRight, Observed
    <3> QED
      BY <3>1 DEF Keeps
  <2>2. CASE RanAt(conf, s, hidden, x) = {}
    <3>1. x = args
      BY <1>4, <1>10, <2>2
    <3>2. shown
      BY <1>3, <1>10, <2>2, <3>1
    <3>3. call.op = "getCharge" /\ Succeeds(a)
      BY <1>2, <1>10, <3>1, <3>2
    <3>4. Method(call.op) = "GET"
      BY <3>3 DEF Method, Mutating
    <3> QED
      BY <1>2, <1>10, <3>1, <3>3, <3>4 DEF Keeps, args
  <2> QED
    BY <2>1, <2>2
<1>11. Observed(conf, t, all, more)
  BY <1>10 DEF Observed
<1>12. \A x \in more : Succeeds(x.answer)
  BY DEF Keeps, ReadsRight
<1> QED
  BY <1>7, <1>9, <1>11, <1>12 DEF ReadsRight

-------------------------------------------------------------------------------
Reading(conf, d) ==
    /\ ReadsRight(conf, d.events, d.hidden, d.snapshots)
    /\ \A k \in DOMAIN d.events : d.events[k].type = "chaos.injected" => d.events[k].call \in AnsweredIds(d)

LEMMA NewRunReading ==
  ASSUME NEW conf
  PROVE  Reading(conf, NewRun(conf))
<1> DEFINE d == NewRun(conf)
           e == [type |-> "execution.started"]
<1>1. d.events = <<e>> /\ d.hidden = {} /\ d.snapshots = {}
  BY NewRunFacts DEF NewRun
<1>2. \A k \in DOMAIN <<e>> : <<e>>[k].type \notin {"chaos.injected", "tool.response"}
  OBVIOUS
<1> HIDE DEF d, e
<1>3. \A args : RanAt(conf, d.events, d.hidden, args) = {}
  BY <1>1, <1>2 DEF RanAt
<1>4. ReadsRight(conf, d.events, d.hidden, d.snapshots)
  BY <1>1, <1>2, <1>3 DEF ReadsRight, ChargesRight, Shows, SnapshotsRight, Observed
<1> QED
  BY <1>1, <1>2, <1>4 DEF Reading, d

(* What an answered call adds to the ledger. *)
LEMMA AnsweredFollows ==
  ASSUME NEW conf, NEW d, Accounted(d), Reading(conf, d), Books(conf, d), NEW call, call.id \notin AnsweredIds(d),
         NEW e, Books(conf, e), NEW answer, AnsweredWith(d, e, call, answer),
         NEW rules, Strikes(d.events, e.events, call.id, rules)
  PROVE  /\ \A own : (\A h \in own : h.call = call.id) => Follows(d.events, e.events, call, d.hidden, own)
         /\ \A k \in DOMAIN d.events : d.events[k].type = "chaos.injected" => d.events[k].call # call.id
<1> DEFINE s == d.events
           t == e.events
<1>1. IsSeq(s) /\ IsSeq(t)
  BY DEF Strikes
<1>2. \A k \in DOMAIN s : s[k].type \in Bracket \cup {"chaos.injected"} => s[k].call # call.id
  BY DEF Accounted, Answering, AnsweredIds, Reading
<1>3. \A h \in d.hidden : h.call # call.id
  BY DEF Accounted
<1>4. Amounts(s) /\ Amounts(t)
  BY DEF Books, Kept, Booked, MoneyBooked, Amounts
<1>5. ResponseEvent(call, answer).type = "tool.response" /\ ResponseEvent(call, answer).call = call.id
  BY DEF ResponseEvent
<1>6. \A x \in Inside : x \notin Bracket
  BY DEF Inside, Bracket
<1>7. OneMoreCallIn(s, t, call)
  <2>1. Len(t) >= Len(s) + 2 /\ \A k \in 1..Len(s) : t[k] = s[k]
    BY DEF AnsweredWith
  <2>2. t[Len(s) + 1] = RequestEvent(call) /\ t[Len(t)] = ResponseEvent(call, answer)
    BY DEF AnsweredWith
  <2>3. \A k \in (Len(s) + 2)..(Len(t) - 1) : t[k].type \notin Bracket
    BY <1>6 DEF AnsweredWith
  <2>4. \A k \in (Len(s) + 1)..Len(t) : t[k].type = "chaos.injected" => t[k].call = call.id
    BY DEF Strikes
  <2> QED
    BY <1>1, <1>2, <1>5, <2>1, <2>2, <2>3, <2>4 DEF OneMoreCallIn
<1> QED
  BY <1>2, <1>3, <1>4, <1>7 DEF Follows

LEMMA ReadingCall ==
  ASSUME NEW conf, Sound(conf), NEW d, Accounted(d), Reading(conf, d), Books(conf, d),
         NEW call, call.id \notin AnsweredIds(d),
         NEW e, Books(conf, e), NEW answer, AnsweredWith(d, e, call, answer), CallReads(conf, d, call, e)
  PROVE  ReadsRight(conf, e.events, e.hidden, e.snapshots)
<1> DEFINE s == d.events
           t == e.events
           n == Len(t)
<1>1. PICK i \in DOMAIN conf.chaos \cup {NoRule} : \E o : ToldUnder(conf, d, call, e, i, o)
  BY DEF CallReads
<1>2. PICK o : ToldUnder(conf, d, call, e, i, o)
  BY <1>1
<1>3. /\ Strikes(s, t, call.id, Struck(conf, i))
      /\ SameReads(o.db, e) /\ e.world = o.db.world
      /\ t[n] = ResponseEvent(call, o.answer)
      /\ RuleType(conf, i) = "stale_read" => Hit(conf, i, call, s, t)
  BY <1>2 DEF ToldUnder
<1>4. PICK b : SameReads(d, b) /\ CallTold(conf, b, call, i, o)
  BY <1>2 DEF ToldUnder
<1>5. /\ \A own : (\A h \in own : h.call = call.id) => Follows(s, t, call, d.hidden, own)
      /\ \A k \in DOMAIN s : s[k].type = "chaos.injected" => s[k].call # call.id
  BY <1>3, AnsweredFollows
<1>6. Follows(s, t, call, d.hidden, {}) /\ OneMoreCallIn(s, t, call)
  <2> HIDE DEF s, t
  <2>1. \A h \in {} : h.call = call.id
    OBVIOUS
  <2>2. Follows(s, t, call, d.hidden, {})
    BY <1>5, <2>1
  <2> QED
    BY <2>2 DEF Follows
<1>7. t[n].body = o.answer.body /\ t[n].op = call.op /\ t[n].call = call.id /\ t[n].type = "tool.response"
  <2> DEFINE r == ResponseEvent(call, o.answer)
  <2>1. r.body = o.answer.body /\ r.op = call.op /\ r.call = call.id /\ r.type = "tool.response"
    BY DEF ResponseEvent
  <2> HIDE DEF r
  <2> QED
    BY <1>3, <2>1 DEF r
<1>8. ReadsRight(conf, s, d.hidden, d.snapshots)
  BY DEF Reading
<1> HIDE DEF s, t, n
<1>9. CASE o.answer.body.text # "charge" /\ SameReads(b, o.db)
  <2>1. e.hidden = d.hidden /\ e.snapshots = d.snapshots
    BY <1>3, <1>4, <1>9 DEF SameReads
  <2>2. t[n].body.text # "charge" /\ ~Shows(t[n])
    BY <1>7, <1>9 DEF Shows
  <2>3. ReadsRight(conf, t, d.hidden, d.snapshots)
    BY <1>6, <1>8, <2>2, IdleReadsRight DEF n
  <2> QED
    BY <2>1, <2>3 DEF t
<1>10. CASE /\ RuleType(conf, i) = "stale_read" /\ SameReads(b, o.db)
            /\ \E x \in Snapshots(b, i, call) : o.answer = x.answer
  <2>1. e.hidden = d.hidden /\ e.snapshots = d.snapshots
    BY <1>3, <1>4, <1>10 DEF SameReads
  <2>2. i \in DOMAIN conf.chaos /\ conf.chaos[i].type = "stale_read"
    BY <1>10 DEF RuleType
  <2>3. StaleIn(conf, t, call.id)
    <3>1. PICK k \in (Len(s) + 1)..Len(t) :
              t[k].type = "chaos.injected" /\ t[k].call = call.id /\ t[k].rule = conf.chaos[i].id
      BY <1>3, <1>10 DEF Hit
    <3>2. k \in DOMAIN t
      BY <1>6, OneMorePlaces
    <3> QED
      BY <2>2, <3>1, <3>2 DEF StaleIn
  <2>4. ASSUME Shows(t[n]) PROVE ShownRight(conf, t, d.hidden, n, Arguments(call))
    <3> DEFINE args == Arguments(call)
               ran == RanAt(conf, t, d.hidden, args)
               past == {j \in ran : j < n}
    <3>1. PICK x \in Snapshots(b, i, call) : o.answer = x.answer
      BY <1>10
    <3>2. x \in d.snapshots /\ x.args = args
      BY <1>4, <3>1 DEF Snapshots, SameReads
    <3>3. args.op = "getCharge"
      BY <1>7, <2>4 DEF Arguments, Shows
    <3>4. x.answer.body = t[n].body /\ t[n].body.text = "charge"
      BY <1>7, <2>4, <3>1 DEF Shows
    <3>5. SnapshotRight(conf, s, d.hidden, x)
      BY <1>8, <3>2, <3>3, <3>4 DEF ReadsRight, SnapshotsRight
    <3>6. SnapshotRight(conf, t, d.hidden, x)
      <4>1. SnapshotRight(conf, t, d.hidden \cup {}, x) /\ d.hidden \cup {} = d.hidden
        BY <1>6, <3>5, SnapshotLasts
      <4> QED
        BY <4>1
    <3>7. ran \subseteq DOMAIN s
      <4>1. t[Len(t)].body.text = "charge" => StaleIn(conf, t, call.id)
        BY <2>3
      <4>2. Follows(s, t, call, d.hidden, {})
        BY <1>6
      <4> HIDE DEF args
      <4>3. SameRan(conf, s, t, d.hidden, args)
        BY <4>1, <4>2, IdleRan
      <4> QED
        BY <4>3 DEF SameRan
    <3>8. \A j \in DOMAIN s : j < n
      BY <1>6, OneMorePlaces DEF n
    <3> HIDE DEF args, ran
    <3>9. past = ran
      BY <3>7, <3>8
    <3>10. ran # {} /\ t[n].body.n = Total(RefundsIn(t, args.target))[Min(ran) - 1]
      BY <3>2, <3>4, <3>6 DEF SnapshotRight, ran
    <3>11. StaleIn(conf, t, t[n].call)
      BY <1>7, <2>3
    <3> HIDE DEF past
    <3>12. past # {} /\ t[n].body.n = Total(RefundsIn(t, args.target))[Min(past) - 1]
      BY <3>9, <3>10
    <3> QED
      BY <3>11, <3>12 DEF ShownRight, past, ran, args
  <2>5. ReadsRight(conf, t, d.hidden, d.snapshots)
    BY <1>6, <1>8, <2>3, <2>4, IdleReadsRight DEF n
  <2> QED
    BY <2>1, <2>5 DEF t
<1>11. CASE RuleType(conf, i) # "stale_read" /\ HandlerTold(conf, b, call, o)
  <2>1. PICK row :
          LET h == Handle(conf.seed, b.world, row, call)
          IN  /\ HandlerLeft(conf, b, call, h, o.db)
              /\ \/ o.answer = h.answer /\ o.db.hidden = b.hidden
                 \/ /\ o.answer.body.text # "charge"
                    /\ \E x : x.call = call.id /\ x.answer = h.answer /\ o.db.hidden = b.hidden \cup {x}
    BY <1>11 DEF HandlerTold
  <2> DEFINE h == Handle(conf.seed, b.world, row, call)
             a == h.answer
  <2>2. ~StaleIn(conf, t, call.id)
    <3> SUFFICES ASSUME NEW k \in DOMAIN t, t[k].type = "chaos.injected", t[k].call = call.id,
                        NEW j \in DOMAIN conf.chaos, conf.chaos[j].id = t[k].rule, conf.chaos[j].type = "stale_read"
                 PROVE  FALSE
      BY DEF StaleIn
    <3>1. k \notin DOMAIN s
      BY <1>5, <1>6, OneMorePlaces
    <3>2. k \in (Len(s) + 1)..Len(t)
      BY <1>6, <3>1, OneMorePlaces
    <3>3. t[k].rule \in Struck(conf, i)
      BY <1>3, <3>2 DEF Strikes
    <3>4. i # NoRule /\ t[k].rule = conf.chaos[i].id
      BY <3>3 DEF Struck
    <3>5. i = j
      BY <1>1, <3>4 DEF Sound, RulesParsed
    <3> QED
      BY <1>11, <3>4, <3>5 DEF RuleType
  <2>3. call.op = "getCharge" /\ a.body.text = "charge" =>
            Succeeds(a) /\ a.body.n = Total(RefundsIn(t, call.target))[n - 1]
    <3> SUFFICES ASSUME call.op = "getCharge", a.body.text = "charge"
                 PROVE  Succeeds(a) /\ a.body.n = Total(RefundsIn(t, call.target))[n - 1]
      OBVIOUS
    <3> DEFINE c == call.target
    <3>1. h.world = b.world /\ Succeeds(a) /\ a.body.n = b.world.refunded[c] /\ c \in ChargeIds(conf.seed)
      BY HandleShows
    <3>2. e.world = b.world
      BY <1>3, <2>1, <3>1 DEF HandlerLeft
    <3>3. e.world.refunded[c] = Total(RefundsIn(t, c))[n]
      BY <3>1 DEF Books, Kept, Booked, MoneyBooked, t, n
    <3>4. Total(RefundsIn(t, c))[n] = Total(RefundsIn(t, c))[n - 1]
      <4>1. IsSeq(t) /\ Amounts(t) /\ Len(t) >= 1
        BY <1>6, OneMorePlaces DEF Follows, OneMoreCallIn
      <4>2. t[n].type \notin WriteTypes
        BY <1>7 DEF WriteTypes
      <4> QED
        BY <4>1, <4>2, TotalBeforeLast DEF n
    <3> QED
      BY <3>1, <3>2, <3>3, <3>4
  <2> HIDE DEF h
  <2>4. Keeps(conf, d.snapshots, e.snapshots, call, a)
    <3> DEFINE fresh == FreshRules(conf, b, call)
               new == {Observation(j, call, a) : j \in fresh}
    <3>1. e.snapshots = IF Succeeds(a) /\ Method(call.op) = "GET" THEN d.snapshots \cup new ELSE d.snapshots
      BY <1>3, <1>4, <2>1 DEF HandlerLeft, SameReads, h
    <3>2. \A j : j \in fresh <=> /\ j \in DOMAIN conf.chaos /\ conf.chaos[j].type = "stale_read"
                                 /\ call.op \in conf.chaos[j].ops
                                 /\ ~\E y \in d.snapshots : y.rule = j /\ y.args = Arguments(call)
      BY <1>4 DEF FreshRules, Matching, Snapshots, SameReads
    <3>3. \A j : LET x == Observation(j, call, a)
                 IN  x.rule = j /\ x.args = Arguments(call) /\ x.answer = a
      BY DEF Observation
    <3> HIDE DEF fresh
    <3>4. ASSUME NEW x \in e.snapshots, x \notin d.snapshots
          PROVE  \E j \in fresh : x.rule = j /\ x.args = Arguments(call) /\ x.answer = a /\ Succeeds(a)
      <4>1. Succeeds(a) /\ x \in new
        BY <3>1, <3>4
      <4>2. PICK j \in fresh : x = Observation(j, call, a)
        BY <4>1
      <4> QED
        BY <3>3, <4>1, <4>2
    <3>5. ASSUME Succeeds(a), Method(call.op) = "GET", NEW j \in DOMAIN conf.chaos,
                 conf.chaos[j].type = "stale_read", call.op \in conf.chaos[j].ops
          PROVE  \E x \in e.snapshots : x.rule = j /\ x.args = Arguments(call)
      <4>1. CASE j \in fresh
        <5>1. Observation(j, call, a) \in e.snapshots
          BY <3>1, <3>5, <4>1
        <5> QED
          BY <3>3, <5>1
      <4>2. CASE j \notin fresh
        <5>1. \E y \in d.snapshots : y.rule = j /\ y.args = Arguments(call)
          BY <3>2, <3>5, <4>2
        <5> QED
          BY <3>1, <5>1
      <4> QED
        BY <4>1, <4>2
    <3>6. d.snapshots \subseteq e.snapshots
      BY <3>1
    <3> HIDE DEF new, a
    <3> QED
      BY <3>2, <3>4, <3>5, <3>6 DEF Keeps
  <2>5. PICK own : /\ e.hidden = d.hidden \cup own /\ \A x \in own : x.call = call.id
                   /\ \/ t[n].body = a.body /\ own = {}
                      \/ t[n].body.text # "charge" /\ \E x : own = {x} /\ x.call = call.id /\ x.answer = a
    <3>1. e.hidden = o.db.hidden /\ b.hidden = d.hidden
      BY <1>3, <1>4 DEF SameReads
    <3>2. CASE o.answer = a /\ o.db.hidden = b.hidden
      <4> WITNESS {}
      <4> QED
        BY <1>7, <3>1, <3>2
    <3>3. ASSUME o.answer.body.text # "charge",
                 NEW x, x.call = call.id, x.answer = a, o.db.hidden = b.hidden \cup {x}
          PROVE  \E own : /\ e.hidden = d.hidden \cup own /\ \A y \in own : y.call = call.id
                          /\ \/ t[n].body = a.body /\ own = {}
                             \/ t[n].body.text # "charge" /\ \E y : own = {y} /\ y.call = call.id /\ y.answer = a
      <4> WITNESS {x}
      <4> QED
        BY <1>7, <3>1, <3>3
    <3> QED
      BY <2>1, <3>2, <3>3 DEF h
  <2>6. Follows(s, t, call, d.hidden, own)
    BY <1>5, <2>5
  <2> HIDE DEF a
  <2>7. ReadsRight(conf, t, d.hidden \cup own, e.snapshots)
    BY <1>7, <1>8, <2>2, <2>3, <2>4, <2>5, <2>6, RanReadsRight DEF n
  <2> QED
    BY <2>5, <2>7 DEF t
<1> QED
  BY <1>4, <1>9, <1>10, <1>11 DEF CallTold

(* An answered call keeps what is shown right. *)
LEMMA ReadingStep ==
  ASSUME NEW conf, Sound(conf), NEW d, Accounted(d), Reading(conf, d), Books(conf, d),
         NEW call, Saved(d, call) = {},
         NEW e, Books(conf, e), NEW answer, AnsweredWith(d, e, call, answer), CallReads(conf, d, call, e)
  PROVE  Reading(conf, e)
<1> DEFINE s == d.events
           t == e.events
<1>1. call.id \notin AnsweredIds(d)
  BY DEF AnsweredIds, Saved
<1>2. ReadsRight(conf, t, e.hidden, e.snapshots)
  BY <1>1, ReadingCall
<1>3. AnsweredIds(e) = AnsweredIds(d) \cup {call.id}
  <2> DEFINE new == Result(call, answer)
  <2>1. new.call = call
    BY DEF Result
  <2> HIDE DEF new
  <2>2. e.results = d.results \cup {new}
    BY DEF AnsweredWith, new
  <2> QED
    BY <2>1, <2>2 DEF AnsweredIds
<1>4. PICK rules : Strikes(s, t, call.id, rules)
  BY DEF CallReads, ToldUnder
<1>5. /\ Len(s) \in Nat /\ DOMAIN s = 1..Len(s) /\ Len(t) \in Nat /\ DOMAIN t = 1..Len(t)
      /\ \A k \in 1..Len(s) : t[k] = s[k]
      /\ \A k \in (Len(s) + 1)..Len(t) : t[k].type = "chaos.injected" => t[k].call = call.id
  BY <1>4, SeqFacts DEF Strikes
<1>6. \A k \in DOMAIN s : s[k].type = "chaos.injected" => s[k].call \in AnsweredIds(d)
  BY DEF Reading
<1> HIDE DEF s, t
<1>7. ASSUME NEW k \in DOMAIN t, t[k].type = "chaos.injected" PROVE t[k].call \in AnsweredIds(e)
  <2>1. CASE k \in 1..Len(s)
    BY <1>3, <1>5, <1>6, <1>7, <2>1
  <2>2. CASE k \notin 1..Len(s)
    BY <1>3, <1>5, <1>7, <2>2
  <2> QED
    BY <2>1, <2>2
<1> QED
  BY <1>2, <1>7 DEF Reading, t

(* What is known of the response to a call that was answered once. *)
LEMMA AnsweredAsked ==
  ASSUME NEW d, Answering(d), NEW k \in DOMAIN d.events, d.events[k].type = "tool.response"
  PROVE  LET id == d.events[k].call
         IN  /\ \E a : Entries(d, "tool.request", id) = {a}
             /\ Entries(d, "tool.response", id) = {k}
<1> DEFINE id == d.events[k].call
<1>1. PICK r \in d.results : r.call.id = id
  BY DEF Answering, Bracket
<1>2. BracketedOnce(d, id)
  BY <1>1 DEF Answering
<1>3. k \in Entries(d, "tool.response", id)
  BY DEF Entries
<1> QED
  BY <1>2, <1>3 DEF BracketedOnce

(* Every charge an agent is shown in any reachable state is the charge as  *)
(* it was: without a stale_read rule the amount refunded when the call was *)
(* answered, concurrent writers' refunds included, and under one the       *)
(* amount refunded at the first read with the same arguments that ran,     *)
(* also when chaos hid that read's own answer.                             *)
THEOREM ReadsAreTrue == Spec => []ReadsTellTheWorld
<1> DEFINE Inv == cfg \in Configs /\ Books(cfg, db) /\ Accounted(db) /\ Reading(cfg, db)
<1>1. Init => Inv
  BY NewRunBooks, InitAccounted, NewRunReading DEF Init
<1>2. Inv /\ [Next]_vars => Inv'
  <2> SUFFICES ASSUME Inv, [Next]_vars PROVE Inv'
    OBVIOUS
  <2>1. CASE UNCHANGED vars
    BY <2>1 DEF vars
  <2>2. ASSUME NEW call \in Calls(cfg), InvokeCommit(call) PROVE Inv'
    <3> DEFINE r == Invoke(cfg, db, call)
    <3>1. db' = r.db /\ cfg' = cfg /\ r.ok
      BY <2>2 DEF InvokeCommit
    <3>2. Sound(cfg) /\ DOMAIN cfg.chaos \subseteq Nat /\ IsRun(db)
      BY ConfigsSound DEF Books, Sound, RulesParsed
    <3>3. \/ r.db = db
          \/ /\ Saved(db, call) = {} /\ call.op \in cfg.ops
             /\ \E answer : AnsweredWith(db, r.db, call, answer)
      BY <3>2, CallIsBracketed
    <3>4. CASE r.db = db
      BY <3>1, <3>4
    <3>5. ASSUME Saved(db, call) = {}, call.op \in cfg.ops,
                 NEW answer, AnsweredWith(db, r.db, call, answer)
          PROVE  Inv'
      <4>1. Books(cfg, r.db)
        BY <3>1, <3>5, BooksCall
      <4>2. PICK other : /\ ToldOrKept(db, r.db, call, other)
                         /\ \E s : r.db.events = Append(s, ResponseEvent(call, other)) /\ IsSeq(s)
        BY <3>1, <3>2, <3>5, InvokeTells
      <4>3. \A x \in db.snapshots : Succeeds(x.answer)
        BY DEF Reading, ReadsRight
      <4>4. CallReads(cfg, db, call, r.db)
        BY <3>1, <3>2, <3>5, <4>3, InvokeReads
      <4> HIDE DEF r
      <4>5. other.status = answer.status
        <5>1. r.db.events[Len(r.db.events)] = ResponseEvent(call, other)
          BY <4>2, AppendFacts
        <5>2. r.db.events[Len(r.db.events)] = ResponseEvent(call, answer)
          BY <3>5 DEF AnsweredWith
        <5> QED
          BY <5>1, <5>2 DEF ResponseEvent
      <4>6. ToldOrKept(db, r.db, call, answer)
        BY <4>2, <4>5 DEF ToldOrKept
      <4>7. Accounted(r.db)
        BY <3>5, <4>6, AccountedStep
      <4>8. Reading(cfg, r.db)
        BY <3>2, <3>5, <4>1, <4>4, ReadingStep
      <4> QED
        BY <3>1, <4>1, <4>7, <4>8
    <3> QED
      BY <3>3, <3>4, <3>5
  <2>3. ASSUME NEW call \in Calls(cfg), InvokeError(call) PROVE Inv'
    BY <2>1, <2>3 DEF InvokeError
  <2> QED
    BY <2>1, <2>2, <2>3 DEF Next
<1>3. Inv => ReadsTellTheWorld
  <2> SUFFICES ASSUME Inv, NEW k \in OfType("tool.response"),
                      Events[k].op = "getCharge", Events[k].body.text = "charge"
               PROVE  LET id == Events[k].call
                          args == Events[RequestOf(id)].args
                          charge == args.target
                          ran == {e \in OfType("tool.response") :
                                      /\ e < k
                                      /\ Events[RequestOf(Events[e].call)].args = args
                                      /\ RanRead(Events[e].call)}
                      IN  IF StaleServed(id)
                          THEN ran # {} /\ Events[k].body.n = RefundedBefore(charge, Min(ran))
                          ELSE Events[k].body.n = RefundedBefore(charge, k)
    BY DEF ReadsTellTheWorld
  <2> DEFINE s == db.events
             id == s[k].call
             args == s[RequestOf(id)].args
             shown == {e \in OfType("tool.response") :
                         /\ e < k
                         /\ s[RequestOf(s[e].call)].args = args
                         /\ RanRead(s[e].call)}
             ran == {e \in RanAt(cfg, s, db.hidden, args) : e < k}
             sum == Total(RefundsIn(s, args.target))
  <2>1. Answering(db)
    BY DEF Accounted
  <2>2. \A type, x : {j \in OfType(type) : s[j].call = x} = Entries(db, type, x)
    BY DEF OfType, Events, Entries
  <2>3. ASSUME NEW j \in DOMAIN s, s[j].type = "tool.response"
        PROVE  /\ ResponseOf(s[j].call) = j
               /\ \A x : Asked(s, s[j].call, x) <=> s[RequestOf(s[j].call)].args = x
    <3> DEFINE c == s[j].call
               requests == {m \in OfType("tool.request") : Events[m].call = c}
               responses == {m \in OfType("tool.response") : Events[m].call = c}
    <3>1. (\E a : Entries(db, "tool.request", c) = {a}) /\ Entries(db, "tool.response", c) = {j}
      BY <2>1, <2>3, AnsweredAsked
    <3>2. PICK a : requests = {a}
      BY <3>1 DEF OfType, Events, Entries
    <3>3. responses = {j}
      BY <3>1 DEF OfType, Events, Entries
    <3>4. RequestOf(c) = a
      BY <3>2, Zenon DEF RequestOf
    <3>5. ResponseOf(c) = j
      BY <3>3, Zenon DEF ResponseOf
    <3>6. \A x : Asked(s, c, x) <=> s[a].args = x
      BY <3>2 DEF Asked, OfType, Events
    <3> QED
      BY <3>4, <3>5, <3>6
  <2>4. \A x : StaleServed(x) <=> StaleIn(cfg, s, x)
    BY DEF StaleServed, StaleIn, OfType, Events
  <2>5. \A j \in DOMAIN s : s[j].type = "tool.response" =>
            (RanRead(s[j].call) <=> \/ s[j].body.text = "charge" /\ ~StaleIn(cfg, s, s[j].call)
                                    \/ HidesCharge(db.hidden, s[j].call))
    BY <2>3, <2>4 DEF RanRead, HidesCharge, Events
  <2>6. k \in DOMAIN s /\ s[k].type = "tool.response" /\ Shows(s[k])
    BY DEF OfType, Events, Shows
  <2> HIDE DEF args
  <2>7. shown = ran
    BY <2>3, <2>5 DEF RanAt, OfType, Events
  <2>8. Asked(s, id, args)
    BY <2>3, <2>6 DEF args
  <2>9. ShownRight(cfg, s, db.hidden, k, args)
    BY <2>6, <2>8 DEF Reading, ReadsRight, ChargesRight
  <2>10. /\ StaleIn(cfg, s, id) => ran # {} /\ s[k].body.n = sum[Min(ran) - 1]
         /\ ~StaleIn(cfg, s, id) => s[k].body.n = sum[k - 1]
    BY <2>9 DEF ShownRight
  <2>11. \A m : RefundedBefore(args.target, m) = sum[m - 1]
    BY DEF RefundedBefore, Events
  <2> HIDE DEF ran, shown, sum, s
  <2>12. IF StaleServed(id)
         THEN shown # {} /\ s[k].body.n = RefundedBefore(args.target, Min(shown))
         ELSE s[k].body.n = RefundedBefore(args.target, k)
    BY <2>4, <2>7, <2>10, <2>11
  <2> QED
    BY <2>12 DEF Events, s, args, shown
<1> QED
  BY <1>1, <1>2, <1>3, PTL DEF Spec

===============================================================================
