------------------------ MODULE EventStream_proofs ------------------------
(***************************************************************************)
(* Proofs about a run's row and events in PostgreSQL: the transactions of  *)
(* any number of writers implement the atomic store, and what a client     *)
(* gets over all its reconnections is sound.                               *)
(***************************************************************************)
EXTENDS EventStream, FiniteSetTheorems, SequenceTheorems, WellFoundedInduction, TLAPS

-----------------------------------------------------------------------------
(* SELECT ... ORDER BY cursor: every finite set of cursors can be listed in order. *)

Increasing(s) == \A i, j \in DOMAIN s : i < j => s[i] < s[j]

LEMMA ListingExtended ==
  ASSUME NEW n \in Nat, NEW S \in SUBSET (1 .. n), NEW k \in Nat,
         NEW s \in [1 .. k -> S], Increasing(s)
  PROVE  \E t \in [1 .. k + 1 -> S \cup {n + 1}] : Increasing(t)
<1> DEFINE t == [i \in 1 .. k + 1 |-> IF i <= k THEN s[i] ELSE n + 1]
<1>1. \A i \in 1 .. k : s[i] \in S /\ s[i] \in Nat /\ s[i] < n + 1
  <2>1. \A c \in S : c \in Nat /\ c < n + 1
    OBVIOUS
  <2> QED  BY <2>1
<1>2. /\ DOMAIN t = 1 .. k + 1 /\ t[k + 1] = n + 1
      /\ \A i \in 1 .. k : t[i] = s[i]
  OBVIOUS
<1>3. t \in [1 .. k + 1 -> S \cup {n + 1}]
  BY <1>1
<1> HIDE DEF t
<1>4. ASSUME NEW i \in 1 .. k + 1, NEW j \in 1 .. k + 1, i < j  PROVE t[i] < t[j]
  <2>1. i \in 1 .. k /\ (j \in 1 .. k \/ j = k + 1)
    BY <1>4
  <2> QED  BY <1>1, <1>2, <1>4, <2>1 DEF Increasing
<1> QED
  BY <1>2, <1>3, <1>4 DEF Increasing

LEMMA ListingExists ==
  ASSUME NEW n \in Nat, NEW S \in SUBSET (1 .. n)
  PROVE  \E s \in [1 .. Cardinality(S) -> S] : Increasing(s)
<1> DEFINE Listed(m) == \A R \in SUBSET (1 .. m) : 
                          \E s \in [1 .. Cardinality(R) -> R] : Increasing(s)
           T == {m \in Nat : ~Listed(m)}
<1> SUFFICES ASSUME T # {}  PROVE FALSE
  OBVIOUS
<1>1. PICK m \in T : \A y \in T : ~(<<y, m>> \in OpToRel(<, Nat))
  <2> HIDE DEF Listed
  <2>1. T \subseteq Nat
    OBVIOUS
  <2> HIDE DEF T
  <2> QED  BY <2>1, NatLessThanWellFounded, WFMin, Zenon
<1>2. m \in Nat /\ ~Listed(m) /\ \A y \in Nat : y < m => Listed(y)
  <2> HIDE DEF Listed
  <2> QED  BY <1>1 DEF OpToRel
<1>3. PICK R \in SUBSET (1 .. m) : ~\E s \in [1 .. Cardinality(R) -> R] : Increasing(s)
  BY <1>2
<1> HIDE DEF T, Listed
<1>4. m # 0
  <2> SUFFICES ASSUME m = 0  PROVE FALSE
    OBVIOUS
  <2>1. R = {}
    OBVIOUS
  <2>2. Cardinality(R) = 0
    BY <2>1, FS_EmptySet
  <2>3. [i \in 1 .. 0 |-> i] \in [1 .. Cardinality(R) -> R]
    BY <2>1, <2>2
  <2>4. Increasing([i \in 1 .. 0 |-> i])
    BY DEF Increasing
  <2> QED  BY <1>3, <2>3, <2>4
<1>5. m - 1 \in Nat /\ (m - 1) + 1 = m /\ Listed(m - 1)
  BY <1>2, <1>4
<1>6. m \in R
  <2> SUFFICES ASSUME m \notin R  PROVE FALSE
    OBVIOUS
  <2>1. \A c \in R : c \in 1 .. m - 1
    BY <1>2
  <2> QED  BY <1>3, <1>5, <2>1 DEF Listed
<1> DEFINE Q == R \ {m}
<1>7. Q \in SUBSET (1 .. m - 1) /\ IsFiniteSet(Q) /\ R = Q \cup {(m - 1) + 1}
  <2>1. \A c \in Q : c \in 1 .. m - 1
    BY <1>2
  <2>2. IsFiniteSet(1 .. m - 1)
    BY <1>5, FS_Interval
  <2> QED  BY <1>5, <1>6, <2>1, <2>2, FS_Subset
<1>8. Cardinality(R) = Cardinality(Q) + 1 /\ Cardinality(Q) \in Nat
  <2>1. R = Q \cup {m} /\ m \notin Q
    BY <1>6
  <2> HIDE DEF Q
  <2> QED  BY <1>7, <2>1, FS_AddElement, FS_CardinalityType
<1> HIDE DEF Q
<1>9. PICK s \in [1 .. Cardinality(Q) -> Q] : Increasing(s)
  BY <1>5, <1>7 DEF Listed
<1> QED
  BY <1>3, <1>5, <1>7, <1>8, <1>9, ListingExtended

-----------------------------------------------------------------------------
(* The store. *)

AttackStatus == Store!AttackStatus
What == [from : AttackStatus, to : AttackStatus]
EventRow == [what : What, state : {"open", "visible", "gone"}]
Txn == [cursor : Nat, target : AttackStatus]

StoreTypeOK ==
  /\ status \in AttackStatus /\ seen \in AttackStatus
  /\ events \in Seq(EventRow) /\ order \in Seq(Nat)
  /\ txn \in [Writers -> Txn]

\* An open transaction has inserted the event of what it is about to do, and a status change
\* one that is allowed from the committed status.
TxnOK(w) ==
  ~Idle(w) =>
    /\ txn[w].cursor \in DOMAIN events /\ events[txn[w].cursor].state = "open"
    /\ IF txn[w].target = "DRAFT"
       THEN events[txn[w].cursor].what = Store!Progress
       ELSE /\ txn[w].target \in Store!Allowed(status)
            /\ events[txn[w].cursor].what = Store!Changed(status, txn[w].target)

\* Transactions have their own cursors, and one of them at most holds the row.
Separate ==
  \A w, v \in Writers :
    w # v => /\ Idle(w) \/ Idle(v) \/ txn[w].cursor # txn[v].cursor
             /\ txn[w].target = "DRAFT" \/ txn[v].target = "DRAFT"

\* The committed events, each once.
OrderOK ==
  /\ \A i \in DOMAIN order : order[i] \in Visible
  /\ \A c \in Visible : \E i \in DOMAIN order : order[i] = c
  /\ \A i, j \in DOMAIN order : order[i] = order[j] => i = j

\* Status changes commit in the order of their cursors, the one that is open included.
ChangesInOrder ==
  /\ \A c, d \in Visible :
       IsChange(c) /\ IsChange(d) /\ c < d =>
         \A i, j \in DOMAIN order : order[i] = c /\ order[j] = d => i < j
  /\ \A w \in Writers, c \in Visible :
       txn[w].target # "DRAFT" /\ IsChange(c) => c < txn[w].cursor

StoreInv ==
  StoreTypeOK /\ (\A w \in Writers : TxnOK(w)) /\ Separate /\ OrderOK /\ ChangesInOrder

LEMMA AllowedStatus ==
  ASSUME NEW s \in AttackStatus
  PROVE  Store!Allowed(s) \subseteq AttackStatus \ {"DRAFT"}
  BY DEF AttackStatus, Store!AttackStatus, Store!Allowed

LEMMA ChangeIsNotProgress ==
  ASSUME NEW s, NEW t, t # "DRAFT"
  PROVE  Store!Changed(s, t) # Store!Progress
  BY DEF Store!Changed, Store!Progress

LEMMA StoreStart == EventInit => StoreInv
<1> SUFFICES ASSUME EventInit  PROVE StoreInv
  OBVIOUS
<1>1. /\ events = <<[what |-> Store!Created, state |-> "visible"]>> /\ order = <<1>>
      /\ txn = [w \in Writers |-> NoTxn] /\ status = "READY" /\ seen = "DRAFT"
  BY DEF EventInit
<1>2. StoreTypeOK
  <2>1. [what |-> Store!Created, state |-> "visible"] \in EventRow
    BY DEF Store!Created, EventRow, What, AttackStatus, Store!AttackStatus
  <2>2. NoTxn \in Txn
    BY DEF NoTxn, Txn, AttackStatus, Store!AttackStatus
  <2>3. status \in AttackStatus /\ seen \in AttackStatus
    BY <1>1 DEF AttackStatus, Store!AttackStatus
  <2>4. events \in Seq(EventRow)
    BY <1>1, <2>1
  <2> QED  BY <1>1, <2>2, <2>3, <2>4 DEF StoreTypeOK
<1>3. \A w \in Writers : Idle(w) /\ txn[w].target = "DRAFT"
  BY <1>1 DEF Idle, NoTxn
<1>4. Visible = {1} /\ DOMAIN order = {1} /\ order[1] = 1
  BY <1>1 DEF Visible
<1> QED
  BY <1>2, <1>3, <1>4 DEF StoreInv, TxnOK, Separate, OrderOK, ChangesInOrder

\* A transaction inserts its event: nothing that is committed changes.
LEMMA InsertFrame ==
  ASSUME StoreInv, NEW w \in Writers, NEW what \in What, NEW target \in AttackStatus,
         Insert(w, what, target)
  PROVE  /\ UNCHANGED <<status, order, client>>
         /\ DOMAIN events' = DOMAIN events \cup {Len(events) + 1}
         /\ Len(events) + 1 \notin DOMAIN events /\ Len(events) + 1 \in Nat
         /\ \A c \in DOMAIN events : events'[c] = events[c] /\ c < Len(events) + 1
         /\ events'[Len(events) + 1] = [what |-> what, state |-> "open"]
         /\ Visible' = Visible
         /\ txn' \in [Writers -> Txn]
         /\ txn'[w] = [cursor |-> Len(events) + 1, target |-> target]
         /\ \A v \in Writers : v # w => txn'[v] = txn[v]
         /\ events' \in Seq(EventRow)
<1> DEFINE row == [what |-> what, state |-> "open"]
           n == Len(events) + 1
<1>1. events' = Append(events, row) /\ events \in Seq(EventRow) /\ row \in EventRow
  BY DEF Insert, StoreInv, StoreTypeOK, EventRow
<1>2. row.state = "open"
  OBVIOUS
<1> HIDE DEF row
<1>3. /\ UNCHANGED <<status, order, client>>
      /\ DOMAIN events' = DOMAIN events \cup {n} /\ n \notin DOMAIN events /\ n \in Nat
      /\ \A c \in DOMAIN events : events'[c] = events[c] /\ c < n
      /\ events'[n] = row /\ events' \in Seq(EventRow)
  BY <1>1 DEF Insert
<1>4. Visible' = Visible
  BY <1>2, <1>3 DEF Visible
<1>5. /\ txn' = [txn EXCEPT ![w] = [cursor |-> n, target |-> target]]
      /\ txn \in [Writers -> Txn] /\ [cursor |-> n, target |-> target] \in Txn
  BY <1>3 DEF Insert, StoreInv, StoreTypeOK, Txn
<1> HIDE DEF n
<1>6. /\ txn' \in [Writers -> Txn] /\ txn'[w] = [cursor |-> n, target |-> target]
      /\ \A v \in Writers : v # w => txn'[v] = txn[v]
  BY <1>5
<1> QED
  BY <1>3, <1>4, <1>6 DEF n, row

LEMMA InsertStore ==
  ASSUME StoreInv, NEW w \in Writers, NEW what \in What, NEW target \in AttackStatus,
         Idle(w), Insert(w, what, target), seen' \in AttackStatus,
         IF target = "DRAFT" THEN what = Store!Progress
         ELSE /\ ~RowLocked /\ target \in Store!Allowed(status)
              /\ what = Store!Changed(status, target)
  PROVE  StoreInv'
<1> DEFINE n == Len(events) + 1
<1>1. /\ UNCHANGED <<status, order, client>>
      /\ DOMAIN events' = DOMAIN events \cup {n}
      /\ n \notin DOMAIN events /\ n \in Nat
      /\ \A c \in DOMAIN events : events'[c] = events[c] /\ c < n
      /\ events'[n] = [what |-> what, state |-> "open"]
      /\ Visible' = Visible
      /\ txn' \in [Writers -> Txn]
      /\ txn'[w] = [cursor |-> n, target |-> target]
      /\ \A v \in Writers : v # w => txn'[v] = txn[v]
      /\ events' \in Seq(EventRow)
  BY InsertFrame
<1> HIDE DEF n
<1>2. /\ txn'[w].cursor = n /\ txn'[w].target = target
      /\ events'[n].what = what /\ events'[n].state = "open"
  BY <1>1
<1>3. StoreTypeOK'
  BY <1>1 DEF StoreInv, StoreTypeOK
<1>4. \A v \in Writers : TxnOK(v)'
  <2>1. TxnOK(w)'
    BY <1>1, <1>2 DEF TxnOK
  <2>2. ASSUME NEW v \in Writers, v # w  PROVE TxnOK(v)'
    <3>1. TxnOK(v) /\ txn'[v] = txn[v]
      BY <1>1, <2>2 DEF StoreInv
    <3> QED  BY <1>1, <3>1 DEF TxnOK, Idle
  <2> QED  BY <2>1, <2>2
<1>5. Separate'
  <2>1. \A v \in Writers : v # w => /\ ~Idle(v) => txn[v].cursor # n
                                    /\ target = "DRAFT" \/ txn[v].target = "DRAFT"
    BY <1>1 DEF StoreInv, TxnOK, RowLocked
  <2> QED  BY <1>1, <1>2, <2>1 DEF StoreInv, Separate, Idle
<1>6. OrderOK'
  BY <1>1 DEF StoreInv, OrderOK
<1>7. ChangesInOrder'
  <2>1. \A c \in Visible : /\ c \in DOMAIN events /\ c < n
                           /\ IsChange(c)' <=> IsChange(c)
    BY <1>1 DEF Visible, IsChange
  <2> QED  BY <1>1, <1>2, <2>1 DEF StoreInv, ChangesInOrder
<1> QED
  BY <1>3, <1>4, <1>5, <1>6, <1>7 DEF StoreInv

\* A transaction ends: only the state of its own event changes.
LEMMA EndFrame ==
  ASSUME StoreInv, NEW w \in Writers, ~Idle(w), NEW state \in {"visible", "gone"},
         events' = [events EXCEPT ![txn[w].cursor].state = state],
         txn' = [txn EXCEPT ![w] = NoTxn]
  PROVE  /\ txn[w].cursor \in DOMAIN events /\ txn[w].cursor \notin Visible
         /\ txn[w].cursor \in Nat
         /\ DOMAIN events' = DOMAIN events /\ events' \in Seq(EventRow)
         /\ \A c \in DOMAIN events : /\ events'[c].what = events[c].what
                                     /\ c # txn[w].cursor => events'[c] = events[c]
         /\ events'[txn[w].cursor].state = state
         /\ txn' \in [Writers -> Txn] /\ txn'[w] = NoTxn
         /\ \A v \in Writers : v # w => txn'[v] = txn[v]
<1> DEFINE c == txn[w].cursor
           row == [events[c] EXCEPT !.state = state]
<1>1. /\ c \in DOMAIN events /\ events[c].state = "open" /\ events \in Seq(EventRow)
      /\ txn \in [Writers -> Txn] /\ c \in Nat
  BY DEF StoreInv, TxnOK, StoreTypeOK, Txn
<1>2. events' = [events EXCEPT ![c] = row]
  OBVIOUS
<1>3. row \in EventRow /\ row.what = events[c].what /\ row.state = state
  <2>1. events[c] \in EventRow
    BY <1>1
  <2> QED  BY <2>1 DEF EventRow
<1> HIDE DEF row, c
<1>4. /\ DOMAIN events' = DOMAIN events /\ events' \in Seq(EventRow)
      /\ events'[c] = row /\ \A d \in DOMAIN events : d # c => events'[d] = events[d]
  BY <1>1, <1>2, <1>3
<1>5. NoTxn \in Txn
  BY DEF NoTxn, Txn, AttackStatus, Store!AttackStatus
<1>6. /\ txn' \in [Writers -> Txn] /\ txn'[w] = NoTxn
      /\ \A v \in Writers : v # w => txn'[v] = txn[v]
  BY <1>1, <1>5
<1>7. c \notin Visible
  BY <1>1 DEF Visible
<1> QED
  BY <1>1, <1>3, <1>4, <1>6, <1>7 DEF c

\* What is committed stays as it is.
Undisturbed ==
  Visible' = Visible /\ UNCHANGED <<status, order>> /\ \A c \in Visible : events'[c] = events[c]

LEMMA RollbackStore ==
  ASSUME StoreInv, NEW w \in Writers, Rollback(w)
  PROVE  StoreInv' /\ Undisturbed
<1> DEFINE c == txn[w].cursor
<1>1. ~Idle(w) /\ UNCHANGED <<status, order, seen>>
  BY DEF Rollback
<1>2. /\ c \in DOMAIN events /\ c \notin Visible
      /\ DOMAIN events' = DOMAIN events /\ events' \in Seq(EventRow)
      /\ \A d \in DOMAIN events : /\ events'[d].what = events[d].what
                                  /\ d # c => events'[d] = events[d]
      /\ events'[c].state = "gone"
      /\ txn' \in [Writers -> Txn] /\ txn'[w] = NoTxn
      /\ \A v \in Writers : v # w => txn'[v] = txn[v]
  BY <1>1, EndFrame DEF Rollback
<1>3. \A v \in Writers : v # w /\ ~Idle(v) => txn[v].cursor # c
  BY <1>1 DEF StoreInv, Separate
<1> HIDE DEF c
<1>4. Visible' = Visible /\ \A d \in Visible : d \in DOMAIN events
  BY <1>2 DEF Visible
<1>5. StoreTypeOK'
  BY <1>1, <1>2 DEF StoreInv, StoreTypeOK
<1>6. \A v \in Writers : TxnOK(v)'
  <2>1. TxnOK(w)'
    BY <1>2 DEF TxnOK, Idle
  <2>2. ASSUME NEW v \in Writers, v # w  PROVE TxnOK(v)'
    <3>1. TxnOK(v) /\ txn'[v] = txn[v]
      BY <1>2, <2>2 DEF StoreInv
    <3> QED  BY <1>1, <1>2, <1>3, <2>2, <3>1 DEF TxnOK, Idle
  <2> QED  BY <2>1, <2>2
<1>7. Separate'
  BY <1>2 DEF StoreInv, Separate, Idle, NoTxn
<1>8. OrderOK'
  BY <1>1, <1>4 DEF StoreInv, OrderOK
<1>9. ChangesInOrder'
  <2>1. \A d \in Visible : IsChange(d)' <=> IsChange(d)
    BY <1>2, <1>4 DEF IsChange
  <2>2. \A v \in Writers : txn'[v].target # "DRAFT" => txn'[v] = txn[v]
    BY <1>2 DEF NoTxn
  <2> QED  BY <1>1, <1>4, <2>1, <2>2 DEF StoreInv, ChangesInOrder
<1> QED
  BY <1>1, <1>2, <1>4, <1>5, <1>6, <1>7, <1>8, <1>9 DEF StoreInv, Undisturbed

LEMMA CommitFrame ==
  ASSUME StoreInv, NEW w \in Writers, Commit(w)
  PROVE  /\ Visible' = Visible \cup {txn[w].cursor} /\ txn[w].cursor \notin Visible
         /\ DOMAIN order' = DOMAIN order \cup {Len(order) + 1}
         /\ Len(order) \in Nat /\ Len(order) + 1 \notin DOMAIN order
         /\ order'[Len(order) + 1] = txn[w].cursor
         /\ \A i \in DOMAIN order : order'[i] = order[i] /\ i < Len(order) + 1
         /\ \A d \in DOMAIN events : d \in DOMAIN events' /\ events'[d].what = events[d].what
<1> DEFINE c == txn[w].cursor
<1>1. ~Idle(w) /\ order' = Append(order, c) /\ order \in Seq(Nat)
  BY DEF Commit, StoreInv, StoreTypeOK
<1>2. /\ c \in DOMAIN events /\ c \notin Visible /\ c \in Nat
      /\ DOMAIN events' = DOMAIN events
      /\ \A d \in DOMAIN events : /\ events'[d].what = events[d].what
                                  /\ d # c => events'[d] = events[d]
      /\ events'[c].state = "visible"
  BY <1>1, EndFrame DEF Commit
<1> HIDE DEF c
<1>3. Visible' = Visible \cup {c}
  BY <1>2 DEF Visible
<1>4. /\ DOMAIN order' = DOMAIN order \cup {Len(order) + 1}
      /\ Len(order) \in Nat /\ Len(order) + 1 \notin DOMAIN order
      /\ order'[Len(order) + 1] = c
      /\ \A i \in DOMAIN order : order'[i] = order[i] /\ i < Len(order) + 1
  BY <1>1, <1>2
<1> QED
  BY <1>2, <1>3, <1>4 DEF c

LEMMA CommitStore ==
  ASSUME StoreInv, NEW w \in Writers, Commit(w)
  PROVE  StoreInv'
<1> DEFINE c == txn[w].cursor
           n == Len(order) + 1
<1>1. /\ ~Idle(w) /\ UNCHANGED seen /\ order' = Append(order, c)
      /\ status' = IF txn[w].target = "DRAFT" THEN status ELSE txn[w].target
  BY DEF Commit
<1>2. /\ c \in DOMAIN events /\ c \in Nat
      /\ DOMAIN events' = DOMAIN events /\ events' \in Seq(EventRow)
      /\ \A d \in DOMAIN events : /\ events'[d].what = events[d].what
                                  /\ d # c => events'[d] = events[d]
      /\ events'[c].state = "visible"
      /\ txn' \in [Writers -> Txn] /\ txn'[w] = NoTxn
      /\ \A v \in Writers : v # w => txn'[v] = txn[v]
  BY <1>1, EndFrame DEF Commit
<1>3. /\ Visible' = Visible \cup {c} /\ c \notin Visible
      /\ DOMAIN order' = DOMAIN order \cup {n} /\ n \notin DOMAIN order /\ order'[n] = c
      /\ \A i \in DOMAIN order : order'[i] = order[i] /\ i < n
  BY CommitFrame
<1>4. /\ \A v \in Writers : v # w /\ ~Idle(v) => txn[v].cursor # c
      /\ \A v \in Writers : v # w => txn[w].target = "DRAFT" \/ txn[v].target = "DRAFT"
  BY <1>1 DEF StoreInv, Separate
<1>5. TxnOK(w)
  BY DEF StoreInv
<1>6. StoreTypeOK'
  <2>1. status' \in AttackStatus
    BY <1>1 DEF StoreInv, StoreTypeOK, Txn
  <2>2. order' \in Seq(Nat)
    BY <1>1, <1>2 DEF StoreInv, StoreTypeOK
  <2> QED  BY <1>1, <1>2, <2>1, <2>2 DEF StoreInv, StoreTypeOK
<1> HIDE DEF c, n
<1>7. \A v \in Writers : TxnOK(v)'
  <2>1. TxnOK(w)'
    BY <1>2 DEF TxnOK, Idle
  <2>2. ASSUME NEW v \in Writers, v # w  PROVE TxnOK(v)'
    <3>1. TxnOK(v) /\ txn'[v] = txn[v]
      BY <1>2, <2>2 DEF StoreInv
    <3> QED  BY <1>1, <1>2, <1>4, <2>2, <3>1 DEF TxnOK, Idle
  <2> QED  BY <2>1, <2>2
<1>8. Separate'
  BY <1>2 DEF StoreInv, Separate, Idle, NoTxn
<1>9. OrderOK'
  BY <1>3 DEF StoreInv, OrderOK
<1>10. ChangesInOrder'
  <2>1. \A d \in Visible \cup {c} : d \in DOMAIN events /\ (IsChange(d)' <=> IsChange(d))
    BY <1>2 DEF Visible, IsChange
  <2>2. IsChange(c) => txn[w].target # "DRAFT"
    BY <1>1, <1>5 DEF TxnOK, IsChange, c
  <2>3. \A d \in Visible : IsChange(d) /\ IsChange(c) => d < c
    BY <2>2 DEF StoreInv, ChangesInOrder, c
  <2>4. \A v \in Writers : txn'[v].target # "DRAFT" => v # w /\ txn'[v] = txn[v]
    BY <1>2 DEF NoTxn
  <2>5. ASSUME NEW d \in Visible', NEW e \in Visible', IsChange(d)', IsChange(e)', d < e,
               NEW i \in DOMAIN order', NEW j \in DOMAIN order',
               order'[i] = d, order'[j] = e
        PROVE  i < j
    <3>1. d \in Nat /\ e \in Nat /\ IsChange(d) /\ IsChange(e)
      <4>1. d \in DOMAIN events /\ e \in DOMAIN events
        BY <1>3, <2>1, <2>5
      <4> QED  BY <1>3, <2>1, <2>5, <4>1 DEF StoreInv, StoreTypeOK
    <3>2. CASE e = c
      <4>1. d # c
        BY <2>5, <3>1, <3>2
      <4>2. i \in DOMAIN order /\ j = n
        BY <1>3, <2>5, <3>2, <4>1 DEF StoreInv, OrderOK
      <4> QED  BY <1>3, <4>2
    <3>3. CASE e # c /\ d = c
      <4>1. e < c /\ c \in Nat
        BY <1>2, <1>3, <2>3, <3>1, <3>3
      <4> QED  BY <2>5, <3>1, <3>3, <4>1
    <3>4. CASE e # c /\ d # c
      BY <1>3, <2>5, <3>1, <3>4 DEF StoreInv, ChangesInOrder
    <3> QED  BY <3>2, <3>3, <3>4
  <2>6. \A v \in Writers, d \in Visible' :
          txn'[v].target # "DRAFT" /\ IsChange(d)' => d < txn'[v].cursor
    BY <1>3, <1>4, <2>1, <2>2, <2>4 DEF StoreInv, ChangesInOrder
  <2> QED  BY <2>5, <2>6 DEF ChangesInOrder
<1> QED
  BY <1>6, <1>7, <1>8, <1>9, <1>10 DEF StoreInv

LEMMA ProgressStore ==
  ASSUME StoreInv, NEW w \in Writers, append_event(w)
  PROVE  StoreInv' /\ Undisturbed
<1>1. Store!Progress \in What /\ "DRAFT" \in AttackStatus
  BY DEF Store!Progress, What, AttackStatus, Store!AttackStatus
<1>2. Idle(w) /\ Insert(w, Store!Progress, "DRAFT") /\ seen' \in AttackStatus
  BY DEF append_event, StoreInv, StoreTypeOK
<1>3. Undisturbed
  BY <1>1, <1>2, InsertFrame DEF Undisturbed, Visible
<1> QED
  BY <1>1, <1>2, <1>3, InsertStore

LEMMA ChangeStore ==
  ASSUME StoreInv, NEW w \in Writers, NEW expected, NEW target,
         compare_and_set_status(w, expected, target), seen' \in AttackStatus
  PROVE  StoreInv' /\ Undisturbed
<1>1. /\ Idle(w) /\ ~RowLocked /\ expected = status /\ target \in Store!Allowed(status)
      /\ Insert(w, Store!Changed(status, target), target)
  BY DEF compare_and_set_status
<1>2. target \in AttackStatus /\ target # "DRAFT" /\ status \in AttackStatus
  BY <1>1, AllowedStatus DEF StoreInv, StoreTypeOK
<1>3. Store!Changed(status, target) \in What
  BY <1>2 DEF Store!Changed, What
<1>4. Undisturbed
  BY <1>1, <1>2, <1>3, InsertFrame DEF Undisturbed, Visible
<1> QED
  BY <1>1, <1>2, <1>3, <1>4, InsertStore

\* Every step of the store other than a commit leaves what is committed alone.
LEMMA QuietStore ==
  ASSUME StoreInv, [EventNext]_vars, ~\E w \in Writers : Commit(w)
  PROVE  StoreInv' /\ Undisturbed
<1>1. CASE UNCHANGED storeVars
  BY <1>1 DEF storeVars, Undisturbed, StoreInv, StoreTypeOK, TxnOK, Idle, Separate, OrderOK, ChangesInOrder,
              Visible, IsChange
<1>2. ASSUME NEW w \in Writers, append_event(w)
      PROVE  StoreInv' /\ Undisturbed
  BY <1>2, ProgressStore
<1>3. ASSUME NEW w \in Writers, WorkerCas(w)
      PROVE  StoreInv' /\ Undisturbed
  <2>1. PICK t : compare_and_set_status(w, status, t)
    BY <1>3 DEF WorkerCas
  <2>2. seen' \in AttackStatus
    BY <1>3 DEF WorkerCas, StoreInv, StoreTypeOK
  <2> QED  BY <2>1, <2>2, ChangeStore
<1>4. ASSUME NEW w \in Writers, Rollback(w)
      PROVE  StoreInv' /\ Undisturbed
  BY <1>4, RollbackStore
<1>5. ASSUME seen' \in AttackStatus, UNCHANGED <<status, events, order, txn, client>>
      PROVE  StoreInv' /\ Undisturbed
  BY <1>5 DEF Undisturbed, StoreInv, StoreTypeOK, TxnOK, Idle, Separate, OrderOK,
              ChangesInOrder, Visible, IsChange
<1>6. CASE ReadForCancel
  BY <1>5, <1>6 DEF ReadForCancel, StoreInv, StoreTypeOK
<1>7. CASE RequestCancel
  <2>1. seen' \in AttackStatus /\ API \in Writers
    BY <1>7 DEF RequestCancel, AttackStatus, Store!AttackStatus, Writers
  <2> QED  BY <1>5, <1>7, <2>1, ChangeStore DEF RequestCancel
<1>8. CASE Follow
  BY <1>1, <1>8 DEF Follow, Connect, Read, CheckStatus
<1> QED
  BY <1>1, <1>2, <1>3, <1>4, <1>6, <1>7, <1>8 DEF EventNext, WriterNext, vars, storeVars

LEMMA StoreStep ==
  ASSUME StoreInv, [EventNext]_vars
  PROVE  StoreInv'
  BY QuietStore, CommitStore

\* compare_and_set_status, append_event: whatever writers interleave, die or wait for the row,
\* the committed rows of a run fit together.
THEOREM StoreInvariant == EventSpec => []StoreInv
<1>1. StoreInv /\ [EventNext]_vars => StoreInv'
  BY StoreStep
<1> QED
  BY <1>1, StoreStart, PTL DEF EventSpec

\* PostgresRuntimeStore implements the atomic store: what is committed changes by single
\* appends and allowed compare-and-set steps.
THEOREM TransactionsImplementStore == EventSpec => ImplementsStore
<1> DEFINE log == [i \in DOMAIN order |-> events[order[i]].what]
<1>1. EventInit => Store!create_run
  <2> SUFFICES ASSUME EventInit  PROVE status = "READY" /\ log = <<Store!Created>>
    BY DEF Store!create_run
  <2> QED  BY DEF EventInit
<1>2. StoreInv /\ [EventNext]_vars => [Store!StoreNext]_(Store!storeVars)
  <2> SUFFICES ASSUME StoreInv, [EventNext]_vars
               PROVE  Store!StoreNext \/ UNCHANGED <<status, log>>
    BY DEF Store!storeVars
  <2>1. ASSUME NEW w \in Writers, Commit(w)  PROVE Store!StoreNext
    <3> DEFINE c == txn[w].cursor
               n == Len(order) + 1
    <3>1. /\ ~Idle(w) /\ TxnOK(w)
          /\ status' = IF txn[w].target = "DRAFT" THEN status ELSE txn[w].target
      BY <2>1 DEF Commit, StoreInv
    <3>2. c \in DOMAIN events /\ \A i \in DOMAIN order : order[i] \in DOMAIN events
      BY <3>1 DEF TxnOK, StoreInv, OrderOK, Visible
    <3>3. log \in Seq(What) /\ DOMAIN log = 1 .. Len(order) /\ Len(log) = Len(order)
      <4>1. Len(order) \in Nat /\ DOMAIN order = 1 .. Len(order)
        BY DEF StoreInv, StoreTypeOK
      <4>2. \A d \in DOMAIN events : events[d].what \in What
        <5>1. \A d \in DOMAIN events : events[d] \in EventRow
          BY DEF StoreInv, StoreTypeOK
        <5> QED  BY <5>1 DEF EventRow
      <4>3. \A i \in 1 .. Len(order) : events[order[i]].what \in What
        BY <3>2, <4>1, <4>2
      <4> QED  BY <4>1, <4>3
    <3>4. log' = Append(log, events[c].what)
      <4>1. /\ DOMAIN order' = DOMAIN order \cup {n}
            /\ Len(order) \in Nat /\ n \notin DOMAIN order
            /\ order'[n] = c
            /\ \A i \in DOMAIN order : order'[i] = order[i]
            /\ \A d \in DOMAIN events : events'[d].what = events[d].what
        BY <2>1, CommitFrame
      <4>2. DOMAIN order = 1 .. Len(order)
        BY DEF StoreInv, StoreTypeOK
      <4>3. log' = [i \in 1 .. n |-> IF i = n THEN events[c].what ELSE events[order[i]].what]
        BY <3>2, <4>1, <4>2
      <4> QED  BY <3>3, <4>1, <4>2, <4>3
    <3>5. CASE txn[w].target = "DRAFT"
      BY <3>1, <3>4, <3>5 DEF TxnOK, Store!StoreNext, Store!append_event
    <3>6. CASE txn[w].target # "DRAFT"
      <4>1. txn[w].target \in Store!AttackStatus
        BY DEF StoreInv, StoreTypeOK, Txn, AttackStatus
      <4> QED
        BY <3>1, <3>4, <3>6, <4>1 DEF TxnOK, Store!StoreNext, Store!compare_and_set_status
    <3> QED  BY <3>5, <3>6
  <2>2. ASSUME ~\E w \in Writers : Commit(w)  PROVE UNCHANGED <<status, log>>
    <3>1. Undisturbed
      BY <2>2, QuietStore
    <3> QED  BY <3>1 DEF Undisturbed, StoreInv, OrderOK
  <2> QED  BY <2>1, <2>2
<1> QED
  BY <1>1, <1>2, StoreInvariant, PTL DEF EventSpec, ImplementsStore, Store!StoreSpec

-----------------------------------------------------------------------------
(* The stream. *)

\* events_after returns the visible events after the cursor, each of them, in order.
LEMMA EventsAfter ==
  ASSUME StoreInv, NEW cursor \in Nat
  PROVE  LET values == events_after(cursor)
             S      == {c \in Visible : c > cursor}
         IN  /\ values \in Seq(Nat) /\ Increasing(values)
             /\ \A i \in DOMAIN values : values[i] \in S
             /\ \A c \in S : \E i \in DOMAIN values : values[i] = c
<1> DEFINE S == {c \in Visible : c > cursor}
           k == Cardinality(S)
           values == events_after(cursor)
<1>1. /\ S \in SUBSET (1 .. Len(events)) /\ Len(events) \in Nat
      /\ \A c \in S : c \in Nat
  <2>1. events \in Seq(EventRow)
    BY DEF StoreInv, StoreTypeOK
  <2> QED  BY <2>1 DEF Visible
<1>2. IsFiniteSet(S) /\ k \in Nat
  <2>1. IsFiniteSet(1 .. Len(events))
    BY <1>1, FS_Interval
  <2> HIDE DEF S
  <2> QED  BY <1>1, <2>1, FS_Subset, FS_CardinalityType
<1>3. values = CHOOSE s \in SetToSeqs(S) : Increasing(s)
  BY DEF events_after, Increasing
<1> HIDE DEF S, values
<1>4. \E s \in SetToSeqs(S) : Increasing(s)
  <2>1. PICK s \in [1 .. k -> S] : Increasing(s)
    BY <1>1, ListingExists
  <2>2. \A i, j \in 1 .. k : i # j => s[i] # s[j]
    <3>1. \A i, j \in 1 .. k : i < j => s[i] < s[j]
      BY <2>1 DEF Increasing
    <3>2. \A i \in 1 .. k : s[i] \in Nat
      BY <1>1, <2>1
    <3> HIDE DEF k
    <3> QED  BY <1>2, <3>1, <3>2
  <2> QED  BY <2>1, <2>2 DEF SetToSeqs
<1>5. /\ values \in [1 .. k -> S] /\ Increasing(values)
      /\ \A i, j \in 1 .. k : i # j => values[i] # values[j]
  BY <1>3, <1>4 DEF SetToSeqs
<1>6. values \in Surjection(1 .. k, S)
  <2>1. values \in Injection(1 .. k, S)
    BY <1>5 DEF Injection, IsInjective
  <2>2. Cardinality(1 .. k) = Cardinality(S)
    BY <1>2, FS_Interval
  <2> QED  BY <1>2, <2>1, <2>2, FS_Injection
<1>7. values \in Seq(Nat) /\ DOMAIN values = 1 .. k
  <2>1. values \in [1 .. k -> Nat]
    BY <1>1, <1>5
  <2> HIDE DEF k
  <2> QED  BY <1>2, <2>1
<1>8. \A c \in S : \E i \in 1 .. k : values[i] = c
  BY <1>6 DEF Surjection
<1> QED
  BY <1>5, <1>7, <1>8 DEF values, S

\* A client's position is an event it was sent, and it has been sent everything before that
\* did not become visible behind its back.
ClientInv ==
  /\ client \in [conn : {"closed", "reading", "checking"}, cursor : Nat, got : Seq(Nat)]
  /\ client.cursor = 0 \/ client.cursor \in Visible
  /\ Increasing(client.got)
  /\ \A i \in DOMAIN client.got : client.got[i] <= client.cursor
  /\ \A c \in Visible : c <= client.cursor /\ c \notin ToSet(client.got) => Overtaken(c)

LEMMA CommitClient ==
  ASSUME StoreInv, ClientInv, NEW w \in Writers, Commit(w)
  PROVE  ClientInv'
<1> DEFINE n == Len(order) + 1
<1>0. PICK c : c = txn[w].cursor
  OBVIOUS
<1>1. /\ Visible' = Visible \cup {c} /\ c \notin Visible
      /\ DOMAIN order' = DOMAIN order \cup {n} /\ n \notin DOMAIN order /\ order'[n] = c
      /\ \A i \in DOMAIN order : order'[i] = order[i] /\ i < n
      /\ UNCHANGED client
  BY <1>0, CommitFrame DEF Commit
<1>2. c \in Nat /\ client.cursor \in Nat
  BY <1>0 DEF StoreInv, StoreTypeOK, Txn, ClientInv
<1> HIDE DEF n
<1>3. \A d \in Visible : Overtaken(d) => Overtaken(d)'
  BY <1>1 DEF Overtaken
<1>4. c <= client.cursor => Overtaken(c)'
  <2> SUFFICES ASSUME c <= client.cursor  PROVE Overtaken(c)'
    OBVIOUS
  <2>1. c \in DOMAIN events /\ 0 \notin DOMAIN events
    <3>1. ~Idle(w) /\ TxnOK(w) /\ events \in Seq(EventRow)
      BY DEF Commit, StoreInv, StoreTypeOK
    <3> QED  BY <1>0, <3>1 DEF TxnOK
  <2>2. client.cursor \in Visible
    BY <1>2, <2>1 DEF ClientInv
  <2>3. PICK i \in DOMAIN order : order[i] = client.cursor
    BY <2>2 DEF StoreInv, OrderOK
  <2>4. i < n /\ order'[i] > c /\ order'[n] = c
    BY <1>1, <1>2, <2>2, <2>3
  <2> QED  BY <1>1, <2>4 DEF Overtaken
<1> QED
  BY <1>1, <1>3, <1>4 DEF ClientInv

\* n of the events read have been sent.
LEMMA ReceivedClient ==
  ASSUME StoreInv, ClientInv, NEW conn \in {"closed", "checking"},
         NEW n \in 0 .. Len(events_after(client.cursor)),
         Received(events_after(client.cursor), n, conn), UNCHANGED storeVars
  PROVE  ClientInv'
<1> DEFINE values == events_after(client.cursor)
           got == client.got
           more == SubSeq(values, 1, n)
           cursor == IF n = 0 THEN client.cursor ELSE values[n]
<1>1. client.cursor \in Nat /\ got \in Seq(Nat) /\ Increasing(got)
  BY DEF ClientInv
<1>2. /\ values \in Seq(Nat) /\ Increasing(values)
      /\ \A i \in DOMAIN values : values[i] \in Visible /\ values[i] > client.cursor
  BY <1>1, EventsAfter
<1>all. \A c \in Visible : c > client.cursor => \E i \in DOMAIN values : values[i] = c
  BY <1>1, EventsAfter
<1>3. client' = [conn |-> conn, cursor |-> cursor, got |-> got \o more]
  BY DEF Received
<1>4. n \in 0 .. Len(values)
  OBVIOUS
<1> HIDE DEF values
<1>5. /\ more \in Seq(Nat) /\ Len(more) = n /\ n \in Nat /\ DOMAIN values = 1 .. Len(values)
      /\ \A i \in 1 .. n : more[i] = values[i] /\ i \in DOMAIN values
  BY <1>2, <1>4
<1> HIDE DEF more, got
<1>6. /\ got \o more \in Seq(Nat) /\ Len(got) \in Nat /\ Len(got \o more) = Len(got) + n
      /\ DOMAIN (got \o more) = 1 .. Len(got) + n /\ DOMAIN got = 1 .. Len(got)
      /\ \A i \in 1 .. Len(got) : (got \o more)[i] = got[i]
      /\ \A i \in 1 .. n : (got \o more)[Len(got) + i] = values[i]
  <2>0. /\ got \o more \in Seq(Nat) /\ Len(got \o more) = Len(got) + n
        /\ \A i \in 1 .. Len(got) + n :
             (got \o more)[i] = IF i <= Len(got) THEN got[i] ELSE more[i - Len(got)]
    BY <1>1, <1>5, ConcatProperties
  <2>1. /\ got \o more \in Seq(Nat) /\ Len(got) \in Nat /\ Len(got \o more) = Len(got) + n
        /\ DOMAIN (got \o more) = 1 .. Len(got) + n /\ DOMAIN got = 1 .. Len(got)
    <3>1. got \in Seq(Nat) /\ Len(got) \in Nat /\ DOMAIN got = 1 .. Len(got)
      BY <1>1
    <3>2. DOMAIN (got \o more) = 1 .. Len(got \o more)
      BY <2>0
    <3> QED  BY <2>0, <3>1, <3>2
  <2>2. \A i \in 1 .. Len(got) + n :
          (got \o more)[i] = IF i <= Len(got) THEN got[i] ELSE more[i - Len(got)]
    BY <2>0
  <2>3. \A i \in 1 .. Len(got) : (got \o more)[i] = got[i]
    BY <1>5, <2>1, <2>2
  <2>4. ASSUME NEW i \in 1 .. n  PROVE (got \o more)[Len(got) + i] = values[i]
    <3>1. /\ Len(got) + i \in 1 .. Len(got) + n /\ ~(Len(got) + i <= Len(got))
          /\ (Len(got) + i) - Len(got) = i
      BY <1>5, <2>1
    <3> QED  BY <1>5, <2>2, <3>1
  <2> QED  BY <2>1, <2>3, <2>4
<1>7. /\ cursor \in Nat /\ client.cursor <= cursor
      /\ cursor = client.cursor \/ cursor \in Visible
      /\ \A i \in 1 .. n : values[i] <= cursor
  <2>1. CASE n = 0
    BY <1>1, <2>1
  <2>2. CASE n # 0
    <3>1. n \in 1 .. n /\ n \in DOMAIN values
      BY <1>5, <2>2
    <3>2. values[n] \in Nat /\ values[n] \in Visible /\ values[n] > client.cursor
      BY <1>2, <3>1
    <3>3. \A i \in 1 .. n : i # n => values[i] < values[n]
      BY <1>2, <1>5, <3>1 DEF Increasing
    <3>4. \A i \in 1 .. n : values[i] \in Nat
      BY <1>2, <1>5
    <3> QED  BY <1>1, <2>2, <3>2, <3>3, <3>4
  <2> QED  BY <2>1, <2>2
<1> HIDE DEF cursor
<1>8. \A i \in DOMAIN (got \o more) :
        \/ i \in DOMAIN got /\ (got \o more)[i] = got[i]
        \/ \E j \in 1 .. n : i = Len(got) + j /\ (got \o more)[i] = values[j]
  <2> SUFFICES ASSUME NEW i \in 1 .. Len(got) + n, i \notin 1 .. Len(got)
               PROVE  \E j \in 1 .. n : i = Len(got) + j /\ (got \o more)[i] = values[j]
    BY <1>6
  <2>1. i - Len(got) \in 1 .. n /\ i = Len(got) + (i - Len(got))
    BY <1>5, <1>6
  <2> QED  BY <1>6, <2>1
<1>9. \A i \in DOMAIN got : got[i] \in Nat /\ got[i] <= client.cursor
  BY <1>1 DEF ClientInv, got
<1>10. Increasing(got \o more)
  <2> SUFFICES ASSUME NEW i \in DOMAIN (got \o more), NEW j \in DOMAIN (got \o more), i < j
               PROVE  (got \o more)[i] < (got \o more)[j]
    BY DEF Increasing
  <2>1. CASE j \in DOMAIN got
    <3>1. i \in DOMAIN got
      BY <1>6, <2>1
    <3> QED  BY <1>1, <1>6, <2>1, <3>1 DEF Increasing
  <2>2. CASE i \in DOMAIN got /\ j \notin DOMAIN got
    <3>1. PICK l \in 1 .. n : (got \o more)[j] = values[l]
      BY <1>8, <2>2
    <3>2. values[l] > client.cursor /\ values[l] \in Nat
      <4>1. l \in DOMAIN values
        BY <1>5
      <4>2. values[l] > client.cursor
        BY <1>2, <4>1
      <4>3. values[l] \in Nat
        BY <1>2, <4>1
      <4> QED  BY <4>2, <4>3
    <3>3. (got \o more)[i] = got[i]
      BY <1>6, <2>2
    <3> QED  BY <1>1, <1>9, <2>2, <3>1, <3>2, <3>3
  <2>3. CASE i \notin DOMAIN got
    <3>1. PICK l \in 1 .. n : i = Len(got) + l /\ (got \o more)[i] = values[l]
      BY <1>8, <2>3
    <3>2. j \notin DOMAIN got
      BY <1>6, <2>3
    <3>3. PICK m \in 1 .. n : j = Len(got) + m /\ (got \o more)[j] = values[m]
      BY <1>8, <3>2
    <3>4. l < m
      BY <1>5, <1>6, <3>1, <3>3
    <3> QED  BY <1>2, <1>5, <3>1, <3>3, <3>4 DEF Increasing
  <2> QED  BY <2>1, <2>2, <2>3
<1>11. \A i \in DOMAIN (got \o more) : (got \o more)[i] <= cursor
  <2> SUFFICES ASSUME NEW i \in DOMAIN (got \o more)  PROVE (got \o more)[i] <= cursor
    OBVIOUS
  <2>1. CASE i \in DOMAIN got /\ (got \o more)[i] = got[i]
    <3>1. got[i] \in Nat /\ got[i] <= client.cursor /\ client.cursor \in Nat
      BY <1>1, <1>9, <2>1
    <3> QED  BY <1>7, <2>1, <3>1
  <2>2. CASE \E j \in 1 .. n : (got \o more)[i] = values[j]
    BY <1>7, <2>2
  <2> QED  BY <1>8, <2>1, <2>2
<1>12. Visible' = Visible /\ \A c : Overtaken(c)' <=> Overtaken(c)
  BY DEF storeVars, Visible, Overtaken
<1>13. ASSUME NEW c \in Visible, c <= cursor, c \notin ToSet(got \o more)
       PROVE  Overtaken(c)
  <2>1. c \in Nat
    <3>1. events \in Seq(EventRow)
      BY DEF StoreInv, StoreTypeOK
    <3> QED  BY <3>1 DEF Visible
  <2>2. c \notin ToSet(got)
    BY <1>6, <1>13 DEF ToSet
  <2>3. CASE c <= client.cursor
    BY <2>2, <2>3 DEF ClientInv, got
  <2>4. CASE c > client.cursor
    <3>1. PICK i \in DOMAIN values : values[i] = c
      BY <1>all, <2>4
    <3>2. i \notin 1 .. n
      <4> SUFFICES ASSUME i \in 1 .. n  PROVE FALSE
        OBVIOUS
      <4>1. Len(got) + i \in DOMAIN (got \o more) /\ (got \o more)[Len(got) + i] = c
        BY <1>5, <1>6, <3>1
      <4> QED  BY <1>13, <4>1 DEF ToSet
    <3>3. n # 0 /\ cursor = values[n]
      BY <1>1, <1>13, <2>1, <2>4 DEF cursor
    <3>4. n \in DOMAIN values /\ n < i
      BY <1>4, <1>5, <3>1, <3>2, <3>3
    <3>5. values[n] < values[i] /\ values[n] \in Nat
      BY <1>2, <3>1, <3>4 DEF Increasing
    <3> QED  BY <1>13, <2>1, <3>1, <3>3, <3>5
  <2> QED  BY <1>1, <2>1, <2>3, <2>4
<1>14. /\ client'.cursor = cursor /\ client'.got = got \o more
       /\ client' \in [conn : {"closed", "reading", "checking"}, cursor : Nat, got : Seq(Nat)]
  BY <1>3, <1>6, <1>7
<1>15. cursor = 0 \/ cursor \in Visible
  BY <1>7 DEF ClientInv
<1> QED
  BY <1>10, <1>11, <1>12, <1>13, <1>14, <1>15 DEF ClientInv

LEMMA ClientStart == EventInit => ClientInv
<1> SUFFICES ASSUME EventInit  PROVE ClientInv
  OBVIOUS
<1>1. client = [conn |-> "closed", cursor |-> 0, got |-> <<>>]
  BY DEF EventInit, Closed
<1>2. client.got = <<>> /\ client.cursor = 0 /\ DOMAIN client.got = {}
  BY <1>1
<1>3. \A c \in Visible : ~(c <= 0)
  BY DEF EventInit, Visible
<1> QED
  BY <1>1, <1>2, <1>3 DEF ClientInv, Increasing

\* A step that changes neither the committed events nor what the client has been sent.
LEMMA QuietClient ==
  ASSUME ClientInv, Undisturbed, client'.cursor = client.cursor, client'.got = client.got,
         client' \in [conn : {"closed", "reading", "checking"}, cursor : Nat, got : Seq(Nat)]
  PROVE  ClientInv'
<1>1. Visible' = Visible /\ order' = order
  BY DEF Undisturbed
<1>2. \A c : Overtaken(c)' <=> Overtaken(c)
  BY <1>1 DEF Overtaken
<1> QED
  BY <1>1, <1>2 DEF ClientInv

LEMMA ClientStep ==
  ASSUME StoreInv, ClientInv, [EventNext]_vars
  PROVE  ClientInv'
<1>1. ASSUME NEW w \in Writers, Commit(w)  PROVE ClientInv'
  BY <1>1, CommitClient
<1>2. ASSUME ~\E w \in Writers : Commit(w)  PROVE ClientInv'
  <2>1. Undisturbed
    BY <1>2, QuietStore
  <2>2. CASE UNCHANGED client
    BY <2>1, <2>2, QuietClient DEF ClientInv
  <2>3. CASE Connect
    BY <2>1, <2>3, QuietClient DEF Connect, ClientInv
  <2>4. CASE CheckStatus
    BY <2>1, <2>4, QuietClient DEF CheckStatus, ClientInv
  <2>5. CASE Read
    <3> DEFINE values == events_after(client.cursor)
    <3>1. Len(values) \in Nat
      <4>1. client.cursor \in Nat
        BY DEF ClientInv
      <4>2. values \in Seq(Nat)
        BY <4>1, EventsAfter
      <4> HIDE DEF values
      <4> QED  BY <4>2
    <3>2. /\ UNCHANGED storeVars
          /\ \/ Received(values, Len(values), "checking")
             \/ \E n \in 0 .. Len(values) - 1 : Received(values, n, "closed")
      BY <2>5 DEF Read
    <3>3. CASE Received(values, Len(values), "checking")
      <4>1. Len(values) \in 0 .. Len(values)
        BY <3>1
      <4> QED  BY <3>2, <3>3, <4>1, ReceivedClient
    <3>4. ASSUME NEW n \in 0 .. Len(values) - 1, Received(values, n, "closed")
          PROVE  ClientInv'
      <4>1. n \in 0 .. Len(values)
        BY <3>1
      <4> QED  BY <3>2, <3>4, <4>1, ReceivedClient
    <3> QED  BY <3>2, <3>3, <3>4
  <2>6. UNCHANGED client \/ Connect \/ Read \/ CheckStatus
    BY <1>2 DEF EventNext, WriterNext, append_event, WorkerCas, compare_and_set_status, Insert,
                Rollback, ReadForCancel, RequestCancel, Follow, vars
  <2> QED  BY <2>2, <2>3, <2>4, <2>5, <2>6
<1> QED  BY <1>1, <1>2

\* GET /runs/{id}/events: for any number of writers, and however transactions, lost connections
\* and reconnections interleave, a client gets each event at most once and in cursor order, up
\* to its position misses only events whose commit was overtaken, and gets the status changes
\* in the order they were made.
THEOREM StreamIsSound == EventSpec => []StreamSound
<1>1. StoreInv /\ ClientInv /\ [EventNext]_vars => ClientInv'
  BY ClientStep
<1>2. StoreInv /\ ClientInv => StreamSound
  <2> SUFFICES ASSUME StoreInv, ClientInv  PROVE StreamSound
    OBVIOUS
  <2>1. \A i \in DOMAIN client.got : \A j \in 1 .. i - 1 : client.got[j] < client.got[i]
    <3>1. client.got \in Seq(Nat) /\ Increasing(client.got)
      BY DEF ClientInv
    <3>2. Len(client.got) \in Nat /\ DOMAIN client.got = 1 .. Len(client.got)
      BY <3>1
    <3>3. \A i \in DOMAIN client.got : \A j \in 1 .. i - 1 : j \in DOMAIN client.got /\ j < i
      BY <3>2
    <3> QED  BY <3>1, <3>3 DEF Increasing
  <2> QED  BY <2>1 DEF StreamSound, ClientInv, StoreInv, ChangesInOrder
<1> QED
  BY <1>1, <1>2, ClientStart, StoreInvariant, PTL DEF EventSpec
=============================================================================
