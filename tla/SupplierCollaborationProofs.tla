-------------------- MODULE SupplierCollaborationProofs --------------------
(***************************************************************************)
(* Proofs about SupplierCollaboration, for any suppliers, clients and      *)
(* number of collaborations.                                               *)
(*                                                                         *)
(* The argument is one about locks.  An invitation keeps the ticket locked *)
(* from its search to its insert, so what it did not find is still missing *)
(* when it inserts; a transaction that ends a collaboration keeps its row  *)
(* locked, so the collaboration is still active at the commit.             *)
(*                                                                         *)
(* The authorization scopes come second: what LIKE finds for one           *)
(* collaboration is never the scope of another that is Apart from it.      *)
(***************************************************************************)
EXTENDS SupplierCollaboration, FiniteSetTheorems, TLAPS

----------------------------------------------------------------------------
(* The invariant of rows, transactions and locks *)

TicketType == [status : Escalatable \cup {"resolved", "closed"}, paused : BOOLEAN]

RowType == [target : Targets \cup {"none"}, member : BOOLEAN,
            status : {"none"} \cup Active \cup Terminal,
            wait : {"none", "open", "ended"}]

TxType == [op : {"none", "invite", "renew"} \cup Terminal, id : 0..MaxRows,
           pc : {"free", "checked", "found", "locked", "closed", "counted"},
           target : Targets \cup {"none"}, clear : BOOLEAN, release : BOOLEAN]

Typed ==
    /\ ticket \in TicketType
    /\ row \in [Rows -> RowType]
    /\ tx \in [Clients -> TxType]
    /\ ticketLock \in Clients \cup {"none"}
    /\ rowLock \in [Rows -> Clients \cup {"none"}]

\* What an open transaction has locked, and what the lock preserves.
TxOK(p) ==
    /\ tx[p].pc = "free" => tx[p].op = "none"
    /\ tx[p].op = "invite" => tx[p].target \in Targets
    /\ tx[p].op = "renew" => tx[p].id \in Rows
    /\ tx[p].op = "invite" /\ tx[p].pc = "found" =>
          ticketLock = p /\ (tx[p].id = 0 => FindActive(tx[p].target) = {})
    /\ tx[p].op \in Terminal =>
          /\ tx[p].id \in Rows
          /\ rowLock[tx[p].id] = p
          /\ row[tx[p].id].status \in Active

\* Collaborations are numbered as they are created.
Numbered(n) == \A c \in Rows : row[c].status # "none" <=> c <= n

Unique ==
    \A c, d \in ActiveRows : row[c].target = row[d].target => c = d

Engaged == \A c \in ActiveRows : row[c].member /\ row[c].wait = "open"

RowsOK ==
    /\ \E n \in 0..MaxRows : Numbered(n)
    /\ Unique
    /\ Engaged
    /\ \A c \in ActiveRows : row[c].target \in Targets

LockInv ==
    /\ Typed
    /\ \A p \in Clients : TxOK(p)
    /\ RowsOK

LEMMA Types ==
    /\ Typed <=> /\ ticket \in TicketType
                 /\ row \in [Rows -> RowType]
                 /\ tx \in [Clients -> TxType]
                 /\ ticketLock \in Clients \cup {"none"}
                 /\ rowLock \in [Rows -> Clients \cup {"none"}]
    /\ Typed' <=> /\ ticket' \in TicketType
                  /\ row' \in [Rows -> RowType]
                  /\ tx' \in [Clients -> TxType]
                  /\ ticketLock' \in Clients \cup {"none"}
                  /\ rowLock' \in [Rows -> Clients \cup {"none"}]
  BY DEF Typed

LEMMA IdleType == Idle \in TxType
  BY SupplierAssumption DEF Idle, TxType, Terminal

----------------------------------------------------------------------------
(* Initially *)

LEMMA LockInit == Init => LockInv
  <1> SUFFICES ASSUME Init PROVE LockInv
    OBVIOUS
  <1>1. Typed
    <2>1. NoRow \in RowType
      BY DEF NoRow, RowType
    <2> QED BY <2>1, IdleType, Types DEF Init, TicketType, Escalatable
  <1>2. \A p \in Clients : TxOK(p)
    <2>1. \A p \in Clients : tx[p].op = "none" /\ tx[p].pc = "free"
      BY DEF Init, Idle
    <2> QED BY <2>1 DEF TxOK, Terminal
  <1>3. RowsOK
    <2>1. \A c \in Rows : row[c].status = "none" /\ c \in Nat /\ c > 0
      BY SupplierAssumption DEF Init, NoRow, Rows
    <2>2. Numbered(0) /\ 0 \in 0..MaxRows
      BY <2>1, SupplierAssumption DEF Numbered
    <2>3. ActiveRows = {}
      BY <2>1 DEF ActiveRows, Active
    <2> QED BY <2>2, <2>3 DEF RowsOK, Unique, Engaged
  <1> QED BY <1>1, <1>2, <1>3 DEF LockInv

----------------------------------------------------------------------------
(* What keeps the parts of the invariant *)

\* A transaction that does not move keeps its promise while others leave its locks
\* and what they protect alone.
LEMMA TxStays ==
    ASSUME NEW p \in Clients, TxOK(p), tx'[p] = tx[p],
           tx[p].op = "invite" /\ tx[p].pc = "found" =>
              /\ ticketLock' = ticketLock
              /\ \A c \in Rows : row'[c].status \in Active =>
                    row[c].status \in Active /\ row'[c].target = row[c].target,
           tx[p].op \in Terminal =>
              /\ rowLock'[tx[p].id] = rowLock[tx[p].id]
              /\ row'[tx[p].id].status \in Active
    PROVE  TxOK(p)'
  <1>1. tx[p].op = "invite" /\ tx[p].pc = "found" /\ tx[p].id = 0 =>
            FindActive(tx[p].target)' = {}
    BY DEF TxOK, FindActive
  <1> QED BY <1>1 DEF TxOK

\* A step that creates nothing keeps the rows in order, if it does not take membership
\* or wait from an active one.
LEMMA RowsStay ==
    ASSUME RowsOK,
           \A c \in Rows :
              /\ row'[c].status # "none" <=> row[c].status # "none"
              /\ row'[c].status \in Active =>
                    /\ row[c].status \in Active
                    /\ row'[c].target = row[c].target
                    /\ row'[c].member = row[c].member \/ row'[c].member
                    /\ row'[c].wait = row[c].wait
    PROVE  RowsOK'
  <1>1. \E n \in 0..MaxRows : Numbered(n)'
    <2>1. PICK n \in 0..MaxRows : Numbered(n)
      BY DEF RowsOK
    <2>2. Numbered(n)'
      BY <2>1 DEF Numbered
    <2> QED BY <2>2
  <1>2. \A c \in Rows : c \in ActiveRows' => c \in ActiveRows /\ row'[c].target = row[c].target
    BY DEF ActiveRows
  <1>3. ActiveRows \subseteq Rows /\ ActiveRows' \subseteq Rows
    BY DEF ActiveRows
  <1>4. Unique'
    BY <1>2, <1>3 DEF Unique, RowsOK
  <1>5. Engaged' /\ \A c \in ActiveRows' : row'[c].target \in Targets
    <2> SUFFICES ASSUME NEW c \in ActiveRows'
                 PROVE  row'[c].member /\ row'[c].wait = "open" /\ row'[c].target \in Targets
      BY DEF Engaged
    <2>1. c \in Rows /\ row'[c].status \in Active
      BY DEF ActiveRows
    <2>2. row[c].member /\ row[c].wait = "open" /\ row[c].target \in Targets
      BY <1>2, <1>3 DEF RowsOK, Engaged
    <2> QED BY <2>1, <2>2
  <1> QED BY <1>1, <1>4, <1>5 DEF RowsOK

\* The number that Invite gives to a collaboration is not taken.
LEMMA FreshRow ==
    ASSUME RowsOK, NEW c, c = Cardinality({d \in Rows : row[d].status # "none"}) + 1, c \in Rows
    PROVE  /\ row[c].status = "none"
           /\ \A d \in Rows : d <= c <=> row[d].status # "none" \/ d = c
           /\ c \in 0..MaxRows
  <1>1. PICK n \in 0..MaxRows : Numbered(n)
    BY DEF RowsOK
  <1>2. {d \in Rows : row[d].status # "none"} = 1..n
    BY <1>1, SupplierAssumption DEF Numbered, Rows
  <1>3. Cardinality(1..n) = n
    <2>1. n \in Nat
      BY <1>1, SupplierAssumption
    <2>2. Cardinality(1..n) = IF 1 > n THEN 0 ELSE n - 1 + 1
      BY <2>1, FS_Interval
    <2> QED BY <2>1, <2>2
  <1>4. c = n + 1
    BY <1>2, <1>3
  <1> QED BY <1>1, <1>4, SupplierAssumption DEF Numbered, Rows

----------------------------------------------------------------------------
(* The steps *)

\* A client opens a transaction without writing.
LEMMA OpenStep ==
    ASSUME LockInv, NEW p \in Clients, NEW u \in TxType,
           tx' = [tx EXCEPT ![p] = u],
           tx[p].pc = "free",
           UNCHANGED <<ticket, row, ticketLock>>,
           rowLock' \in [Rows -> Clients \cup {"none"}],
           \A c \in Rows : rowLock[c] # "none" => rowLock'[c] = rowLock[c],
           TxOK(p)'
    PROVE  LockInv'
  <1>0. /\ tx \in [Clients -> TxType] /\ row \in [Rows -> RowType]
        /\ ticket \in TicketType /\ ticketLock \in Clients \cup {"none"}
    BY Types DEF LockInv
  <1>1. Typed'
    BY <1>0, Types
  <1>2. ASSUME NEW q \in Clients PROVE TxOK(q)'
    <2>1. CASE q = p
      BY <2>1
    <2>2. CASE q # p
      <3>1. tx'[q] = tx[q] /\ TxOK(q)
        BY <1>0, <2>2 DEF LockInv
      <3>2. tx[q].op \in Terminal => rowLock'[tx[q].id] = rowLock[tx[q].id]
        BY <3>1, SupplierAssumption DEF TxOK
      <3>3. tx[q].op \in Terminal => row'[tx[q].id].status \in Active
        BY <3>1 DEF TxOK
      <3> QED BY <3>1, <3>2, <3>3, TxStays
    <2> QED BY <2>1, <2>2
  <1>3. RowsOK'
    BY RowsStay DEF LockInv
  <1> QED BY <1>1, <1>2, <1>3 DEF LockInv

LEMMA InviteCheckStep ==
    ASSUME LockInv, NEW p \in Clients, NEW t \in Targets, InviteCheck(p, t)
    PROVE  LockInv'
  <1> DEFINE u == [Idle EXCEPT !.op = "invite", !.target = t, !.pc = "checked"]
  <1>1. u \in TxType /\ u.op = "invite" /\ u.pc = "checked" /\ u.target = t
    BY IdleType, SupplierAssumption DEF TxType, Terminal
  <1>2. tx' = [tx EXCEPT ![p] = u] /\ tx[p].pc = "free" /\ UNCHANGED <<ticket, row, ticketLock, rowLock>>
    BY DEF InviteCheck
  <1>3. rowLock \in [Rows -> Clients \cup {"none"}] /\ tx \in [Clients -> TxType]
    BY Types DEF LockInv
  <1>4. tx'[p].op = "invite" /\ tx'[p].pc = "checked" /\ tx'[p].target = t
    BY <1>1, <1>2, <1>3
  <1>5. TxOK(p)'
    BY <1>4 DEF TxOK, Terminal
  <1> HIDE DEF u
  <1> QED BY <1>1, <1>2, <1>3, <1>5, OpenStep

LEMMA RenewCheckStep ==
    ASSUME LockInv, NEW p \in Clients, NEW c \in Rows, RenewCheck(p, c)
    PROVE  LockInv'
  <1> DEFINE u == [Idle EXCEPT !.op = "renew", !.id = c, !.pc = "checked"]
  <1>1. u \in TxType /\ u.op = "renew" /\ u.pc = "checked" /\ u.id = c
    <2>1. c \in 0..MaxRows
      BY SupplierAssumption DEF Rows
    <2> QED BY <2>1, IdleType DEF TxType
  <1>2. tx' = [tx EXCEPT ![p] = u] /\ tx[p].pc = "free" /\ UNCHANGED <<ticket, row, ticketLock, rowLock>>
    BY DEF RenewCheck
  <1>3. rowLock \in [Rows -> Clients \cup {"none"}] /\ tx \in [Clients -> TxType]
    BY Types DEF LockInv
  <1>4. tx'[p].op = "renew" /\ tx'[p].pc = "checked" /\ tx'[p].id = c
    BY <1>1, <1>2, <1>3
  <1>5. TxOK(p)'
    BY <1>4 DEF TxOK, Terminal, Rows
  <1> HIDE DEF u
  <1> QED BY <1>1, <1>2, <1>3, <1>5, OpenStep

LEMMA BeginEndStep ==
    ASSUME LockInv, NEW p \in Clients, NEW c \in Rows, NEW outcome \in Terminal,
           BeginEnd(p, c, outcome)
    PROVE  LockInv'
  <1> DEFINE u == [Idle EXCEPT !.op = outcome, !.id = c, !.pc = "locked"]
  <1>1. u \in TxType /\ u.op = outcome /\ u.pc = "locked" /\ u.id = c
    <2>1. c \in 0..MaxRows
      BY SupplierAssumption DEF Rows
    <2> QED BY <2>1, IdleType DEF TxType
  <1>2. /\ tx' = [tx EXCEPT ![p] = u] /\ tx[p].pc = "free"
        /\ rowLock[c] = "none" /\ rowLock' = [rowLock EXCEPT ![c] = p]
        /\ UNCHANGED <<ticket, row, ticketLock>>
        /\ MayEnd(c, outcome)
    BY DEF BeginEnd
  <1>3. rowLock \in [Rows -> Clients \cup {"none"}] /\ tx \in [Clients -> TxType]
    BY Types DEF LockInv
  <1>4. tx'[p].op = outcome /\ tx'[p].pc = "locked" /\ tx'[p].id = c
    BY <1>1, <1>2, <1>3
  <1>5. /\ rowLock' \in [Rows -> Clients \cup {"none"}] /\ rowLock'[c] = p
        /\ \A d \in Rows : rowLock[d] # "none" => rowLock'[d] = rowLock[d]
    BY <1>2, <1>3
  <1>6. row'[c].status \in Active
    BY <1>2 DEF MayEnd, Active
  <1>7. TxOK(p)'
    BY <1>4, <1>5, <1>6 DEF TxOK, Terminal
  <1> HIDE DEF u
  <1> QED BY <1>1, <1>2, <1>3, <1>5, <1>7, OpenStep

\* A transaction goes on without writing, and may lock the ticket.
LEMMA GoOnStep ==
    ASSUME LockInv, NEW p \in Clients, NEW u \in TxType,
           tx' = [tx EXCEPT ![p] = u],
           UNCHANGED <<ticket, row, rowLock>>,
           UNCHANGED ticketLock \/ (FreeFor(ticketLock, p) /\ ticketLock' = p),
           TxOK(p)'
    PROVE  LockInv'
  <1>0. /\ tx \in [Clients -> TxType] /\ row \in [Rows -> RowType]
        /\ ticket \in TicketType /\ ticketLock \in Clients \cup {"none"}
        /\ rowLock \in [Rows -> Clients \cup {"none"}]
    BY Types DEF LockInv
  <1>1. Typed'
    BY <1>0, Types
  <1>2. ASSUME NEW q \in Clients PROVE TxOK(q)'
    <2>1. CASE q = p
      BY <2>1
    <2>2. CASE q # p
      <3>1. tx'[q] = tx[q] /\ TxOK(q)
        BY <1>0, <2>2 DEF LockInv
      <3>2. tx[q].op = "invite" /\ tx[q].pc = "found" => ticketLock' = ticketLock
        BY <2>2, <3>1, SupplierAssumption DEF TxOK, FreeFor
      <3>3. tx[q].op \in Terminal => row'[tx[q].id].status \in Active
        BY <3>1 DEF TxOK
      <3> QED BY <3>1, <3>2, <3>3, TxStays
    <2> QED BY <2>1, <2>2
  <1>3. RowsOK'
    BY RowsStay DEF LockInv
  <1> QED BY <1>1, <1>2, <1>3 DEF LockInv

LEMMA InviteFindStep ==
    ASSUME LockInv, NEW p \in Clients, InviteFind(p)
    PROVE  LockInv'
  <1> DEFINE found == FindActive(tx[p].target)
             id == IF found = {} THEN 0 ELSE CHOOSE c \in found : TRUE
             u == [tx[p] EXCEPT !.pc = "found", !.id = id]
  <1>0. /\ tx \in [Clients -> TxType] /\ tx[p] \in TxType /\ TxOK(p)
        /\ tx[p].op = "invite"
    BY Types DEF LockInv, InviteFind
  <1>1. id \in 0..MaxRows /\ (id = 0 => found = {})
    BY SupplierAssumption DEF FindActive, Rows
  <1>2. tx' = [tx EXCEPT ![p] = u]
    <2>1. tx' = [tx EXCEPT ![p].pc = "found", ![p].id = id]
      BY DEF InviteFind
    <2> QED BY <1>0, <2>1
  <1>3. /\ UNCHANGED <<ticket, row, rowLock>>
        /\ ticketLock = "none" /\ ticketLock' = p
    BY DEF InviteFind
  <1> HIDE DEF id
  <1>4. /\ u \in TxType /\ u.op = "invite" /\ u.pc = "found" /\ u.id = id
        /\ u.target = tx[p].target
    BY <1>0, <1>1 DEF TxType
  <1>5. tx'[p] = u
    BY <1>0, <1>2
  <1>6. FindActive(tx[p].target)' = FindActive(u.target)
    BY <1>3, <1>4, <1>5 DEF FindActive
  <1> HIDE DEF u
  <1>7. TxOK(p)'
    BY <1>0, <1>1, <1>3, <1>4, <1>5, <1>6 DEF TxOK, Terminal
  <1> QED BY <1>2, <1>3, <1>4, <1>7, GoOnStep DEF FreeFor

\* Transactions that end a collaboration: the fields that matter do not change.
LEMMA EndingGoesOn ==
    ASSUME LockInv, NEW p \in Clients, tx[p].op \in Terminal, NEW u \in TxType,
           u.op = tx[p].op, u.id = tx[p].id, u.pc # "free",
           tx' = [tx EXCEPT ![p] = u],
           UNCHANGED <<ticket, row, rowLock>>,
           UNCHANGED ticketLock \/ (FreeFor(ticketLock, p) /\ ticketLock' = p)
    PROVE  LockInv'
  <1>1. tx'[p] = u /\ TxOK(p)
    BY Types DEF LockInv
  <1>2. TxOK(p)'
    BY <1>1 DEF TxOK, Terminal
  <1> QED BY <1>2, GoOnStep

LEMMA CloseSupplierWaitStep ==
    ASSUME LockInv, NEW p \in Clients, CloseSupplierWait(p)
    PROVE  LockInv'
  <1> DEFINE b == ticket.paused /\ OpenWaits \subseteq {tx[p].id}
             u == [tx[p] EXCEPT !.pc = "closed", !.clear = b]
  <1>0. /\ tx \in [Clients -> TxType] /\ tx[p] \in TxType /\ tx[p].op \in Terminal
        /\ ticket.paused \in BOOLEAN
    BY Types DEF LockInv, CloseSupplierWait, TicketType
  <1>1. b \in BOOLEAN
    BY <1>0
  <1>2. tx' = [tx EXCEPT ![p] = u]
    <2>1. tx' = [tx EXCEPT ![p].pc = "closed", ![p].clear = b]
      BY DEF CloseSupplierWait
    <2> QED BY <1>0, <2>1
  <1> HIDE DEF b
  <1>3. u \in TxType /\ u.op = tx[p].op /\ u.id = tx[p].id /\ u.pc # "free"
    BY <1>0, <1>1 DEF TxType
  <1>4. UNCHANGED <<ticket, row, rowLock>>
        /\ (UNCHANGED ticketLock \/ (FreeFor(ticketLock, p) /\ ticketLock' = p))
    BY DEF CloseSupplierWait, FreeFor
  <1> HIDE DEF u
  <1> QED BY <1>0, <1>2, <1>3, <1>4, EndingGoesOn

LEMMA CountActiveStep ==
    ASSUME LockInv, NEW p \in Clients, CountActive(p)
    PROVE  LockInv'
  <1> DEFINE b == ActiveRows \subseteq {tx[p].id} /\ ticket.status = "supplier_support"
             u == [tx[p] EXCEPT !.pc = "counted", !.release = b]
  <1>0. /\ tx \in [Clients -> TxType] /\ tx[p] \in TxType /\ tx[p].op \in Terminal
    BY Types DEF LockInv, CountActive
  <1>1. b \in BOOLEAN
    OBVIOUS
  <1>2. tx' = [tx EXCEPT ![p] = u]
    <2>1. tx' = [tx EXCEPT ![p].pc = "counted", ![p].release = b]
      BY DEF CountActive
    <2> QED BY <1>0, <2>1
  <1> HIDE DEF b
  <1>3. u \in TxType /\ u.op = tx[p].op /\ u.id = tx[p].id /\ u.pc # "free"
    BY <1>0, <1>1 DEF TxType
  <1>4. UNCHANGED <<ticket, row, rowLock>>
        /\ (UNCHANGED ticketLock \/ (FreeFor(ticketLock, p) /\ ticketLock' = p))
    BY DEF CountActive, FreeFor
  <1> HIDE DEF u
  <1> QED BY <1>0, <1>2, <1>3, <1>4, EndingGoesOn

\* A transaction of a client commits or rolls back.
LEMMA Idles ==
    ASSUME LockInv, NEW p \in Clients, tx' = [tx EXCEPT ![p] = Idle]
    PROVE  /\ tx' \in [Clients -> TxType] /\ TxOK(p)'
           /\ \A q \in Clients : q # p => tx'[q] = tx[q] /\ TxOK(q)
  <1>1. tx \in [Clients -> TxType] /\ \A q \in Clients : TxOK(q)
    BY Types DEF LockInv
  <1>2. tx'[p].op = "none" /\ tx'[p].pc = "free"
    BY <1>1 DEF Idle
  <1>3. TxOK(p)'
    BY <1>2 DEF TxOK, Terminal
  <1> QED BY <1>1, <1>3, IdleType

LEMMA InviteCreateStep ==
    ASSUME LockInv, NEW p \in Clients, InviteCreate(p)
    PROVE  LockInv'
  <1>0. /\ row \in [Rows -> RowType] /\ rowLock \in [Rows -> Clients \cup {"none"}]
        /\ RowsOK /\ TxOK(p)
    BY Types DEF LockInv
  <1>1. PICK c \in Rows :
           /\ c = Cardinality({d \in Rows : row[d].status # "none"}) + 1
           /\ row' = [row EXCEPT ![c] = [target |-> tx[p].target, status |-> "invited",
                                         member |-> TRUE, wait |-> "open"]]
    BY DEF InviteCreate
  <1>2. /\ ticketLock = p /\ tx[p].target \in Targets /\ FindActive(tx[p].target) = {}
        /\ ticket' = [status |-> "supplier_support", paused |-> TRUE]
        /\ tx' = [tx EXCEPT ![p] = Idle] /\ ticketLock' = "none" /\ UNCHANGED rowLock
    BY <1>0 DEF InviteCreate, TxOK
  <1>3. /\ row[c].status = "none"
        /\ \A d \in Rows : d <= c <=> row[d].status # "none" \/ d = c
        /\ c \in 0..MaxRows
    BY <1>0, <1>1, FreshRow
  <1>4. /\ row'[c].target = tx[p].target /\ row'[c].status = "invited"
        /\ row'[c].member /\ row'[c].wait = "open"
        /\ \A d \in Rows : d # c => row'[d] = row[d]
    BY <1>0, <1>1
  <1>5. Typed'
    <2>1. [target |-> tx[p].target, status |-> "invited", member |-> TRUE, wait |-> "open"]
             \in RowType
      BY <1>2 DEF RowType, Active
    <2>2. row' \in [Rows -> RowType]
      BY <1>0, <1>1, <2>1
    <2>3. ticket' \in TicketType
      BY <1>2 DEF TicketType, Escalatable
    <2> QED BY <1>0, <1>2, <2>2, <2>3, Types, Idles
  <1>6. ASSUME NEW q \in Clients PROVE TxOK(q)'
    <2>1. CASE q = p
      BY <1>2, <2>1, Idles
    <2>2. CASE q # p
      <3>1. tx'[q] = tx[q] /\ TxOK(q)
        BY <1>2, <2>2, Idles
      <3>2. ~(tx[q].op = "invite" /\ tx[q].pc = "found")
        BY <1>2, <2>2, <3>1 DEF TxOK
      <3>3. tx[q].op \in Terminal => row'[tx[q].id].status \in Active
        <4>1. tx[q].op \in Terminal => tx[q].id # c /\ tx[q].id \in Rows
          BY <1>3, <3>1 DEF TxOK, Active
        <4> QED BY <1>4, <3>1, <4>1 DEF TxOK
      <3> QED BY <1>2, <3>1, <3>2, <3>3, TxStays
    <2> QED BY <2>1, <2>2
  <1>7. RowsOK'
    <2>1. Numbered(c)'
      BY <1>3, <1>4 DEF Numbered
    <2>2. \A d \in ActiveRows' : d = c \/ (d \in ActiveRows /\ row'[d] = row[d] /\ d # c)
      BY <1>3, <1>4 DEF ActiveRows, Active
    <2>3. ActiveRows \subseteq Rows
      BY DEF ActiveRows
    <2>4. \A d \in ActiveRows : row[d].target # row'[c].target
      BY <1>2, <1>4 DEF FindActive, ActiveRows
    <2>5. Unique'
      BY <1>0, <2>2, <2>4 DEF Unique, RowsOK
    <2>6. Engaged' /\ \A d \in ActiveRows' : row'[d].target \in Targets
      BY <1>0, <1>2, <1>4, <2>2 DEF Engaged, RowsOK
    <2> QED BY <1>3, <2>1, <2>5, <2>6 DEF RowsOK
  <1> QED BY <1>5, <1>6, <1>7 DEF LockInv

\* Renewing a participation, by a repeated invitation or by Assign and AddParticipant.
LEMMA RenewalStep ==
    ASSUME LockInv, NEW p \in Clients, NEW c \in Rows,
           \/ row' = [row EXCEPT ![c].member = TRUE]
           \/ row' = [row EXCEPT ![c].member = TRUE, ![c].wait = IF @ = "none" THEN "open" ELSE @],
           tx' = [tx EXCEPT ![p] = Idle], ticket' \in TicketType, UNCHANGED rowLock,
           UNCHANGED ticketLock \/ (ticketLock = p /\ ticketLock' = "none")
    PROVE  LockInv'
  <1>0. /\ row \in [Rows -> RowType] /\ row[c] \in RowType
        /\ rowLock \in [Rows -> Clients \cup {"none"}]
        /\ ticketLock \in Clients \cup {"none"} /\ RowsOK
    BY Types DEF LockInv
  <1>1. PICK w \in {"none", "open", "ended"} :
           /\ row' = [row EXCEPT ![c] = [row[c] EXCEPT !.member = TRUE, !.wait = w]]
           /\ row[c].wait = "open" => w = "open"
    <2>1. row[c].wait \in {"none", "open", "ended"}
      BY <1>0 DEF RowType
    <2>2. CASE row' = [row EXCEPT ![c].member = TRUE]
      <3>1. [row[c] EXCEPT !.member = TRUE] = [row[c] EXCEPT !.member = TRUE, !.wait = row[c].wait]
        BY <1>0 DEF RowType
      <3> QED BY <1>0, <2>1, <2>2, <3>1
    <2>3. CASE row' = [row EXCEPT ![c].member = TRUE,
                                  ![c].wait = IF @ = "none" THEN "open" ELSE @]
      <3> DEFINE w == IF row[c].wait = "none" THEN "open" ELSE row[c].wait
      <3>1. row' = [row EXCEPT ![c] = [row[c] EXCEPT !.member = TRUE, !.wait = w]]
        BY <1>0, <2>3 DEF RowType
      <3>2. w \in {"none", "open", "ended"} /\ (row[c].wait = "open" => w = "open")
        BY <2>1
      <3> HIDE DEF w
      <3> QED BY <3>1, <3>2
    <2> QED BY <2>2, <2>3
  <1>2. /\ row'[c].target = row[c].target /\ row'[c].status = row[c].status
        /\ row'[c].member /\ row'[c].wait = w
        /\ \A d \in Rows : d # c => row'[d] = row[d]
        /\ row' \in [Rows -> RowType]
    <2>1. row'[c] = [row[c] EXCEPT !.member = TRUE, !.wait = w]
      BY <1>0, <1>1
    <2>2. /\ row'[c].target = row[c].target /\ row'[c].status = row[c].status
          /\ row'[c].member /\ row'[c].wait = w /\ row'[c] \in RowType
      BY <1>0, <2>1 DEF RowType
    <2> QED BY <1>0, <1>1, <2>1, <2>2
  <1>3. Typed'
    BY <1>0, <1>2, Types, Idles
  <1>4. \A d \in Rows : row'[d].target = row[d].target /\ row'[d].status = row[d].status
    BY <1>2
  <1>5. ASSUME NEW q \in Clients PROVE TxOK(q)'
    <2>1. CASE q = p
      BY <2>1, Idles
    <2>2. CASE q # p
      <3>1. tx'[q] = tx[q] /\ TxOK(q)
        BY <2>2, Idles
      <3>2. tx[q].op = "invite" /\ tx[q].pc = "found" => ticketLock' = ticketLock
        BY <2>2, <3>1 DEF TxOK
      <3>3. tx[q].op \in Terminal => row'[tx[q].id].status \in Active
        BY <1>4, <3>1 DEF TxOK
      <3> QED BY <1>4, <3>1, <3>2, <3>3, TxStays
    <2> QED BY <2>1, <2>2
  <1>6. RowsOK'
    <2>1. row[c].status \in Active => row[c].wait = "open"
      BY <1>0 DEF RowsOK, Engaged, ActiveRows
    <2>2. row[c].status \in Active => row'[c].wait = row[c].wait
      BY <1>1, <1>2, <2>1
    <2>3. ASSUME NEW d \in Rows
          PROVE  /\ row'[d].status # "none" <=> row[d].status # "none"
                 /\ row'[d].status \in Active =>
                       /\ row[d].status \in Active
                       /\ row'[d].target = row[d].target
                       /\ row'[d].member = row[d].member \/ row'[d].member
                       /\ row'[d].wait = row[d].wait
      <3>1. CASE d = c
        BY <1>2, <2>2, <3>1
      <3>2. CASE d # c
        BY <1>2, <3>2
      <3> QED BY <3>1, <3>2
    <2> QED BY <1>0, <2>3, RowsStay
  <1> QED BY <1>3, <1>5, <1>6 DEF LockInv

LEMMA InviteRefreshStep ==
    ASSUME LockInv, NEW p \in Clients, InviteRefresh(p)
    PROVE  LockInv'
  <1>0. tx[p] \in TxType /\ TxOK(p) /\ ticket \in TicketType
    BY Types DEF LockInv
  <1>1. tx[p].id \in Rows
    BY <1>0, SupplierAssumption DEF InviteRefresh, TxType, Rows
  <1>2. ticket' \in TicketType
    BY <1>0 DEF InviteRefresh, TicketType
  <1>3. ticketLock = p
    BY <1>0 DEF InviteRefresh, TxOK
  <1> QED BY <1>1, <1>2, <1>3, RenewalStep DEF InviteRefresh

LEMMA RenewStep ==
    ASSUME LockInv, NEW p \in Clients, Renew(p)
    PROVE  LockInv'
  <1>0. TxOK(p) /\ ticket \in TicketType
    BY Types DEF LockInv
  <1>1. tx[p].id \in Rows
    BY <1>0 DEF Renew, TxOK
  <1> QED BY <1>0, <1>1, RenewalStep DEF Renew

LEMMA AcceptStep ==
    ASSUME LockInv, NEW c \in Rows, Accept(c)
    PROVE  LockInv'
  <1>0. /\ row \in [Rows -> RowType] /\ row[c] \in RowType /\ RowsOK
        /\ UNCHANGED <<ticket, tx, ticketLock, rowLock>>
        /\ rowLock[c] = "none" /\ row[c].status \in Active
        /\ row' = [row EXCEPT ![c].status = "processing", ![c].member = TRUE]
    BY Types DEF LockInv, Accept
  <1>1. /\ row'[c].target = row[c].target /\ row'[c].status = "processing"
        /\ row'[c].member /\ row'[c].wait = row[c].wait
        /\ \A d \in Rows : d # c => row'[d] = row[d]
        /\ row' \in [Rows -> RowType]
    <2>1. row'[c] = [row[c] EXCEPT !.status = "processing", !.member = TRUE]
      BY <1>0
    <2>2. /\ row'[c].target = row[c].target /\ row'[c].status = "processing"
          /\ row'[c].member /\ row'[c].wait = row[c].wait /\ row'[c] \in RowType
      BY <1>0, <2>1 DEF RowType, Active
    <2> QED BY <1>0, <2>1, <2>2
  <1>2. Typed'
    BY <1>0, <1>1, Types DEF LockInv
  <1>3. \A d \in Rows : /\ row'[d].target = row[d].target
                        /\ row'[d].status \in Active <=> row[d].status \in Active
                        /\ row'[d].status # "none" <=> row[d].status # "none"
                        /\ row'[d].wait = row[d].wait
                        /\ row'[d].member = row[d].member \/ row'[d].member
    BY <1>0, <1>1 DEF Active
  <1>4. ASSUME NEW q \in Clients PROVE TxOK(q)'
    <2>1. TxOK(q)
      BY DEF LockInv
    <2>2. tx[q].op \in Terminal => row'[tx[q].id].status \in Active
      BY <1>3, <2>1 DEF TxOK
    <2> QED BY <1>0, <1>3, <2>1, <2>2, TxStays
  <1>5. RowsOK'
    BY <1>0, <1>3, RowsStay
  <1> QED BY <1>2, <1>4, <1>5 DEF LockInv

LEMMA CommitEndStep ==
    ASSUME LockInv, NEW p \in Clients, CommitEnd(p)
    PROVE  LockInv'
  <1> DEFINE c == tx[p].id
  <1>0. /\ row \in [Rows -> RowType] /\ rowLock \in [Rows -> Clients \cup {"none"}]
        /\ ticketLock \in Clients \cup {"none"} /\ ticket \in TicketType
        /\ tx[p] \in TxType /\ TxOK(p) /\ RowsOK
    BY Types DEF LockInv
  <1>1. /\ tx[p].op \in Terminal /\ c \in Rows /\ rowLock[c] = p /\ row[c].status \in Active
        /\ row[c] \in RowType
    BY <1>0 DEF CommitEnd, TxOK
  <1>2. PICK w \in {"none", "open", "ended"} :
           row' = [row EXCEPT ![c] = [row[c] EXCEPT !.member = FALSE, !.status = tx[p].op,
                                                    !.wait = w]]
    <2> DEFINE w == IF row[c].wait = "open" THEN "ended" ELSE row[c].wait
    <2>1. row' = [row EXCEPT ![c] = [row[c] EXCEPT !.member = FALSE, !.status = tx[p].op,
                                                   !.wait = w]]
      BY <1>0, <1>1 DEF CommitEnd, RowType
    <2>2. w \in {"none", "open", "ended"}
      BY <1>1 DEF RowType
    <2> HIDE DEF w
    <2> QED BY <2>1, <2>2
  <1>3. /\ row'[c].status = tx[p].op
        /\ \A d \in Rows : d # c => row'[d] = row[d]
        /\ row' \in [Rows -> RowType]
    <2>1. row'[c] = [row[c] EXCEPT !.member = FALSE, !.status = tx[p].op, !.wait = w]
      BY <1>0, <1>1, <1>2
    <2>2. row'[c].status = tx[p].op /\ row'[c] \in RowType
      BY <1>1, <2>1 DEF RowType
    <2> QED BY <1>0, <1>1, <1>2, <2>1, <2>2
  <1>4. /\ tx' = [tx EXCEPT ![p] = Idle]
        /\ ticketLock' = IF ticketLock = p THEN "none" ELSE ticketLock
        /\ rowLock' = [rowLock EXCEPT ![c] = "none"]
    BY DEF CommitEnd
  <1>5. ticket' \in TicketType
    <2>1. ticket.paused \in BOOLEAN /\ tx[p].clear \in BOOLEAN
          /\ ticket.status \in Escalatable \cup {"resolved", "closed"}
      BY <1>0 DEF TicketType, TxType
    <2>2. ticket' = [status |-> IF tx[p].release THEN "processing" ELSE ticket.status,
                     paused |-> ticket.paused /\ ~tx[p].clear]
      BY DEF CommitEnd
    <2>3. (IF tx[p].release THEN "processing" ELSE ticket.status)
             \in Escalatable \cup {"resolved", "closed"}
      BY <2>1 DEF Escalatable
    <2>4. (ticket.paused /\ ~tx[p].clear) \in BOOLEAN
      BY <2>1
    <2> QED BY <2>2, <2>3, <2>4 DEF TicketType
  <1> HIDE DEF c
  <1>6. Typed'
    <2>1. rowLock' \in [Rows -> Clients \cup {"none"}] /\ ticketLock' \in Clients \cup {"none"}
      BY <1>0, <1>4
    <2> QED BY <1>3, <1>4, <1>5, <2>1, Types, Idles
  <1>7. \A d \in Rows : row'[d].status \in Active => d # c
    BY <1>1, <1>3 DEF Terminal, Active
  <1>8. ASSUME NEW q \in Clients PROVE TxOK(q)'
    <2>1. CASE q = p
      BY <1>4, <2>1, Idles
    <2>2. CASE q # p
      <3>1. tx'[q] = tx[q] /\ TxOK(q)
        BY <1>4, <2>2, Idles
      <3>2. tx[q].op = "invite" /\ tx[q].pc = "found" => ticketLock' = ticketLock
        BY <1>4, <2>2, <3>1 DEF TxOK
      <3>3. tx[q].op \in Terminal => tx[q].id # c /\ tx[q].id \in Rows
        BY <1>1, <2>2, <3>1 DEF TxOK
      <3>4. tx[q].op \in Terminal => /\ rowLock'[tx[q].id] = rowLock[tx[q].id]
                                     /\ row'[tx[q].id].status \in Active
        BY <1>0, <1>3, <1>4, <3>1, <3>3 DEF TxOK
      <3> QED BY <1>3, <1>7, <3>1, <3>2, <3>4, TxStays
    <2> QED BY <2>1, <2>2
  <1>9. RowsOK'
    <2>1. row[c].status # "none" /\ row'[c].status # "none"
      BY <1>1, <1>3 DEF Terminal, Active
    <2> QED BY <1>0, <1>3, <1>7, <2>1, RowsStay
  <1> QED BY <1>6, <1>8, <1>9 DEF LockInv

\* The ticket ends, and with it every collaboration: none of them is being ended
\* by anybody else.
LEMMA TicketEnds ==
    ASSUME LockInv, LocksFree,
           row' \in [Rows -> RowType],
           \A c \in Rows : row'[c].status = IF row[c].status \in Active THEN "resolved"
                                            ELSE row[c].status,
           ticket' \in TicketType, UNCHANGED <<tx, ticketLock, rowLock>>
    PROVE  LockInv'
  <1>0. RowsOK /\ \A q \in Clients : TxOK(q)
    BY DEF LockInv
  <1>1. Typed'
    BY Types DEF LockInv
  <1>2. \A c \in Rows : /\ row'[c].status \notin Active
                        /\ row'[c].status # "none" <=> row[c].status # "none"
    BY DEF Active
  <1>3. ASSUME NEW q \in Clients PROVE TxOK(q)'
    <2>1. tx[q].op \notin Terminal
      BY <1>0, SupplierAssumption DEF TxOK, LocksFree, ActiveRows
    <2>2. ~(tx[q].op = "invite" /\ tx[q].pc = "found")
      BY <1>0, SupplierAssumption DEF TxOK, LocksFree
    <2> QED BY <1>0, <2>1, <2>2, TxStays
  <1>4. RowsOK'
    BY <1>0, <1>2, RowsStay
  <1> QED BY <1>1, <1>3, <1>4 DEF LockInv

LEMMA AllResolvedRows ==
    ASSUME row \in [Rows -> RowType]
    PROVE  /\ AllResolved \in [Rows -> RowType]
           /\ \A c \in Rows : AllResolved[c].status = IF row[c].status \in Active THEN "resolved"
                                                      ELSE row[c].status
  <1> SUFFICES ASSUME NEW c \in Rows
               PROVE  /\ AllResolved[c] \in RowType
                      /\ AllResolved[c].status = IF row[c].status \in Active THEN "resolved"
                                                 ELSE row[c].status
    BY DEF AllResolved
  <1> DEFINE s == IF row[c].status \in Active THEN "resolved" ELSE row[c].status
  <1>1. AllResolved[c] = [row[c] EXCEPT !.status = s, !.member = FALSE]
    BY DEF AllResolved, RowType
  <1>2. s \in {"none"} \cup Active \cup Terminal
    BY DEF RowType, Terminal
  <1> HIDE DEF s
  <1>3. AllResolved[c] \in RowType /\ AllResolved[c].status = s
    BY <1>1, <1>2 DEF RowType
  <1> QED BY <1>3 DEF s

LEMMA RepairConclusionStep ==
    ASSUME LockInv, RepairConclusion
    PROVE  LockInv'
  <1>0. row \in [Rows -> RowType] /\ ticket \in TicketType
    BY Types DEF LockInv
  <1>1. ticket' \in TicketType
    BY <1>0 DEF RepairConclusion, TicketType
  <1>2. /\ row' \in [Rows -> RowType]
        /\ \A c \in Rows : row'[c].status = IF row[c].status \in Active THEN "resolved"
                                            ELSE row[c].status
    BY <1>0, AllResolvedRows DEF RepairConclusion, ActiveRows
  <1> QED BY <1>1, <1>2, TicketEnds DEF RepairConclusion

LEMMA CloseTicketStep ==
    ASSUME LockInv, CloseTicket
    PROVE  LockInv'
  <1>0. row \in [Rows -> RowType]
    BY Types DEF LockInv
  <1>1. ticket' \in TicketType
    BY DEF CloseTicket, TicketType
  <1>2. row' \in [Rows -> RowType] /\ \A c \in Rows : row'[c].status = AllResolved[c].status
    <2> SUFFICES ASSUME NEW c \in Rows
                 PROVE  row'[c] \in RowType /\ row'[c].status = AllResolved[c].status
      BY DEF CloseTicket
    <2> DEFINE w == IF AllResolved[c].wait = "open" THEN "ended" ELSE AllResolved[c].wait
    <2>1. AllResolved[c] \in RowType
      BY <1>0, AllResolvedRows
    <2>2. row'[c] = [AllResolved[c] EXCEPT !.wait = w]
      BY <2>1 DEF CloseTicket, RowType
    <2>3. w \in {"none", "open", "ended"}
      BY <2>1 DEF RowType
    <2> HIDE DEF w
    <2> QED BY <2>1, <2>2, <2>3 DEF RowType
  <1> QED BY <1>0, <1>1, <1>2, AllResolvedRows, TicketEnds DEF CloseTicket

LEMMA ReopenTicketStep ==
    ASSUME LockInv, ReopenTicket
    PROVE  LockInv'
  <1>0. ticket \in TicketType /\ RowsOK /\ \A q \in Clients : TxOK(q)
    BY Types DEF LockInv
  <1>1. UNCHANGED <<row, tx, ticketLock, rowLock>> /\ ticket' \in TicketType
    BY <1>0 DEF ReopenTicket, TicketType, Escalatable
  <1>2. Typed'
    BY <1>1, Types DEF LockInv
  <1>3. RowsOK'
    BY <1>0, <1>1, RowsStay
  <1>4. ASSUME NEW q \in Clients PROVE TxOK(q)'
    <2>1. tx[q].op \in Terminal => row'[tx[q].id].status \in Active
      BY <1>0, <1>1 DEF TxOK
    <2> QED BY <1>0, <1>1, <2>1, TxStays
  <1> QED BY <1>2, <1>3, <1>4 DEF LockInv

LEMMA LockStep ==
    ASSUME LockInv, [Next]_vars
    PROVE  LockInv'
  <1>1. CASE UNCHANGED vars
    <2>1. UNCHANGED <<ticket, row, tx, ticketLock, rowLock>>
      BY <1>1 DEF vars
    <2>2. Typed'
      BY <2>1, Types DEF LockInv
    <2>3. RowsOK'
      BY <2>1, RowsStay DEF LockInv
    <2>4. ASSUME NEW q \in Clients PROVE TxOK(q)'
      <3>1. TxOK(q)
        BY DEF LockInv
      <3>2. tx[q].op \in Terminal => row'[tx[q].id].status \in Active
        BY <2>1, <3>1 DEF TxOK
      <3> QED BY <2>1, <3>1, <3>2, TxStays
    <2> QED BY <2>2, <2>3, <2>4 DEF LockInv
  <1>2. CASE Next
    BY <1>2, InviteCheckStep, InviteFindStep, InviteCreateStep, InviteRefreshStep, RenewStep,
       CloseSupplierWaitStep, CountActiveStep, CommitEndStep, AcceptStep, RenewCheckStep,
       BeginEndStep, RepairConclusionStep, CloseTicketStep, ReopenTicketStep DEF Next
  <1> QED BY <1>1, <1>2

LEMMA LockInvariant == Spec => []LockInv
  BY LockInit, LockStep, PTL DEF Spec

----------------------------------------------------------------------------
(* The authorization scopes *)

ScopeType == [of : Rows, on : BOOLEAN]

ScopeInv ==
    /\ scopes \in Seq(ScopeType)
    /\ \A c \in Rows : row[c].status = "none" => row[c].target = "none"
    /\ \A c \in ActiveRows : Apart(c) => Authorized(c)

\* A step that creates no collaboration leaves their suppliers as they are, and
\* brings none back.
RowsKeep ==
    \A c \in Rows :
        /\ row'[c].target = row[c].target
        /\ row'[c].status = "none" => row[c].status = "none"
        /\ row'[c].status \in Active => row[c].status \in Active

\* Every active collaboration that is Apart keeps its scope.
ScopesKeep ==
    \A c \in Rows : Apart(c) /\ Authorized(c) /\ row'[c].status \in Active => Authorized(c)'

LEMMA Symmetric ==
    ASSUME NEW c \in Rows, NEW d \in Rows, SameAccount(c, d)
    PROVE  SameAccount(d, c)
  BY DEF SameAccount

LEMMA ScopeInvStays ==
    ASSUME ScopeInv, RowsKeep, ScopesKeep, scopes' \in Seq(ScopeType)
    PROVE  ScopeInv'
  <1>1. \A c, d \in Rows : SameAccount(c, d)' <=> SameAccount(c, d)
    BY DEF SameAccount, RowsKeep
  <1>2. \A c \in Rows : Apart(c)' <=> Apart(c)
    BY <1>1 DEF Apart
  <1>3. ASSUME NEW c \in ActiveRows', Apart(c)' PROVE Authorized(c)'
    <2>1. c \in Rows /\ row'[c].status \in Active
      BY DEF ActiveRows
    <2>2. c \in ActiveRows
      BY <2>1 DEF RowsKeep, ActiveRows
    <2>3. Apart(c) /\ Authorized(c)
      BY <1>2, <1>3, <2>1, <2>2 DEF ScopeInv
    <2> QED BY <2>1, <2>3 DEF ScopesKeep
  <1>4. \A c \in Rows : row'[c].status = "none" => row'[c].target = "none"
    BY DEF ScopeInv, RowsKeep
  <1> QED BY <1>3, <1>4 DEF ScopeInv

\* A scope that LIKE finds for a collaboration belongs to no other that is Apart.
LEMMA NotMatched ==
    ASSUME NEW c \in Rows, NEW d \in Rows, d # c, Apart(d), NEW i \in Matching(c)
    PROVE  scopes[i].of # d
  <1> SUFFICES ASSUME scopes[i].of = d PROVE FALSE
    OBVIOUS
  <1>1. <<c, d>> \in Prefix /\ SameAccount(c, d)
    BY DEF Matching
  <1>2. SameAccount(d, c)
    BY <1>1, Symmetric
  <1> QED BY <1>1, <1>2 DEF Apart

\* A scope that stays in its place keeps the collaboration authorized.
LEMMA ScopeAt ==
    ASSUME NEW d \in Rows, NEW j \in DOMAIN scopes', scopes'[j] = [of |-> d, on |-> TRUE]
    PROVE  Authorized(d)'
  BY DEF Authorized

LEMMA EnsureScopeKeeps ==
    ASSUME ScopeInv, NEW c \in Rows, EnsureScope(c)
    PROVE  ScopesKeep /\ scopes' \in Seq(ScopeType)
  <1> DEFINE mine == [of |-> c, on |-> TRUE]
  <1>0. mine \in ScopeType /\ scopes \in Seq(ScopeType)
    BY DEF ScopeType, ScopeInv
  <1>1. CASE /\ Matching(c) = {}
             /\ scopes' = Append(scopes, mine)
    <2>1. scopes' \in Seq(ScopeType) /\ Len(scopes') = Len(scopes) + 1 /\ Len(scopes) \in Nat
          /\ \A j \in DOMAIN scopes : j \in DOMAIN scopes' /\ scopes'[j] = scopes[j]
      BY <1>0, <1>1
    <2>2. \A d \in Rows : Authorized(d) => Authorized(d)'
      BY <2>1 DEF Authorized
    <2> QED BY <2>1, <2>2 DEF ScopesKeep
  <1>2. ASSUME NEW i \in Matching(c), scopes' = [scopes EXCEPT ![i] = mine]
        PROVE  ScopesKeep /\ scopes' \in Seq(ScopeType)
    <2>1. i \in DOMAIN scopes
      BY DEF Matching
    <2>2. /\ scopes' \in Seq(ScopeType) /\ DOMAIN scopes' = DOMAIN scopes
          /\ scopes'[i] = mine
          /\ \A j \in DOMAIN scopes : j # i => scopes'[j] = scopes[j]
      BY <1>0, <1>2, <2>1
    <2>3. ASSUME NEW d \in Rows, Apart(d), Authorized(d) PROVE Authorized(d)'
      <3>1. CASE d = c
        BY <2>1, <2>2, <3>1, ScopeAt
      <3>2. CASE d # c
        <4>1. PICK j \in DOMAIN scopes : scopes[j] = [of |-> d, on |-> TRUE]
          BY <2>3 DEF Authorized
        <4>2. scopes[j].of = d
          BY <4>1
        <4>3. j # i
          BY <1>2, <2>3, <3>2, <4>2, NotMatched
        <4> QED BY <2>2, <4>1, <4>3, ScopeAt
      <3> QED BY <3>1, <3>2
    <2> QED BY <2>2, <2>3 DEF ScopesKeep
  <1> QED BY <1>1, <1>2 DEF EnsureScope

\* A table with as many scopes as before.
LEMMA SameLength ==
    ASSUME scopes \in Seq(ScopeType), NEW f, DOMAIN f = DOMAIN scopes,
           f = [i \in DOMAIN scopes |-> f[i]],
           \A i \in DOMAIN scopes : f[i] \in ScopeType
    PROVE  f \in Seq(ScopeType)
  <1>1. DOMAIN scopes = 1..Len(scopes) /\ Len(scopes) \in Nat
    OBVIOUS
  <1>2. f \in [1..Len(scopes) -> ScopeType]
    BY <1>1
  <1> QED BY <1>1, <1>2

LEMMA DisableScopesKeeps ==
    ASSUME ScopeInv, NEW c \in Rows, row'[c].status \notin Active,
           scopes' = DisableScopes(c)
    PROVE  ScopesKeep /\ scopes' \in Seq(ScopeType)
  <1>0. scopes \in Seq(ScopeType) /\ \A i \in DOMAIN scopes : scopes[i] \in ScopeType
    BY DEF ScopeInv
  <1>1. /\ DOMAIN scopes' = DOMAIN scopes /\ scopes' = [i \in DOMAIN scopes |-> scopes'[i]]
        /\ \A i \in DOMAIN scopes :
              scopes'[i] = [scopes[i] EXCEPT !.on = scopes[i].on /\ i \notin Matching(c)]
    BY <1>0 DEF DisableScopes, ScopeType
  <1>2. \A i \in DOMAIN scopes :
           scopes'[i] \in ScopeType /\ (i \notin Matching(c) => scopes'[i] = scopes[i])
    <2> SUFFICES ASSUME NEW i \in DOMAIN scopes
                 PROVE  scopes'[i] \in ScopeType /\ (i \notin Matching(c) => scopes'[i] = scopes[i])
      OBVIOUS
    <2> DEFINE b == scopes[i].on /\ i \notin Matching(c)
    <2>1. b \in BOOLEAN /\ (i \notin Matching(c) => (b <=> scopes[i].on)) /\ scopes[i].on \in BOOLEAN
      BY <1>0 DEF ScopeType
    <2>2. i \notin Matching(c) => b = scopes[i].on
      BY <2>1
    <2>3. scopes'[i] = [scopes[i] EXCEPT !.on = b] /\ scopes[i] \in ScopeType
      BY <1>0, <1>1
    <2> HIDE DEF b
    <2> QED BY <2>1, <2>2, <2>3 DEF ScopeType
  <1>3. scopes' \in Seq(ScopeType)
    BY <1>0, <1>1, <1>2, SameLength
  <1>4. ASSUME NEW d \in Rows, Apart(d), Authorized(d), row'[d].status \in Active
        PROVE  Authorized(d)'
    <2>1. d # c
      BY <1>4
    <2>2. PICK j \in DOMAIN scopes : scopes[j] = [of |-> d, on |-> TRUE]
      BY <1>4 DEF Authorized
    <2>3. scopes[j].of = d
      BY <2>2
    <2>4. j \notin Matching(c)
      BY <1>4, <2>1, <2>3, NotMatched
    <2> QED BY <1>1, <1>2, <2>2, <2>4, ScopeAt
  <1> QED BY <1>3, <1>4 DEF ScopesKeep

LEMMA DisableAllKeeps ==
    ASSUME ScopeInv, \A c \in Rows : row'[c].status \notin Active,
           scopes' = DisableAllScopes
    PROVE  ScopesKeep /\ scopes' \in Seq(ScopeType)
  <1>0. scopes \in Seq(ScopeType) /\ \A i \in DOMAIN scopes : scopes[i] \in ScopeType
    BY DEF ScopeInv
  <1>1. /\ DOMAIN scopes' = DOMAIN scopes /\ scopes' = [i \in DOMAIN scopes |-> scopes'[i]]
        /\ \A i \in DOMAIN scopes : scopes'[i] = [scopes[i] EXCEPT !.on = FALSE]
    BY DEF DisableAllScopes
  <1>2. \A i \in DOMAIN scopes : scopes'[i] \in ScopeType
    BY <1>0, <1>1 DEF ScopeType
  <1> QED BY <1>0, <1>1, <1>2, SameLength DEF ScopesKeep

LEMMA ScopesUnchanged ==
    ASSUME ScopeInv, UNCHANGED scopes
    PROVE  ScopesKeep /\ scopes' \in Seq(ScopeType)
  BY DEF ScopeInv, ScopesKeep, Authorized

\* What the steps that write rows leave alone.
LEMMA RowsKept ==
    ASSUME LockInv, Next, \A p \in Clients : ~InviteCreate(p)
    PROVE  RowsKeep
  <1>0. /\ row \in [Rows -> RowType] /\ \A c \in Rows : row[c] \in RowType
        /\ \A p \in Clients : TxOK(p)
    BY Types DEF LockInv
  <1>1. CASE UNCHANGED row
    BY <1>1 DEF RowsKeep
  <1>2. ASSUME NEW p \in Clients, InviteRefresh(p) \/ Renew(p) PROVE RowsKeep
    <2>1. \/ row' = [row EXCEPT ![tx[p].id].member = TRUE]
          \/ row' = [row EXCEPT ![tx[p].id].member = TRUE,
                                ![tx[p].id].wait = IF @ = "none" THEN "open" ELSE @]
      BY <1>2 DEF InviteRefresh, Renew
    <2>2. \A c \in Rows : row'[c].target = row[c].target /\ row'[c].status = row[c].status
      BY <1>0, <2>1 DEF RowType
    <2> QED BY <2>2 DEF RowsKeep
  <1>3. ASSUME NEW d \in Rows, Accept(d) PROVE RowsKeep
    <2>1. row' = [row EXCEPT ![d].status = "processing", ![d].member = TRUE]
          /\ row[d].status \in Active
      BY <1>3 DEF Accept
    <2>2. \A c \in Rows : /\ row'[c].target = row[c].target
                          /\ c # d => row'[c].status = row[c].status
                          /\ c = d => row'[c].status = "processing"
      BY <1>0, <2>1 DEF RowType
    <2> QED BY <2>1, <2>2 DEF RowsKeep, Active
  <1>4. ASSUME NEW p \in Clients, CommitEnd(p) PROVE RowsKeep
    <2> DEFINE d == tx[p].id
    <2>1. /\ tx[p].op \in Terminal /\ d \in Rows
          /\ row' = [row EXCEPT ![d].status = tx[p].op, ![d].member = FALSE,
                                ![d].wait = IF @ = "open" THEN "ended" ELSE @]
      BY <1>0, <1>4 DEF CommitEnd, TxOK
    <2> HIDE DEF d
    <2>2. \A c \in Rows : /\ row'[c].target = row[c].target
                          /\ c # d => row'[c].status = row[c].status
                          /\ c = d => row'[c].status = tx[p].op
      BY <1>0, <2>1 DEF RowType
    <2> QED BY <2>1, <2>2 DEF RowsKeep, Active, Terminal
  <1>5. CASE RepairConclusion \/ CloseTicket
    <2>1. \A c \in Rows : AllResolved[c] \in RowType /\ AllResolved[c].target = row[c].target
      <3>1. \A c \in Rows : AllResolved[c].target = row[c].target
        BY <1>0 DEF AllResolved, RowType
      <3> QED BY <1>0, <3>1, AllResolvedRows
    <2>2. \A c \in Rows :
             \/ row'[c] = row[c]
             \/ row'[c].target = AllResolved[c].target /\ row'[c].status = AllResolved[c].status
      <3>1. CASE RepairConclusion
        BY <3>1 DEF RepairConclusion
      <3>2. CASE CloseTicket
        BY <2>1, <3>2 DEF CloseTicket, RowType
      <3> QED BY <1>5, <3>1, <3>2
    <2>3. \A c \in Rows : AllResolved[c].status = IF row[c].status \in Active THEN "resolved"
                                                  ELSE row[c].status
      BY <1>0, AllResolvedRows
    <2> QED BY <2>1, <2>2, <2>3 DEF RowsKeep, Active
  <1> QED BY <1>1, <1>2, <1>3, <1>4, <1>5
          DEF Next, InviteCheck, InviteFind, RenewCheck, BeginEnd, CloseSupplierWait,
              CountActive, ReopenTicket

\* What the steps do to the scopes.
LEMMA ScopesKept ==
    ASSUME LockInv, ScopeInv, Next, \A p \in Clients : ~InviteCreate(p)
    PROVE  ScopesKeep /\ scopes' \in Seq(ScopeType)
  <1>0. /\ row \in [Rows -> RowType] /\ \A c \in Rows : row[c] \in RowType
        /\ \A p \in Clients : TxOK(p) /\ tx[p] \in TxType
    BY Types DEF LockInv
  <1>1. CASE UNCHANGED scopes
    BY <1>1, ScopesUnchanged
  <1>2. ASSUME NEW p \in Clients, InviteRefresh(p) \/ Renew(p)
        PROVE  ScopesKeep /\ scopes' \in Seq(ScopeType)
    <2>1. tx[p].id \in Rows
      BY <1>0, <1>2, SupplierAssumption DEF InviteRefresh, Renew, TxOK, TxType, Rows
    <2> QED BY <1>2, <2>1, EnsureScopeKeeps DEF InviteRefresh, Renew
  <1>3. ASSUME NEW d \in Rows, Accept(d) PROVE ScopesKeep /\ scopes' \in Seq(ScopeType)
    BY <1>3, EnsureScopeKeeps DEF Accept
  <1>4. ASSUME NEW p \in Clients, CommitEnd(p) PROVE ScopesKeep /\ scopes' \in Seq(ScopeType)
    <2>1. /\ tx[p].op \in Terminal /\ tx[p].id \in Rows
          /\ scopes' = DisableScopes(tx[p].id) \/ UNCHANGED scopes
          /\ row' = [row EXCEPT ![tx[p].id].status = tx[p].op, ![tx[p].id].member = FALSE,
                                ![tx[p].id].wait = IF @ = "open" THEN "ended" ELSE @]
      BY <1>0, <1>4 DEF CommitEnd, TxOK
    <2>2. row'[tx[p].id].status = tx[p].op
      BY <1>0, <2>1 DEF RowType
    <2>3. row'[tx[p].id].status \notin Active
      BY <2>1, <2>2 DEF Terminal, Active
    <2> QED BY <2>1, <2>3, DisableScopesKeeps, ScopesUnchanged
  <1>5. CASE RepairConclusion
    <2>1. CASE row' = AllResolved /\ scopes' = DisableAllScopes
      <3>1. \A c \in Rows : row'[c].status \notin Active
        BY <1>0, <2>1, AllResolvedRows DEF Active
      <3> QED BY <2>1, <3>1, DisableAllKeeps
    <2> QED BY <1>1, <1>5, <2>1 DEF RepairConclusion
  <1>6. CASE CloseTicket
    <2>1. \A c \in Rows : row'[c].status = AllResolved[c].status
      <3>1. \A c \in Rows : AllResolved[c] \in RowType
        BY <1>0, AllResolvedRows
      <3> QED BY <1>6, <3>1 DEF CloseTicket, RowType
    <2>2. \A c \in Rows : row'[c].status \notin Active
      BY <1>0, <2>1, AllResolvedRows DEF Active
    <2> QED BY <1>6, <2>2, DisableAllKeeps DEF CloseTicket
  <1> QED BY <1>1, <1>2, <1>3, <1>4, <1>5, <1>6
          DEF Next, InviteCheck, InviteFind, RenewCheck, BeginEnd, CloseSupplierWait,
              CountActive, ReopenTicket

\* A new collaboration has a scope of its own, and takes none.
LEMMA InviteCreateScopes ==
    ASSUME LockInv, ScopeInv, NEW p \in Clients, InviteCreate(p)
    PROVE  ScopeInv'
  <1>0. row \in [Rows -> RowType] /\ RowsOK /\ TxOK(p)
    BY Types DEF LockInv
  <1>1. PICK c \in Rows :
           /\ c = Cardinality({d \in Rows : row[d].status # "none"}) + 1
           /\ row' = [row EXCEPT ![c] = [target |-> tx[p].target, status |-> "invited",
                                         member |-> TRUE, wait |-> "open"]]
           /\ scopes' = Append(scopes, [of |-> c, on |-> TRUE])
    BY DEF InviteCreate
  <1>2. row[c].status = "none" /\ row[c].target = "none"
    BY <1>0, <1>1, FreshRow DEF ScopeInv
  <1>3. row'[c].status = "invited" /\ \A d \in Rows : d # c => row'[d] = row[d]
    BY <1>0, <1>1
  <1>4. [of |-> c, on |-> TRUE] \in ScopeType /\ scopes \in Seq(ScopeType)
    BY DEF ScopeType, ScopeInv
  <1>5. /\ scopes' \in Seq(ScopeType) /\ Len(scopes) \in Nat
        /\ Len(scopes) + 1 \in DOMAIN scopes'
        /\ scopes'[Len(scopes) + 1] = [of |-> c, on |-> TRUE]
        /\ \A j \in DOMAIN scopes : j \in DOMAIN scopes' /\ scopes'[j] = scopes[j]
    BY <1>1, <1>4
  <1>6. ASSUME NEW d \in ActiveRows', Apart(d)' PROVE Authorized(d)'
    <2>1. CASE d = c
      BY <1>5, <2>1, ScopeAt
    <2>2. CASE d # c
      <3>1. d \in ActiveRows /\ d \in Rows
        BY <1>3, <2>2 DEF ActiveRows
      <3>2. ASSUME NEW e \in Rows \ {d}, SameAccount(d, e)
            PROVE  <<d, e>> \notin Prefix /\ <<e, d>> \notin Prefix
        <4>1. e # c
          BY <1>2, <3>2 DEF SameAccount
        <4>2. SameAccount(d, e)'
          BY <1>3, <2>2, <3>1, <3>2, <4>1 DEF SameAccount
        <4> QED BY <1>6, <4>2 DEF Apart
      <3>3. Authorized(d)
        BY <3>1, <3>2 DEF Apart, ScopeInv
      <3> QED BY <1>5, <3>3 DEF Authorized
    <2> QED BY <2>1, <2>2
  <1>7. \A d \in Rows : row'[d].status = "none" => row'[d].target = "none"
    BY <1>3 DEF ScopeInv
  <1> QED BY <1>5, <1>6, <1>7 DEF ScopeInv

LEMMA ScopeStep ==
    ASSUME LockInv, ScopeInv, [Next]_vars
    PROVE  ScopeInv'
  <1>1. CASE UNCHANGED vars
    <2>1. UNCHANGED <<row, scopes>>
      BY <1>1 DEF vars
    <2>2. RowsKeep
      BY <2>1 DEF RowsKeep
    <2> QED BY <2>1, <2>2, ScopesUnchanged, ScopeInvStays
  <1>2. CASE Next /\ \A p \in Clients : ~InviteCreate(p)
    BY <1>2, RowsKept, ScopesKept, ScopeInvStays
  <1>3. CASE \E p \in Clients : InviteCreate(p)
    BY <1>3, InviteCreateScopes
  <1> QED BY <1>1, <1>2, <1>3

LEMMA ScopeInit == Init => ScopeInv
  <1> SUFFICES ASSUME Init PROVE ScopeInv
    OBVIOUS
  <1>1. \A c \in Rows : row[c].status = "none" /\ row[c].target = "none"
    BY DEF Init, NoRow
  <1>2. ActiveRows = {}
    BY <1>1 DEF ActiveRows, Active
  <1>3. scopes \in Seq(ScopeType)
    BY DEF Init
  <1> QED BY <1>1, <1>2, <1>3 DEF ScopeInv

LEMMA ScopeInvariant == Spec => []ScopeInv
  BY LockInvariant, ScopeInit, ScopeStep, PTL DEF Spec

----------------------------------------------------------------------------
(* The results *)

\* Ticket, collaborations, scopes and transactions keep their types.
THEOREM TypeCorrect == Spec => []TypeOK
  <1>1. LockInv /\ ScopeInv => TypeOK
    BY Types DEF LockInv, ScopeInv, TypeOK, TicketType, RowType, TxType, ScopeType
  <1> QED BY <1>1, LockInvariant, ScopeInvariant, PTL

\* Invite looks for an active collaboration and inserts one in the same transaction,
\* under the lock of the ticket: a supplier never has two active collaborations for a
\* module, however many invitations overlap.
THEOREM OneActivePerSupplierHolds == Spec => []OneActivePerSupplier
  <1>1. LockInv => OneActivePerSupplier
    <2> SUFFICES ASSUME LockInv, NEW t \in Targets PROVE Cardinality(FindActive(t)) <= 1
      BY DEF OneActivePerSupplier
    <2>1. \A c, d \in FindActive(t) : c = d
      BY DEF FindActive, ActiveRows, LockInv, RowsOK, Unique
    <2>2. CASE FindActive(t) = {}
      BY <2>2, FS_EmptySet
    <2>3. CASE FindActive(t) # {}
      <3>1. PICK c : FindActive(t) = {c}
        BY <2>1, <2>3
      <3> QED BY <3>1, FS_Singleton
    <2> QED BY <2>2, <2>3
  <1> QED BY <1>1, LockInvariant, PTL

\* Ending one collaboration ends the participation and the wait of that one only, and
\* the LIKE that finds its authorization scopes, to disable or to reuse them, reaches no
\* scope of a collaboration whose id neither begins with its id nor begins it: such a
\* supplier keeps a valid scope until its own collaboration ends.
THEOREM ServedWhileActiveHolds == Spec => []ServedWhileActive
  <1>1. LockInv /\ ScopeInv => ServedWhileActive
    BY DEF LockInv, RowsOK, Engaged, ScopeInv, ServedWhileActive
  <1> QED BY <1>1, LockInvariant, ScopeInvariant, PTL

\* Resolve, timeout and expiry check a collaboration under its lock, and Invite never
\* reuses one: the outcome of a collaboration is never overwritten.
THEOREM EndedIsFinalHolds == Spec => EndedIsFinal
  <1>1. ASSUME LockInv, [Next]_vars
        PROVE  \A c \in Rows : row[c].status \in Terminal => row'[c].status = row[c].status
    <2> USE <1>1
    <2> SUFFICES ASSUME NEW c \in Rows, row[c].status \in Terminal
                 PROVE  row'[c].status = row[c].status
      OBVIOUS
    <2>0. /\ row \in [Rows -> RowType] /\ row[c] \in RowType
          /\ RowsOK /\ \A p \in Clients : TxOK(p)
          /\ row[c].status \notin Active /\ row[c].status # "none"
      BY Types DEF LockInv, Terminal, Active
    <2>1. CASE UNCHANGED row
      BY <2>1
    <2>2. ASSUME NEW p \in Clients, InviteCreate(p) PROVE row'[c].status = row[c].status
      <3>1. PICK d \in Rows :
               /\ d = Cardinality({e \in Rows : row[e].status # "none"}) + 1
               /\ row' = [row EXCEPT ![d] = [target |-> tx[p].target, status |-> "invited",
                                             member |-> TRUE, wait |-> "open"]]
        BY <2>2 DEF InviteCreate
      <3>2. c # d
        BY <2>0, <3>1, FreshRow
      <3> QED BY <2>0, <3>1, <3>2
    <2>3. ASSUME NEW p \in Clients, InviteRefresh(p) \/ Renew(p)
          PROVE  row'[c].status = row[c].status
      <3>1. \/ row' = [row EXCEPT ![tx[p].id].member = TRUE]
            \/ row' = [row EXCEPT ![tx[p].id].member = TRUE,
                                  ![tx[p].id].wait = IF @ = "none" THEN "open" ELSE @]
        BY <2>3 DEF InviteRefresh, Renew
      <3> QED BY <2>0, <3>1 DEF RowType
    <2>4. ASSUME NEW d \in Rows, Accept(d) PROVE row'[c].status = row[c].status
      BY <2>0, <2>4 DEF Accept
    <2>5. ASSUME NEW p \in Clients, CommitEnd(p) PROVE row'[c].status = row[c].status
      <3>1. tx[p].id # c
        BY <2>0, <2>5 DEF CommitEnd, TxOK
      <3>2. row'[c] = row[c]
        BY <2>0, <2>5, <3>1 DEF CommitEnd
      <3> QED BY <3>2
    <2>6. CASE RepairConclusion
      BY <2>0, <2>6, AllResolvedRows DEF RepairConclusion
    <2>7. CASE CloseTicket
      <3>1. AllResolved[c] \in RowType /\ AllResolved[c].status = row[c].status
        BY <2>0, AllResolvedRows
      <3>2. row'[c].status = AllResolved[c].status
        BY <2>7, <3>1 DEF CloseTicket, RowType
      <3> QED BY <3>1, <3>2
    <2> QED BY <2>1, <2>2, <2>3, <2>4, <2>5, <2>6, <2>7
            DEF Next, vars, InviteCheck, InviteFind, RenewCheck, BeginEnd, CloseSupplierWait,
                CountActive, ReopenTicket
  <1> QED BY <1>1, LockInvariant, PTL DEF Spec, EndedIsFinal

============================================================================
